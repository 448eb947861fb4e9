------------------------------ MODULE MCCallMe ------------------------------
(* An instance of CallMe.  One private function has a name that goes on where
   another ends, and a sum and a product give the same number. *)
EXTENDS CallMe, TLC

P(n, t) == [name |-> n, type |-> t]
F(tokens, params, set) == [tokens |-> tokens, params |-> params, set |-> set]

FunctionsDef ==
  ("add" :> F(<<"fn", "add">>, <<P("a", "number"), P("b", "number")>>, "public"))
  @@ ("greet" :> F(<<"fn", "gre", "et">>, <<P("name", "string")>>, "public"))
  @@ ("replace" :> F(<<"fn", "re", "place">>,
                     <<P("source", "string"), P("regex", "string"), P("replacement", "string")>>, "public"))
  @@ ("mul" :> F(<<"fn", "mul">>, <<P("a", "number"), P("b", "number")>>, "private"))
  @@ ("even" :> F(<<"fn", "even">>,
                  <<P("path", "string"), P("n", "integer"), P("to", "integer")>>, "private"))
  @@ ("evens" :> F(<<"fn", "even", "s">>, <<P("n", "integer")>>, "private"))
VocabularyDef == UNION {ToSet(FunctionsDef[f].tokens) : f \in DOMAIN FunctionsDef}
OrderDef == <<"add", "greet", "replace", "mul", "even", "evens">>

N(v) == [type |-> "float", value |-> v]
I(v) == [type |-> "int", value |-> v]
S(v) == [type |-> "str", value |-> v]
ExercisesDef ==
  <<[name |-> "add", prompt |-> "sum of 2 and 2", args |-> ("a" :> N(2) @@ "b" :> N(2))],
    [name |-> "greet", prompt |-> "greet john", args |-> ("name" :> S("john"))],
    [name |-> "mul", prompt |-> "product of 2 and 2", args |-> ("a" :> N(2) @@ "b" :> N(2))],
    [name |-> "even", prompt |-> "even of 'p' from 4 to 6",
     args |-> ("path" :> S("p") @@ "n" :> I(4) @@ "to" :> I(6))]>>

Named == [p \in {} |-> ""]
PromptsDef ==
  ("sum of 2 and 2" :> [numbers |-> <<2, 2>>, quoted |-> <<>>, named |-> Named, word |-> "2"])
  @@ ("greet john" :> [numbers |-> <<>>, quoted |-> <<>>, named |-> Named, word |-> "john"])
  @@ ("product of 2 and 2" :> [numbers |-> <<2, 2>>, quoted |-> <<>>, named |-> Named, word |-> "2"])
  @@ ("even of 'p' from 4 to 6" :>
        [numbers |-> <<4, 6>>, quoted |-> <<"p">>, named |-> ("path" :> "p"), word |-> "6"])

ResultDef(name, args) ==
  IF name = "add" THEN <<"number", args["a"] + args["b"]>>
  ELSE IF name = "mul" THEN <<"number", args["a"] * args["b"]>>
  ELSE <<name, args>>

\* What RightCallsPay takes for granted of the exercises
ASSUME ArgumentsNamed == PromptsNameArguments
=============================================================================

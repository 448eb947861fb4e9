------------------------------- MODULE CallMe -------------------------------
(***************************************************************************)
(* "Call Me Maybe": a program that turns prompts into function calls, and  *)
(* the moulinette that prepares its exercises and grades its answers.      *)
(* They are separate processes which share the exercise files and the file *)
(* of answers; each of them may be killed, and exercises may be prepared   *)
(* anew while the program runs.                                            *)
(*                                                                         *)
(* The name of a function is a sequence of tokens.  The scores of the      *)
(* language model are any, so of the tokens that are not masked any may be *)
(* the best.  Of a prompt there is what the regular expressions find in    *)
(* it: numbers, quoted texts, the texts that belong to a parameter, and    *)
(* its last word.                                                          *)
(***************************************************************************)
EXTENDS Integers, Sequences, SequencesExt, FiniteSets

CONSTANTS Vocabulary,  \* the tokens of the language model
          Functions,   \* name -> tokens, params (sequence of name and type), set
          Order,         \* the names in the order of the exercises
          Exercises,     \* sequence of name, prompt and args, in that order
          Prompts,       \* prompt -> numbers, quoted, named, word
          Result(_, _),  \* what a function gives for arguments of the right types
          MaxRuns, MaxKills,   \* bounds of the model: commands, kills
          None

Sets == {"public", "private"}

ASSUME CallMeAssumption ==
  /\ \A f \in DOMAIN Functions :
       /\ Functions[f].tokens \in Seq(Vocabulary) /\ Functions[f].set \in Sets
       /\ \A i, j \in DOMAIN Functions[f].params :
            Functions[f].params[i].name = Functions[f].params[j].name => i = j
  /\ Order \in Seq(DOMAIN Functions)
  /\ Exercises \in Seq(ToSet(Exercises))
  /\ \A e \in ToSet(Exercises) : e.name \in DOMAIN Functions /\ e.prompt \in DOMAIN Prompts
  /\ MaxRuns \in Nat /\ MaxKills \in Nat

VARIABLES inputs,  \* the files of the exercise: defs, tests, corrections
          output,  \* the file of answers
          prep,    \* the moulinette while it prepares exercises
          gen,     \* the program
          report,  \* what grading prints
          runs, kills

vars == <<inputs, output, prep, gen, report, runs, kills>>

NoFile == [state |-> "absent"]
Half == [state |-> "broken"]
File(v) == [state |-> "whole", value |-> v]
Whole(f) == f.state = "whole"
Idle == [pc |-> "idle"]

Init ==
  /\ inputs = [f \in {"defs", "tests", "corrections"} |-> NoFile]
  /\ output = NoFile
  /\ prep = Idle /\ gen = Idle
  /\ report = None
  /\ runs = 0 /\ kills = 0

Run == runs < MaxRuns /\ runs' = runs + 1

-----------------------------------------------------------------------------
(* The moulinette *)

\* The places chosen, in their order
Ascending(places) ==
  CHOOSE s \in [1 .. Cardinality(places) -> places] :
    \A i, j \in 1 .. Cardinality(places) : i < j => s[i] < s[j]
At(list, places) == [k \in 1 .. Cardinality(places) |-> list[Ascending(places)[k]]]

FunctionsOf(set) == At(Order, {i \in DOMAIN Order : Functions[Order[i]].set = set})
ExercisesOf(set) == At(Exercises, {i \in DOMAIN Exercises : Functions[Exercises[i].name].set = set})
PromptsOf(set) == [i \in DOMAIN ExercisesOf(set) |-> ExercisesOf(set)[i].prompt]

Written == <<"defs", "tests", "corrections">>
ContentOf(set) ==
  [f \in ToSet(Written) |->
     IF f = "defs" THEN FunctionsOf(set)
     ELSE IF f = "tests" THEN PromptsOf(set) ELSE ExercisesOf(set)]

\* prepare_exercises removes both folders, then writes the files one by one
Prepare(set) ==
  /\ Run
  /\ prep = Idle
  /\ prep' = [pc |-> "open", set |-> set, at |-> 1]
  /\ inputs' = [f \in DOMAIN inputs |-> NoFile]
  /\ report' = None
  /\ UNCHANGED <<output, gen, kills>>

PrepareWrite ==
  /\ prep # Idle
  /\ \E f \in {Written[prep.at]} :
       IF prep.pc = "open"
       THEN /\ inputs' = [inputs EXCEPT ![f] = Half]
            /\ prep' = [prep EXCEPT !.pc = "dump"]
       ELSE /\ inputs' = [inputs EXCEPT ![f] = File(ContentOf(prep.set)[f])]
            /\ prep' = IF prep.at < Len(Written)
                       THEN [prep EXCEPT !.pc = "open", !.at = @ + 1]
                       ELSE Idle
  /\ UNCHANGED <<output, gen, report, runs, kills>>

Numeric == {"number", "integer", "float"}
PyType(type) == IF type = "integer" THEN "int" ELSE IF type \in Numeric THEN "float" ELSE "str"

\* What a function is called with: TypeError if the names differ, AssertionError if a type does
Accepts(name, params) ==
  LET ps == Functions[name].params
  IN  /\ DOMAIN params = {ps[i].name : i \in DOMAIN ps}
      /\ \A i \in DOMAIN ps : params[ps[i].name].type = PyType(ps[i].type)
Call(name, params) == Result(name, [p \in DOMAIN params |-> params[p].value])

\* One answer against the exercise of the same place
Valid(set, answer, e) ==
  /\ answer.prompt = e.prompt
  /\ Functions[answer.name].set = set
  /\ Accepts(answer.name, answer.params)
  /\ Call(answer.name, answer.params) = Call(e.name, e.args)

\* grade_student_answers: zip stops at the shorter of the two
Grade(set) ==
  /\ Run
  /\ Whole(output)
  /\ LET es == ExercisesOf(set)
         as == output.value.list
     IN  report' = [set |-> set, of |-> output.value, total |-> Len(es),
                    valid |-> {i \in DOMAIN es \cap DOMAIN as : Valid(set, as[i], es[i])}]
  /\ UNCHANGED <<inputs, output, prep, gen, kills>>

-----------------------------------------------------------------------------
(* The program *)

Tokens(name) == Functions[name].tokens

\* open_files reads the prompts first, then the definitions
OpenTests ==
  /\ Run
  /\ gen = Idle /\ Whole(inputs.tests)
  /\ gen' = [pc |-> "defs", prompts |-> inputs.tests.value]
  /\ report' = None
  /\ UNCHANGED <<inputs, output, prep, kills>>

Decoder(g) == [pc |-> "decode", prompts |-> g.prompts, defs |-> g.defs,
               results |-> g.results, generated |-> <<>>]

OpenDefs ==
  /\ gen.pc = "defs" /\ Whole(inputs.defs)
  /\ gen' = Decoder([prompts |-> gen.prompts, defs |-> inputs.defs.value, results |-> <<>>])
  /\ UNCHANGED <<inputs, output, prep, report, runs, kills>>

\* Mutant: definitions that are not there are waited for
Fails_Waiting ==
  /\ gen.pc = "decode" /\ gen.prompts # <<>> /\ Len(gen.defs) < 3
  /\ gen' = Idle
  /\ UNCHANGED <<inputs, output, prep, report, runs, kills>>

(* An exception: a file that is not there or not JSON, or fewer functions than
   the two examples of the prompt need.  It is printed, and that is all. *)
Fails ==
  /\ \/ gen.pc = "defs" /\ ~Whole(inputs.defs)
     \/ gen.pc = "decode" /\ gen.prompts # <<>> /\ Len(gen.defs) < 3
  /\ gen' = Idle
  /\ UNCHANGED <<inputs, output, prep, report, runs, kills>>

Answering == gen.pc = "decode" /\ Len(gen.defs) >= 3 /\ Len(gen.results) < Len(gen.prompts)

\* The functions whose name is decoded
Matches == {i \in DOMAIN gen.defs : Tokens(gen.defs[i]) = gen.generated}

\* Mutant: the mask looks at the place of a token only
Allowed_ByPlace ==
  {Tokens(gen.defs[i])[Len(gen.generated) + 1] :
     i \in {j \in DOMAIN gen.defs : Len(gen.generated) < Len(Tokens(gen.defs[j]))}}

\* valid_tokens: those that continue a name which begins with what is generated
Allowed ==
  {Tokens(gen.defs[i])[Len(gen.generated) + 1] :
     i \in {j \in DOMAIN gen.defs : /\ Len(gen.generated) < Len(Tokens(gen.defs[j]))
                                    /\ IsPrefix(gen.generated, Tokens(gen.defs[j]))}}

\* With every token masked the first of the vocabulary would be taken, for ever
Decode ==
  /\ Answering /\ Matches = {}
  /\ Allowed # {}
  /\ \E t \in Allowed : gen' = [gen EXCEPT !.generated = Append(@, t)]
  /\ UNCHANGED <<inputs, output, prep, report, runs, kills>>

(* _extract_parameters: the numbers in their order, 0 if there are not enough;
   a text by the name of its parameter, else the next quoted one, else nothing.
   A text that is the only one and empty becomes the last word. *)
Numbers(ps, i) == Cardinality({j \in 1 .. i - 1 : ps[j].type \in Numeric})
ByName(p, ps, i) == ps[i].name \in DOMAIN p.named
Quoted(p, ps, i) == Cardinality({j \in 1 .. i - 1 : ps[j].type \notin Numeric /\ ~ByName(p, ps, j)})
Only(ps, i) == \A j \in DOMAIN ps : ps[j].type \notin Numeric => j = i

Text(p, ps, i) ==
  IF ByName(p, ps, i) THEN p.named[ps[i].name]
  ELSE IF Quoted(p, ps, i) < Len(p.quoted) THEN p.quoted[Quoted(p, ps, i) + 1]
  ELSE IF Only(ps, i) THEN p.word
  ELSE ""

Value(p, ps, i) ==
  [type |-> PyType(ps[i].type),
   value |-> IF ps[i].type \notin Numeric THEN Text(p, ps, i)
             ELSE IF Numbers(ps, i) < Len(p.numbers) THEN p.numbers[Numbers(ps, i) + 1] ELSE 0]

ExtractParameters(prompt, name) ==
  LET ps == Functions[name].params
  IN  [n \in {ps[i].name : i \in DOMAIN ps} |->
         Value(Prompts[prompt], ps, CHOOSE i \in DOMAIN ps : ps[i].name = n)]

Complete ==
  /\ Answering
  /\ \E i \in Matches :
       \E prompt \in {gen.prompts[Len(gen.results) + 1]} :
         gen' = Decoder([gen EXCEPT !.results =
                  Append(@, [prompt |-> prompt, name |-> gen.defs[i],
                             params |-> ExtractParameters(prompt, gen.defs[i])])])
  /\ UNCHANGED <<inputs, output, prep, report, runs, kills>>

\* return_output
Truncate ==
  /\ gen.pc = "decode" /\ Len(gen.results) = Len(gen.prompts)
  /\ output' = Half
  /\ gen' = [gen EXCEPT !.pc = "dump"]
  /\ UNCHANGED <<inputs, prep, report, runs, kills>>

Dump ==
  /\ gen.pc = "dump"
  /\ output' = File([list |-> gen.results, prompts |-> gen.prompts, defs |-> gen.defs])
  /\ gen' = Idle
  /\ UNCHANGED <<inputs, prep, report, runs, kills>>

Kill ==
  /\ kills < MaxKills /\ kills' = kills + 1
  /\ \/ prep # Idle /\ prep' = Idle /\ gen' = gen
     \/ gen # Idle /\ gen' = Idle /\ prep' = prep
  /\ UNCHANGED <<inputs, output, report, runs>>

Next ==
  \/ \E set \in Sets : Prepare(set) \/ Grade(set)
  \/ PrepareWrite
  \/ OpenTests \/ OpenDefs \/ Fails \/ Decode \/ Complete \/ Truncate \/ Dump
  \/ Kill

Spec == Init /\ [][Next]_vars

\* The one thread of the program runs on
FairSpec == Spec /\ WF_vars(OpenDefs \/ Fails \/ Decode \/ Complete \/ Truncate \/ Dump)

-----------------------------------------------------------------------------
\* The exercises ask for the arguments that are found in their prompts
PromptsNameArguments ==
  \A e \in ToSet(Exercises) : ExtractParameters(e.prompt, e.name) = e.args

TypeOK ==
  /\ \A f \in DOMAIN inputs : inputs[f].state \in {"absent", "broken", "whole"}
  /\ output.state \in {"absent", "broken", "whole"}
  /\ prep # Idle => prep.pc \in {"open", "dump"} /\ prep.set \in Sets /\ prep.at \in DOMAIN Written
  /\ gen # Idle => /\ gen.pc \in {"defs", "decode", "dump"}
                   /\ gen.pc # "defs" => Len(gen.results) <= Len(gen.prompts)
  /\ report # None => report.valid \subseteq 1 .. report.total
  /\ runs \in 0 .. MaxRuns /\ kills \in 0 .. MaxKills

(* What is generated always begins a name, so that the mask never covers all
   tokens; of two names one of which begins the other the longer is never
   taken (function_token). *)
DecodesToName ==
  Answering =>
    /\ \E i \in DOMAIN gen.defs : IsPrefix(gen.generated, Tokens(gen.defs[i]))
    /\ Matches # {} \/ Allowed # {}
    /\ \A r \in ToSet(gen.results), f \in ToSet(gen.defs) :
         IsPrefix(Tokens(f), Tokens(r.name)) => Tokens(f) = Tokens(r.name)

(* The file of answers has one call for every prompt of its run, in their
   order, of a function of the exercise with exactly its parameters, each of
   its type: what the README asserts, though files of two exercises may be read. *)
CallsComplete ==
  Whole(output) =>
    LET o == output.value
    IN  /\ [i \in DOMAIN o.list |-> o.list[i].prompt] = o.prompts
        /\ \A i \in DOMAIN o.list :
             /\ o.list[i].name \in ToSet(o.defs)
             /\ Accepts(o.list[i].name, o.list[i].params)

(* A run of the program ends, with its answers written or without, whatever
   happens to the files meanwhile: decoding does not go on for ever. *)
RunEnds == gen # Idle ~> gen = Idle

(* The right function, if the prompt names its arguments in their order, is
   worth a point, whatever the other answers are, and a point is never given
   for an answer to another prompt (grade_student_answers). *)
RightCallsPay ==
  report # None =>
    LET es == ExercisesOf(report.set)
        right == {i \in DOMAIN es :
                    /\ report.of.prompts = PromptsOf(report.set)
                    /\ report.of.defs = FunctionsOf(report.set)
                    /\ report.of.list[i].name = es[i].name}
    IN  /\ right \subseteq report.valid
        /\ \A i \in report.valid : report.of.prompts[i] = es[i].prompt

(* From the tokens to the grade: every name decoded is one of a function,
   every file of answers is complete, and right answers are paid. *)
AnswersSound == TypeOK /\ DecodesToName /\ CallsComplete /\ RightCallsPay
=============================================================================

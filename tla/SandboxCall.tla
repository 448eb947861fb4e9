---------------------------- MODULE SandboxCall ----------------------------
(***************************************************************************)
(* What an agent session promises to the program that drives it, as seen   *)
(* through SandboxExecutor.execute alone: calls are made one at a time and *)
(* each of them gets exactly one answer, about its own code.               *)
(*   done    the code ran to an end that the sandbox reports               *)
(*   killed  the parent gave up on the child process                       *)
(*   raised  execute left with an exception: the child died by itself      *)
(***************************************************************************)
EXTENDS Naturals, Sequences

CONSTANT Calls       \* how many times the session is asked to run code

VARIABLES asked,     \* calls made so far
          answers    \* their answers, in the order of the calls

vars == <<asked, answers>>

Ends == {"ok", "error", "final", "timeout"}

Answers(n) == [kind : {"done"}, call : {n}, end : Ends]
                \cup [kind : {"killed", "raised"}, call : {n}, end : {"none"}]

Init == /\ asked = 0
        /\ answers = << >>

Ask == /\ asked = Len(answers)
       /\ asked < Calls
       /\ asked' = asked + 1
       /\ UNCHANGED answers

Answer == /\ asked > Len(answers)
          /\ \E a \in Answers(asked) : answers' = Append(answers, a)
          /\ UNCHANGED asked

Next == Ask \/ Answer

Spec == Init /\ [][Next]_vars /\ WF_vars(Answer)
=============================================================================

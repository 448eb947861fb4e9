----------------------------- MODULE AgentExam -----------------------------
(***************************************************************************)
(* Agent Smith around its sandbox: exam_runner.py prepares the tasks one   *)
(* after the other, runs an agent (agent_mbpp, agent_swebench) on each,    *)
(* and lets the moulinette validate the solution file it finds.  The agent *)
(* opens its resources, runs the loop of orchestrator.py - limits, request *)
(* with retries (llm_provider.py), extraction of the code, execution - and *)
(* writes a solution.  execute() answers as SandboxCall promises; the code *)
(* it runs uses the tools of mcp_tools_swebench.py on a testbed.           *)
(*                                                                         *)
(* A file of the testbed is a sequence of lines; a patch is what git diff  *)
(* reports of it, the tracked lines, and `created' is a new file that git  *)
(* does not track and that happens to make the tests pass.                 *)
(***************************************************************************)
EXTENDS Naturals, Sequences, FiniteSets

CONSTANTS
    Modes,        \* exams taken: mbpp, fixture (local testbed), docker
    Tasks,        \* tasks of an exam
    Threshold,    \* tasks to pass
    MaxIterations, MaxTokensIn, MaxTokensOut,   \* limits of the agent
    MaxRetries,   \* of a request
    Keys,         \* API keys of the provider
    MaxCost       \* bound: tokens of one response, either way

ASSUME AgentExamAssumption ==
    /\ {Tasks, Threshold, MaxIterations, MaxTokensIn, MaxTokensOut, MaxRetries} \subseteq Nat
    /\ Keys \in Nat \ {0}
    /\ MaxCost \in Nat \ {0}
    /\ Modes \subseteq {"mbpp", "fixture", "docker"}

VARIABLES
    mode, task, passed,     \* the exam
    phase,                  \* where the exam or the agent is
    open,                   \* what the agent of the task has opened and not released
    testbed,                \* of the agent: [lines, created]
    late,                   \* the agent is past its wall-clock limit
    attempt,                \* failed requests of this step
    key,                    \* the next key of the cycle
    run,                    \* locals of Orchestrator.run
    file,                   \* the solution file of the task
    good                    \* tasks whose submitted solution is correct

exam  == <<mode, task, passed, good>>
vars  == <<exam, phase, open, testbed, late, attempt, key, run, file>>

-----------------------------------------------------------------------------
(* Testbeds, patches and the tools that touch them.                        *)

Lines    == {"bug", "fix", "ctx"}
Original == [lines |-> <<"bug", "ctx">>, created |-> FALSE]
Repaired == <<"fix", "ctx">>

Green(tb) == tb.lines = Repaired \/ tb.created

(* edit_file: nothing changes unless old occurs exactly once.              *)
EditFile(tb, old, new) ==
    LET at == {i \in DOMAIN tb.lines : tb.lines[i] = old}
    IN  IF \E i \in at : at = {i}
        THEN [tb EXCEPT !.lines[CHOOSE i \in at : TRUE] = new]
        ELSE tb

Answer(kind, lines) == [kind |-> kind, lines |-> lines]

(* get_patch: the text is empty when git sees no difference.               *)
GetPatch(tb) == IF tb.lines = Original.lines THEN Answer("empty", << >>)
                ELSE Answer("patch", tb.lines)

Applied(patch) == [Original EXCEPT !.lines = patch.lines]

-----------------------------------------------------------------------------
NoFile == [written |-> FALSE]

Fresh == [step |-> 0, in |-> 0, out |-> 0, requests |-> 0, steps |-> 0, msgs |-> << >>,
          success |-> FALSE, solution |-> Answer("empty", << >>), error |-> FALSE,
          raised |-> FALSE]

Init ==
    /\ mode \in Modes /\ task = 1 /\ passed = 0 /\ good = {}
    /\ phase = "prepare" /\ open = {} /\ testbed = Original
    /\ late = FALSE /\ attempt = 0 /\ key = 0 /\ run = Fresh /\ file = NoFile

(* dump, and for a fixture a fresh copy of its repository under git.       *)
Prepare ==
    /\ phase = "prepare" /\ task <= Tasks
    /\ testbed' = Original /\ file' = NoFile /\ open' = {}
    /\ run' = Fresh /\ late' = FALSE /\ attempt' = 0 /\ key' = 0
    /\ phase' = "connect"
    /\ UNCHANGED exam

Container == IF mode = "docker" THEN {"container"} ELSE {}

Opened == {"mcp", "sandbox", "provider"} \cup Container

(* main up to its try: container, tool server, sandbox, provider.  An      *)
(* exception ends the process, and with it all but the container.          *)
Connect ==
    /\ phase = "connect"
    /\ \/ phase' = "check" /\ open' = Opened
       \/ phase' = "validate" /\ open' \in {{}, Container}
    /\ UNCHANGED <<exam, testbed, late, attempt, key, run, file>>

TimePasses ==
    /\ phase \in {"check", "generate", "execute"} /\ ~late
    /\ late' = TRUE
    /\ UNCHANGED <<exam, phase, open, testbed, attempt, key, run, file>>

OverBudget == late \/ run.in > MaxTokensIn \/ run.out > MaxTokensOut

(* The head of the loop: the range is used up, a limit is passed, or a     *)
(* request follows.                                                        *)
Check ==
    /\ phase = "check"
    /\ LET exhausted == run.step = MaxIterations
       IN  /\ run' = [run EXCEPT !.step = IF exhausted THEN @ ELSE @ + 1,
                                 !.error = exhausted \/ OverBudget]
           /\ phase' = IF exhausted \/ OverBudget THEN "cleanup" ELSE "generate"
    /\ attempt' = 0
    /\ UNCHANGED <<exam, open, testbed, late, key, file>>

(* A failed attempt - any status, any exception - is retried with the next *)
(* key until max_retries is reached.                                       *)
NextAttempt_Uncounted == attempt
NextAttempt == attempt + 1

RequestFails ==
    /\ phase = "generate"
    /\ IF attempt = MaxRetries
         THEN run' = [run EXCEPT !.error = TRUE] /\ phase' = "cleanup" /\ UNCHANGED attempt
         ELSE attempt' = NextAttempt /\ UNCHANGED <<run, phase>>
    /\ key' = (key + 1) % Keys
    /\ UNCHANGED <<exam, open, testbed, late, file>>

Answered_WithRetries(i, o) ==
    [run EXCEPT !.requests = @ + 1 + attempt, !.in = @ + i, !.out = @ + o,
                !.msgs = Append(@, "assistant")]
Answered(i, o) ==
    [run EXCEPT !.requests = @ + 1, !.in = @ + i, !.out = @ + o,
                !.msgs = Append(@, "assistant")]

Observed(r) == [r EXCEPT !.steps = @ + 1, !.msgs = Append(@, "user")]

(* A response arrives.  extract_code finds code in it or explains why not; *)
(* a response whose content is null ends the run with an exception.        *)
Respond ==
    /\ phase = "generate"
    /\ \E i, o \in 1..MaxCost :
         \/ run' = Answered(i, o) /\ phase' = "execute"
         \/ run' = Observed(Answered(i, o)) /\ phase' = "check"
         \/ run' = [Answered(i, o) EXCEPT !.raised = TRUE] /\ phase' = "cleanup"
    /\ key' = (key + 1) % Keys
    /\ UNCHANGED <<exam, open, testbed, late, attempt, file>>

(* The code under execution calls a tool that changes the testbed.         *)
UseTool ==
    /\ phase = "execute" /\ mode # "mbpp"
    /\ \/ \E old, new \in Lines : testbed' = EditFile(testbed, old, new)
       \/ testbed' = [testbed EXCEPT !.created = TRUE]
    /\ UNCHANGED <<exam, phase, open, late, attempt, key, run, file>>

(* What the language model may submit.                                     *)
Submissions ==
    IF mode = "mbpp" THEN {Answer("text", Repaired), Answer("text", << >>),
                           Answer("loops", << >>), Answer("empty", << >>)}
    ELSE {Answer("text", << >>), GetPatch(testbed)}

(* execute returns: with a final answer, with any other end or a kill, or  *)
(* by an exception that nothing catches before the finally of main.        *)
Executed ==
    /\ phase = "execute"
    /\ \/ \E a \in Submissions :
            /\ run' = [run EXCEPT !.steps = @ + 1, !.success = TRUE, !.solution = a]
            /\ phase' = "cleanup"
       \/ run' = Observed(run) /\ phase' = "check"
       \/ run' = [run EXCEPT !.raised = TRUE] /\ phase' = "cleanup"
    /\ UNCHANGED <<exam, open, testbed, late, attempt, key, file>>

Released_LessContainer == open \cap {"container"}
Released == {}

(* The finally of main, then the file, unless an exception passes through. *)
Finish ==
    /\ phase = "cleanup"
    /\ open' = Released
    /\ phase' = "validate"
    /\ file' = IF run.raised THEN NoFile
               ELSE [written |-> TRUE, task |-> task, run |-> run, late |-> late]
    /\ UNCHANGED <<exam, testbed, late, attempt, key, run>>

-----------------------------------------------------------------------------
(* The moulinette.                                                         *)

WithinLimits(f) ==
    /\ f.run.steps <= MaxIterations
    /\ f.run.in <= MaxTokensIn /\ f.run.out <= MaxTokensOut
    /\ ~f.late

(* cmd_validate_mbpp runs the tests on the solution.                       *)
MbppCorrect(f) == f.run.success /\ f.run.solution = Answer("text", Repaired)

(* cmd_validate_swebench applies the patch to a second, fresh testbed and  *)
(* runs the tests there, if it is given one.                               *)
PatchPresent(f) == f.run.success /\ f.run.solution.kind = "patch"

PatchCorrect_Present(f) == PatchPresent(f)
PatchCorrect(f) ==
    PatchPresent(f) /\ (mode = "fixture" => Green(Applied(f.run.solution)))

Passes(f) ==
    /\ f.written
    /\ f.task = task
    /\ WithinLimits(f)
    /\ IF mode = "mbpp" THEN MbppCorrect(f) ELSE PatchCorrect(f)

(* A solution that loops under the tests holds up cmd_validate_mbpp, which *)
(* sets no limit.                                                          *)
Stuck == phase = "validate" /\ file.written /\ file.run.solution.kind = "loops"

Correct(f) == IF mode = "mbpp" THEN MbppCorrect(f)
              ELSE PatchPresent(f) /\ Green(Applied(f.run.solution))

Validate ==
    /\ phase = "validate" /\ ~Stuck
    /\ passed' = IF Passes(file) THEN passed + 1 ELSE passed
    /\ good' = IF file.written /\ Correct(file) THEN good \cup {task} ELSE good
    /\ phase' = "remove"
    /\ UNCHANGED <<mode, task, open, testbed, late, attempt, key, run, file>>

(* The testbeds are deleted and the next task begins.                      *)
NextTask ==
    /\ phase = "remove"
    /\ task' = task + 1
    /\ phase' = "prepare"
    /\ UNCHANGED <<mode, passed, good, open, testbed, late, attempt, key, run, file>>

Over == phase = "prepare" /\ task > Tasks

ExamPassed == Over /\ passed >= Threshold

Next == Prepare \/ Connect \/ TimePasses \/ Check \/ RequestFails \/ Respond
          \/ UseTool \/ Executed \/ Finish \/ Validate \/ NextTask

Spec == Init /\ [][Next]_vars

(* The processes run, the provider answers or fails within its time limit, *)
(* and execute returns (Sandbox implements SandboxCall).                   *)
FairSpec ==
    /\ Spec
    /\ WF_vars(Prepare \/ Connect \/ Check \/ Finish \/ Validate \/ NextTask)
    /\ WF_vars(RequestFails \/ Respond) /\ WF_vars(Executed)

-----------------------------------------------------------------------------
(* Properties.                                                             *)

Roles == {"assistant", "user"}

(* Types, and the counters within what the limits leave possible: the      *)
(* totals are compared with their limits before a request only, so that the*)
(* last response may pass them, by no more than its own tokens             *)
(* (orchestrator.py 48-68).                                                *)
TypeOK ==
    /\ mode \in Modes /\ task \in 1..(Tasks + 1) /\ passed \in 0..Tasks
    /\ good \subseteq 1..Tasks
    /\ phase \in {"prepare", "connect", "check", "generate", "execute", "cleanup",
                  "validate", "remove"}
    /\ open \subseteq {"mcp", "sandbox", "provider", "container"}
    /\ late \in BOOLEAN /\ attempt \in 0..MaxRetries /\ key \in 0..(Keys - 1)
    /\ run.step \in 0..MaxIterations
    /\ run.in \in 0..(MaxTokensIn + MaxCost)
    /\ run.out \in 0..(MaxTokensOut + MaxCost)
    /\ run.steps \in 0..run.requests
    /\ run.msgs \in Seq(Roles)
    /\ file.written \in BOOLEAN

(* Every request carries a conversation that ends with an observation and  *)
(* alternates the two roles, one pair for every request answered so far:   *)
(* a response without code, a sandbox that was killed and an error are all *)
(* told to the model (orchestrator.py 69-115).                             *)
ConversationAlternates ==
    phase \in {"check", "generate"} =>
        /\ Len(run.msgs) = 2 * run.requests
        /\ run.steps = run.requests
        /\ \A i \in DOMAIN run.msgs :
              run.msgs[i] = IF i % 2 = 1 THEN "assistant" ELSE "user"

(* A solution file accounts for every request that was answered, and it    *)
(* claims either success or an error.                                      *)
FileIsConsistent ==
    phase = "validate" /\ file.written =>
        /\ file.run.steps = file.run.requests
        /\ file.run.success # file.run.error
        /\ file.task = task

(* The books of a run are right at every request and in its file: counters *)
(* within their limits but for one response, a turn of the model for every *)
(* request, an observation for every turn.                                 *)
RunAccounted == TypeOK /\ ConversationAlternates /\ FileIsConsistent

(* Once the loop has begun, whatever ends it - answer, limit, provider,    *)
(* exception - the agent leaves nothing open, the container least of all   *)
(* (agent_swebench 152-159).                                               *)
CleanedUp == phase \in {"validate", "remove"} /\ run.step > 0 => open = {}

(* An exam is passed only with enough solutions that pass the tests when   *)
(* applied to an untouched testbed, whatever the agents saw in their own:  *)
(* except under docker, where the moulinette has no testbed to apply a     *)
(* patch to.                                                               *)
VerdictEarned == ExamPassed /\ mode # "docker" => Cardinality(good) >= Threshold

(* The exam comes to its end, unless a submitted function never returns.   *)
ExamEnds == <>Over \/ <>[]Stuck

=============================================================================

------------------------------ MODULE Sandbox ------------------------------
(***************************************************************************)
(* Agent Smith, student/sandbox/executor.py: a parent process that runs    *)
(* code of a language model in a persistent child process.  The two speak  *)
(* over one duplex pipe.  execute() sends EXEC, serves the tool calls of   *)
(* the code (through mcp_client.py, synchronously) and returns on DONE; it *)
(* kills and replaces the child when its deadline passes.  The child has   *)
(* an alarm of its own, delivered between any two steps of the user code.  *)
(*                                                                         *)
(* The user code is arbitrary: it may call tools and final_answer, return, *)
(* raise, exit, loop, and catch any Exception - the timeout and the final  *)
(* answer signal are Exceptions too.                                       *)
(***************************************************************************)
EXTENDS Naturals, Sequences

CONSTANTS Calls,     \* bound: calls of execute in a session
          ToolCalls  \* bound: tool calls (and swallowed final answers) of one code

ASSUME SandboxAssumption == Calls \in Nat /\ ToolCalls \in Nat

VARIABLES
    ppc,      \* parent: idle, top (of its loop), poll, tool (in call_tool_sync), closed
    call,     \* the execute call under way, or the last one
    expired,  \* the deadline of that call has passed
    serving,  \* the tool call the parent is serving
    results,  \* what execute returned, call by call
    down, up, \* the pipe, to the child and to the parent
    cpc,      \* child: recv (its loop), user (code), wait (in a tool wrapper), leave, dead
    code,     \* the call whose code the child runs
    armed,    \* SIGALRM is still to come
    end,      \* how the code ended
    used,     \* tool calls and swallowed answers of this code
    ns,       \* the calls whose code ran in this child's namespace
    got       \* the last tool result a wrapper received: <<asked by, answered for>>

parent == <<ppc, call, expired, serving, results>>
child  == <<cpc, code, armed, end, used, ns, got>>
sessionVars == <<parent, down, up, child>>

Msg(k, c, n) == [kind |-> k, call |-> c, no |-> n, end |-> "none"]

Running == cpc \in {"user", "wait", "leave"}
NoCall  == <<0, 0>>

SessionInit ==
    /\ ppc = "idle" /\ call = 0 /\ expired = FALSE /\ serving = NoCall /\ results = << >>
    /\ down = << >> /\ up = << >>
    /\ cpc = "recv" /\ code = 0 /\ armed = FALSE /\ end = "ok" /\ used = 0 /\ ns = {}
    /\ got = <<NoCall, NoCall>>

-----------------------------------------------------------------------------
(* The child process.                                                      *)

(* Its loop takes a message: code starts under a new alarm, anything that  *)
(* is neither EXEC nor SHUTDOWN is dropped.                                *)
ChildRecv ==
    /\ cpc = "recv" /\ down # << >>
    /\ down' = Tail(down)
    /\ IF Head(down).kind = "EXEC"
         THEN /\ cpc' = "user" /\ code' = Head(down).call
              /\ armed' = TRUE /\ used' = 0 /\ end' = "ok"
              /\ ns' = ns \cup {Head(down).call}
         ELSE UNCHANGED <<cpc, code, armed, end, used, ns>>
    /\ UNCHANGED <<parent, up, got>>

(* The wrapper of a tool: the call is sent, the code waits for any answer. *)
ToolCall ==
    /\ cpc = "user" /\ used < ToolCalls
    /\ used' = used + 1
    /\ up' = Append(up, Msg("TOOL_CALL", code, used + 1))
    /\ cpc' = "wait"
    /\ UNCHANGED <<parent, down, code, armed, end, ns, got>>

ToolReturns ==
    /\ cpc = "wait" /\ down # << >>
    /\ down' = Tail(down)
    /\ got' = <<<<code, used>>, <<Head(down).call, Head(down).no>>>>
    /\ cpc' = "user"
    /\ UNCHANGED <<parent, up, code, armed, end, used, ns>>

(* final_answer tells the parent and raises a signal that the code can     *)
(* catch.                                                                  *)
FinalAnswer ==
    /\ cpc = "user" /\ used < ToolCalls
    /\ up' = Append(up, Msg("FINAL_ANSWER", code, 0))
    /\ used' = used + 1
    /\ \/ cpc' = "leave" /\ end' = "final"
       \/ UNCHANGED <<cpc, end>>
    /\ UNCHANGED <<parent, down, code, armed, ns, got>>

(* The code returns or raises.                                             *)
CodeEnds ==
    /\ cpc = "user"
    /\ \E e \in {"ok", "error"} : end' = e
    /\ cpc' = "leave"
    /\ UNCHANGED <<parent, down, up, code, armed, used, ns, got>>

Dies == cpc' = "dead" /\ armed' = FALSE /\ ns' = {}

(* SystemExit and KeyboardInterrupt pass through; the memory limit or the  *)
(* system may end the process as well.                                     *)
CodeExits ==
    /\ cpc = "user"
    /\ Dies
    /\ UNCHANGED <<parent, down, up, code, end, used, got>>

(* SIGALRM raises SandboxTimeout where the child is: in the code, which    *)
(* may catch it and go on without a further alarm; or after the code, where*)
(* nothing catches it any more once the except clauses are reached.        *)
Alarm ==
    /\ armed /\ Running
    /\ \/ /\ cpc # "leave" /\ cpc' = "user" /\ armed' = FALSE /\ UNCHANGED <<end, ns>>
       \/ /\ cpc # "leave" \/ end = "ok"
          /\ cpc' = "leave" /\ end' = "timeout" /\ armed' = FALSE /\ UNCHANGED ns
       \/ /\ cpc = "leave" /\ Dies /\ UNCHANGED end
    /\ UNCHANGED <<parent, down, up, code, used, got>>

SendDone ==
    /\ cpc = "leave"
    /\ armed' = FALSE
    /\ up' = Append(up, [kind |-> "DONE", call |-> code, no |-> 0, end |-> end])
    /\ cpc' = "recv"
    /\ UNCHANGED <<parent, down, code, end, used, ns, got>>

-----------------------------------------------------------------------------
(* The parent: SandboxExecutor.                                            *)

(* _start: a fresh pipe and a fresh child, which has said READY.           *)
Start_KeepsChild(toChild) ==    \* the old process goes on, on the new pipe
    /\ down' = toChild /\ up' = << >>
    /\ UNCHANGED <<cpc, armed, ns>>
Start(toChild) ==
    /\ down' = toChild /\ up' = << >>
    /\ cpc' = "recv" /\ armed' = FALSE /\ ns' = {}

Exec(n) == Msg("EXEC", n, 0)

Execute ==
    /\ ppc = "idle" /\ call < Calls
    /\ call' = call + 1
    /\ expired' = FALSE
    /\ ppc' = "top"
    /\ IF cpc = "dead" THEN Start(<<Exec(call + 1)>>)
       ELSE /\ down' = Append(down, Exec(call + 1))
            /\ UNCHANGED <<up, cpc, armed, ns>>
    /\ UNCHANGED <<serving, results, code, end, used, got>>

Return(kind, n, e) ==
    /\ results' = Append(results, [kind |-> kind, call |-> n, end |-> e])
    /\ ppc' = "idle"

(* No time remains at the top of the loop, or poll has waited it out: the  *)
(* child is terminated, then killed, and replaced.                         *)
OutOfTime_InPollOnly == expired /\ ppc = "poll" /\ up = << >> /\ cpc = "recv"
OutOfTime == expired /\ (ppc = "top" \/ (ppc = "poll" /\ up = << >> /\ cpc # "dead"))

GiveUp ==
    /\ OutOfTime
    /\ Start(<< >>)
    /\ Return("killed", call, "none")
    /\ UNCHANGED <<call, expired, serving, code, end, used, got>>

Poll ==
    /\ ppc = "top" /\ ~expired
    /\ ppc' = "poll"
    /\ UNCHANGED <<call, expired, serving, results, down, up, child>>

(* An echo of the final answer: the loop goes on to DONE.                  *)
Echo_Returns == Return("done", call, "final")
Echo == ppc' = "top" /\ UNCHANGED results

(* recv and the dispatch on the kind of the message.                       *)
Receive ==
    /\ ppc = "poll" /\ up # << >>
    /\ up' = Tail(up)
    /\ LET m == Head(up) IN
         \/ /\ m.kind = "TOOL_CALL"
            /\ ppc' = "tool" /\ serving' = <<m.call, m.no>> /\ UNCHANGED results
         \/ /\ m.kind = "FINAL_ANSWER"
            /\ Echo /\ UNCHANGED serving
         \/ /\ m.kind = "DONE"
            /\ Return("done", m.call, m.end) /\ UNCHANGED serving
    /\ UNCHANGED <<call, expired, down, child>>

(* The child died: poll reports the end of the pipe, recv raises EOFError, *)
(* which execute does not catch.                                           *)
ReceiveEOF ==
    /\ ppc = "poll" /\ up = << >> /\ cpc = "dead"
    /\ Return("raised", call, "none")
    /\ UNCHANGED <<call, expired, serving, down, up, child>>

(* call_tool_sync blocks until the server answers, with a result or an     *)
(* error.  Sending it to a child that died meanwhile raises, and the       *)
(* except clause that sends the error raises again.                        *)
ServeTool ==
    /\ ppc = "tool"
    /\ IF cpc = "dead" THEN Return("raised", call, "none") /\ UNCHANGED down
       ELSE /\ \E k \in {"TOOL_RESULT", "TOOL_ERROR"} :
                 down' = Append(down, Msg(k, serving[1], serving[2]))
            /\ ppc' = "top" /\ UNCHANGED results
    /\ UNCHANGED <<call, expired, serving, up, child>>

DeadlinePasses ==
    /\ ppc \in {"top", "poll", "tool"} /\ ~expired
    /\ expired' = TRUE
    /\ UNCHANGED <<ppc, call, serving, results, down, up, child>>

(* shutdown: SHUTDOWN, then terminate, then kill; the loop of the child    *)
(* leaves on the message.  No call follows (the mains, cli.py).            *)
Shutdown ==
    /\ ppc = "idle"
    /\ ppc' = "closed"
    /\ Dies
    /\ UNCHANGED <<call, expired, serving, results, down, up, code, end, used, got>>

Parent == Execute \/ GiveUp \/ Poll \/ Receive \/ ReceiveEOF \/ ServeTool
Child  == ChildRecv \/ ToolCall \/ ToolReturns \/ FinalAnswer \/ CodeEnds \/ CodeExits
            \/ Alarm \/ SendDone
SessionNext == Parent \/ Child \/ DeadlinePasses \/ Shutdown

Session == SessionInit /\ [][SessionNext]_sessionVars

(* The parent is a running process, clocks advance and the tools of both   *)
(* servers answer (run_tests and run_command have time limits, the others  *)
(* only read and write files).  Nothing is assumed of the child.           *)
Returning == GiveUp \/ Poll \/ Receive \/ ReceiveEOF
FairSession ==
    Session /\ WF_sessionVars(Returning) /\ WF_sessionVars(ServeTool)
            /\ WF_sessionVars(DeadlinePasses)

-----------------------------------------------------------------------------
(* Properties.                                                             *)

Kinds == {"EXEC", "TOOL_CALL", "TOOL_RESULT", "TOOL_ERROR", "FINAL_ANSWER", "DONE"}

Ends == {"ok", "error", "final", "timeout"}

Message == [kind : Kinds, call : Nat, no : Nat, end : Ends \cup {"none"}]

(* Types of the state of both processes and of the pipe.                   *)
SessionTypes ==
    /\ ppc \in {"idle", "top", "poll", "tool", "closed"}
    /\ call \in Nat /\ expired \in BOOLEAN /\ serving \in Nat \X Nat
    /\ results \in Seq([kind : {"done", "killed", "raised"}, call : Nat,
                        end : Ends \cup {"none"}])
    /\ down \in Seq(Message) /\ up \in Seq(Message)
    /\ cpc \in {"recv", "user", "wait", "leave", "dead"}
    /\ code \in Nat /\ armed \in BOOLEAN /\ end \in Ends /\ used \in Nat
    /\ ns \subseteq Nat
    /\ got \in (Nat \X Nat) \X (Nat \X Nat)

(* The result of the n-th call of execute is about the n-th code: an       *)
(* answer that crosses with the deadline, or is left in the pipe by a child*)
(* that was killed, is never returned for a later call (executor.py        *)
(* 300-336, the pipe replaced in _start).                                  *)
ResultIsOwn == \A n \in 1..Len(results) : results[n].call = n

(* Between two calls nothing is under way: no message waits for the parent,*)
(* no code waits for the child and none runs, so that the next call starts *)
(* from the loop of the child (a dead child is replaced with its pipe).    *)
QuietBetweenCalls ==
    ppc = "idle" /\ cpc # "dead" =>
        /\ up = << >>
        /\ ~Running
        /\ \A i \in 1..Len(down) : down[i].kind # "EXEC"

(* "Variables persist across .execute() calls" (executor.py 245): between  *)
(* calls the namespace holds what every earlier code did, back to the last *)
(* call that was answered by a kill or by an exception.  Nothing is lost   *)
(* without the caller being told.                                          *)
NamespaceReported ==
    ppc = "idle" =>
        ns = {n \in 1..call : \A k \in n..call : results[k].kind = "done"}

(* A tool result reaches only the code that asked for a tool: one that     *)
(* comes too late for its code is dropped by the loop of the child         *)
(* (executor.py 193) and is not read by the wrappers of the next code.     *)
ToolAnswersOwnCode == got[1][1] = got[2][1]

(* What one code leaves to the next: its variables, unless its caller was  *)
(* told that they are lost, and nothing that was meant for itself.         *)
SessionKept == NamespaceReported /\ ToolAnswersOwnCode

(* The session implements SandboxCall: one answer per call, and every call *)
(* is answered whatever the code does - loops, exits, swallows the timeout *)
(* or never stops calling tools.                                           *)
Abstract == INSTANCE SandboxCall WITH asked <- call, answers <- results

ImplementsSandboxCall == Abstract!Spec

=============================================================================

-------------------------- MODULE AgentSmithProofs --------------------------
(***************************************************************************)
(* Agent Smith: first the session of its sandbox, then the exam around it, *)
(* two specifications that share no variable.                              *)
(*                                                                         *)
(* A session of the sandbox, whatever the code does and however long the   *)
(* session is: no answer is about another call's code, and the safety part *)
(* of SandboxCall is implemented.  The argument is about what may be under *)
(* way at the same time: an EXEC in the pipe excludes running code and     *)
(* messages to the parent, running code excludes a DONE in the pipe, a     *)
(* DONE is the last message, and all of them exclude an idle parent.       *)
(*                                                                         *)
(* The exam, for any number of tasks, iterations, retries and tokens: the  *)
(* books of a run are right, the agent cleans up, and an exam is passed    *)
(* with correct solutions only.  Books follows the counters of a run from  *)
(* one request to the next; Resources says when nothing is open; Marks     *)
(* says that the solutions counted are correct ones of different tasks.    *)
(***************************************************************************)
EXTENDS Sandbox, AgentExam, FiniteSetTheorems, TLAPS

Busy == ppc \in {"top", "poll", "tool"}

(* One call at a time, and its answers in order.                           *)
Counted ==
    /\ call = IF Busy THEN Len(results) + 1 ELSE Len(results)
    /\ ResultIsOwn

(* An EXEC waits for the child: nothing else is under way.                 *)
ExecAlone ==
    \A i \in 1..Len(down) : down[i].kind = "EXEC" =>
        /\ Busy /\ ppc # "tool"
        /\ i = Len(down) /\ down[i].call = call
        /\ up = << >> /\ cpc = "recv"

(* The code that runs, and the messages of a living child, are those of    *)
(* the call under way.                                                     *)
RunsCall == Running => Busy /\ code = call

UpOwn ==
    /\ up # << >> /\ cpc # "dead" => Busy
    /\ Busy => \A i \in 1..Len(up) : up[i].call = call

(* DONE is the last word of a code.                                        *)
DoneLast ==
    \A i \in 1..Len(up) : up[i].kind = "DONE" =>
        /\ up[i].end \in Ends
        /\ Busy => i = Len(up) /\ ~Running

SInv == SessionTypes /\ Counted /\ ExecAlone /\ RunsCall /\ UpOwn /\ DoneLast

-----------------------------------------------------------------------------

LEMMA SInvInit == SessionInit => SInv
<1> SUFFICES ASSUME SessionInit PROVE SInv
  OBVIOUS
<1>1. SessionTypes
  <2>1. down \in Seq(Message) /\ up \in Seq(Message)
    BY DEF SessionInit
  <2>2. got \in (Nat \X Nat) \X (Nat \X Nat) /\ serving \in Nat \X Nat
    BY DEF SessionInit, NoCall
  <2>3. results \in Seq([kind : {"done", "killed", "raised"}, call : Nat, end : Ends \cup {"none"}])
    BY DEF SessionInit
  <2>4. /\ ppc = "idle" /\ call = 0 /\ expired = FALSE /\ cpc = "recv" /\ code = 0 /\ armed = FALSE
        /\ end \in Ends /\ used = 0 /\ ns = {}
    BY DEF SessionInit, Ends
  <2> QED
    BY <2>1, <2>2, <2>3, <2>4 DEF SessionTypes
<1>2. down = << >> /\ up = << >> /\ ~Running /\ ~Busy
  BY DEF SessionInit, Running, Busy
<1>3. Counted
  BY <1>2 DEF SessionInit, Counted, ResultIsOwn
<1> QED
  BY <1>1, <1>2, <1>3 DEF SInv, ExecAlone, RunsCall, UpOwn, DoneLast

LEMMA MsgTyped ==
    /\ \A k \in Kinds, c \in Nat, n \in Nat : Msg(k, c, n) \in Message
    /\ \A c \in Nat, e \in Ends : [kind |-> "DONE", call |-> c, no |-> 0, end |-> e] \in Message
    /\ \A m \in Message : m.kind \in Kinds /\ m.call \in Nat /\ m.no \in Nat
                         /\ m.end \in Ends \cup {"none"}
  BY DEF Msg, Message, Kinds

LEMMA PipeTyped ==
    SessionTypes =>
              /\ down \in Seq(Message) /\ up \in Seq(Message)
              /\ \A s \in Seq(Message), m \in Message : Append(s, m) \in Seq(Message)
              /\ \A m \in Message : <<m>> \in Seq(Message)
              /\ << >> \in Seq(Message)
<1>1. \A s \in Seq(Message), m \in Message : Append(s, m) \in Seq(Message)
  OBVIOUS
<1>2. \A m \in Message : <<m>> \in Seq(Message)
  OBVIOUS
<1>3. << >> \in Seq(Message)
  OBVIOUS
<1> QED
  BY <1>1, <1>2, <1>3 DEF SessionTypes

(* The child: it touches nothing of the parent's, and only messages of the *)
(* call under way enter the pipe.                                          *)
LEMMA ChildTyped == SessionTypes /\ Child => SessionTypes'
<1> SUFFICES ASSUME SessionTypes, Child PROVE SessionTypes'
  OBVIOUS
<1>1. UNCHANGED <<ppc, call, expired, serving, results>>
  BY DEF Child, ChildRecv, ToolCall, ToolReturns, FinalAnswer, CodeEnds, CodeExits, Alarm, SendDone,
         parent
<1>2. down' \in Seq(Message)
  <2>1. UNCHANGED down \/ (down # << >> /\ down' = Tail(down))
    BY DEF Child, ChildRecv, ToolCall, ToolReturns, FinalAnswer, CodeEnds, CodeExits, Alarm, SendDone
  <2> QED
    BY <2>1, PipeTyped
<1>3. up' \in Seq(Message)
  <2>1. UNCHANGED up \/ \E m \in Message : up' = Append(up, m)
    <3>1. CASE ToolCall
      <4>1. Msg("TOOL_CALL", code, used + 1) \in Message
        BY MsgTyped DEF SessionTypes, Kinds
      <4> QED
        BY <3>1, <4>1 DEF ToolCall
    <3>2. CASE FinalAnswer
      <4>1. Msg("FINAL_ANSWER", code, 0) \in Message
        BY MsgTyped DEF SessionTypes, Kinds
      <4> QED
        BY <3>2, <4>1 DEF FinalAnswer
    <3>3. CASE SendDone
      BY <3>3, MsgTyped DEF SendDone, SessionTypes
    <3> QED
      BY <3>1, <3>2, <3>3 DEF Child, ChildRecv, ToolReturns, CodeEnds, CodeExits, Alarm
  <2> QED
    BY <2>1, PipeTyped
<1>4. down # << >> => Head(down).call \in Nat /\ Head(down).no \in Nat
  BY MsgTyped DEF SessionTypes
<1>5. cpc' \in {"recv", "user", "wait", "leave", "dead"} /\ end' \in Ends /\ armed' \in BOOLEAN
  BY DEF Child, ChildRecv, ToolCall, ToolReturns, FinalAnswer, CodeEnds, CodeExits, Alarm, SendDone,
         SessionTypes, Dies, Ends
<1>6. code' \in Nat /\ used' \in Nat /\ ns' \subseteq Nat
  <2>1. code \in Nat /\ used \in Nat /\ ns \subseteq Nat
    BY DEF SessionTypes
  <2>2. CASE ChildRecv
    <3>1. \/ UNCHANGED <<code, used, ns>>
          \/ /\ code' = Head(down).call /\ used' = 0
             /\ ns' = ns \cup {Head(down).call}
      BY <2>2 DEF ChildRecv
    <3>2. down # << >>
      BY <2>2 DEF ChildRecv
    <3>3. code' \in Nat /\ used' \in Nat
      BY <1>4, <2>1, <3>1, <3>2
    <3>4. ns' \subseteq Nat
      <4>1. ns' = ns \/ \E c \in Nat : ns' = ns \cup {c}
        BY <1>4, <3>1, <3>2
      <4> QED
        BY <2>1, <4>1
    <3> QED
      BY <3>3, <3>4
  <2>3. CASE UNCHANGED code /\ (UNCHANGED used \/ used' = used + 1) /\ (UNCHANGED ns \/ ns' = {})
    <3>1. code' \in Nat /\ used' \in Nat
      BY <2>1, <2>3
    <3>2. ns' \subseteq Nat
      BY <2>1, <2>3
    <3> QED
      BY <3>1, <3>2
  <2> QED
    BY <2>2, <2>3 DEF Child, ToolCall, ToolReturns, FinalAnswer, CodeEnds, CodeExits, Alarm, SendDone,
                      Dies
<1>7. got' \in (Nat \X Nat) \X (Nat \X Nat)
  <2>1. CASE ToolReturns
    BY <1>4, <2>1 DEF ToolReturns, SessionTypes
  <2>2. CASE UNCHANGED got
    BY <2>2 DEF SessionTypes
  <2> QED
    BY <2>1, <2>2 DEF Child, ChildRecv, ToolCall, FinalAnswer, CodeEnds, CodeExits, Alarm, SendDone
<1> QED
  BY <1>1, <1>2, <1>3, <1>5, <1>6, <1>7 DEF SessionTypes

LEMMA ChildKeeps == SInv /\ Child => SInv'
<1> SUFFICES ASSUME SInv, Child PROVE SInv'
  OBVIOUS
<1>1. SessionTypes'
  BY ChildTyped DEF SInv
<1>2. UNCHANGED <<ppc, call, results>>
  BY DEF Child, ChildRecv, ToolCall, ToolReturns, FinalAnswer, CodeEnds, CodeExits, Alarm, SendDone,
         parent
<1>3. Counted'
  BY <1>2 DEF SInv, Counted, Busy, ResultIsOwn
<1>4. CASE ChildRecv
  <2>1. UNCHANGED up /\ down' = Tail(down) /\ down \in Seq(Message) /\ down # << >> /\ cpc = "recv"
    BY <1>4 DEF ChildRecv, SInv, SessionTypes
  <2>2. /\ Len(down') + 1 = Len(down) /\ Head(down) = down[1] /\ 1 \in 1..Len(down)
        /\ \A i \in 1..Len(down') : i + 1 \in 1..Len(down) /\ down'[i] = down[i + 1]
    BY <2>1
  <2>3. CASE Head(down).kind = "EXEC"
    <3>1. /\ Busy /\ ppc # "tool" /\ Len(down) = 1 /\ down[1].call = call /\ up = << >>
      BY <2>2, <2>3 DEF SInv, ExecAlone
    <3>2. cpc' = "user" /\ code' = call
      BY <1>4, <2>2, <2>3, <3>1 DEF ChildRecv
    <3> QED
      BY <1>1, <1>2, <1>3, <2>1, <2>2, <3>1, <3>2
         DEF SInv, ExecAlone, RunsCall, UpOwn, DoneLast, Busy, Running
  <2>4. CASE Head(down).kind # "EXEC"
    <3>1. UNCHANGED <<cpc, code>>
      BY <1>4, <2>4 DEF ChildRecv
    <3>2. ExecAlone'
      <4> SUFFICES ASSUME NEW i \in 1..Len(down'), down'[i].kind = "EXEC"
                   PROVE  (/\ Busy /\ ppc # "tool"
                           /\ i = Len(down) /\ down[i].call = call
                           /\ up = << >> /\ cpc = "recv")'
        BY DEF ExecAlone
      <4>1. i + 1 \in 1..Len(down) /\ down[i + 1] = down'[i]
        BY <2>2
      <4>2. /\ Busy /\ ppc # "tool" /\ i + 1 = Len(down) /\ down[i + 1].call = call
            /\ up = << >> /\ cpc = "recv"
        BY <4>1 DEF SInv, ExecAlone
      <4>3. i = Len(down')
        <5>1. Len(down') \in Nat
          BY <2>1
        <5> QED
          BY <2>2, <4>2, <5>1
      <4> QED
        BY <1>2, <2>1, <3>1, <4>1, <4>2, <4>3 DEF Busy
    <3> QED
      BY <1>1, <1>2, <1>3, <2>1, <3>1, <3>2 DEF SInv, RunsCall, UpOwn, DoneLast, Busy, Running
  <2> QED
    BY <2>3, <2>4
<1>5. ASSUME Running, UNCHANGED code,
             UNCHANGED down \/ (down # << >> /\ down' = Tail(down)),
             \/ UNCHANGED up /\ (Running' \/ cpc' = "dead")
             \/ \E m : up' = Append(up, m) /\ m.call = code
                       /\ \/ m.kind # "DONE" /\ Running'
                          \/ m.kind = "DONE" /\ m.end \in Ends /\ cpc' = "recv"
      PROVE  SInv'
  <2>1. Busy /\ code = call /\ Busy'
    BY <1>2, <1>5 DEF SInv, RunsCall, Busy
  <2>2. \A i \in 1..Len(down) : down[i].kind # "EXEC"
    BY <1>5 DEF SInv, ExecAlone, Running
  <2>3. \A i \in 1..Len(down') : down'[i].kind # "EXEC"
    <3>1. down \in Seq(Message)
      BY PipeTyped DEF SInv
    <3>2. down # << >> =>
             Len(Tail(down)) + 1 = Len(down)
             /\ \A i \in 1..Len(Tail(down)) : i + 1 \in 1..Len(down) /\ Tail(down)[i] = down[i + 1]
      BY <3>1
    <3> QED
      BY <1>5, <2>2, <3>1, <3>2
  <2>4. \A i \in 1..Len(up) : up[i].kind # "DONE" /\ up[i].call = call
    BY <1>5, <2>1 DEF SInv, UpOwn, DoneLast
  <2>5. CASE UNCHANGED up /\ (Running' \/ cpc' = "dead")
    BY <1>1, <1>2, <1>3, <1>5, <2>1, <2>3, <2>4, <2>5
       DEF SInv, ExecAlone, RunsCall, UpOwn, DoneLast, Running
  <2>6. ASSUME NEW m, up' = Append(up, m), m.call = code,
               \/ m.kind # "DONE" /\ Running'
               \/ m.kind = "DONE" /\ m.end \in Ends /\ cpc' = "recv"
        PROVE  SInv'
    <3>1. /\ Len(up') = Len(up) + 1 /\ up'[Len(up')] = m
          /\ \A i \in 1..Len(up') : i # Len(up') => i \in 1..Len(up) /\ up'[i] = up[i]
      <4>1. up \in Seq(Message)
        BY PipeTyped DEF SInv
      <4> QED
        BY <2>6, <4>1
    <3>2. UpOwn'
      BY <1>2, <2>1, <2>4, <2>6, <3>1 DEF UpOwn
    <3>3. DoneLast'
      BY <2>4, <2>6, <3>1 DEF DoneLast, Running
    <3>4. ExecAlone' /\ RunsCall'
      BY <1>2, <1>5, <2>1, <2>3 DEF ExecAlone, RunsCall
    <3> QED
      BY <1>1, <1>3, <3>2, <3>3, <3>4 DEF SInv
  <2> QED
    BY <1>5, <2>5, <2>6
<1>6. CASE ToolCall \/ FinalAnswer \/ SendDone
  <2>1. Running /\ UNCHANGED <<code, down>>
    BY <1>6 DEF ToolCall, FinalAnswer, SendDone, Running
  <2>2. \E m : up' = Append(up, m) /\ m.call = code
                /\ \/ m.kind # "DONE" /\ Running'
                   \/ m.kind = "DONE" /\ m.end \in Ends /\ cpc' = "recv"
    <3>1. CASE ToolCall
      BY <3>1 DEF ToolCall, Msg, Running
    <3>2. CASE FinalAnswer
      BY <3>2 DEF FinalAnswer, Msg, Running
    <3>3. CASE SendDone
      <4>1. \E m : up' = Append(up, m) /\ m.call = code /\ m.kind = "DONE" /\ m.end = end
        BY <3>3 DEF SendDone
      <4>2. end \in Ends
        BY DEF SInv, SessionTypes
      <4>3. cpc' = "recv"
        BY <3>3 DEF SendDone
      <4> QED
        BY <4>1, <4>2, <4>3
    <3> QED
      BY <1>6, <3>1, <3>2, <3>3
  <2> QED
    BY <1>5, <2>1, <2>2
<1>7. CASE ToolReturns \/ CodeEnds \/ CodeExits \/ Alarm
  <2>1. /\ Running /\ UNCHANGED <<code, up>> /\ (Running' \/ cpc' = "dead")
        /\ UNCHANGED down \/ (down # << >> /\ down' = Tail(down))
    BY <1>7 DEF ToolReturns, CodeEnds, CodeExits, Alarm, Dies, Running
  <2> QED
    BY <1>5, <2>1
<1> QED
  BY <1>4, <1>6, <1>7 DEF Child

(* The parent.                                                             *)
LEMMA ParentTyped == SessionTypes /\ (Parent \/ DeadlinePasses \/ Shutdown) => SessionTypes'
<1> SUFFICES ASSUME SessionTypes, Parent \/ DeadlinePasses \/ Shutdown PROVE SessionTypes'
  OBVIOUS
<1> DEFINE Rest == /\ cpc' \in {"recv", "user", "wait", "leave", "dead"} /\ armed' \in BOOLEAN
                   /\ ns' \subseteq Nat /\ UNCHANGED <<code, end, used, got>>
<1>1. ASSUME NEW m \in Message
      PROVE  m.kind \in Kinds /\ m.call \in Nat /\ m.no \in Nat /\ m.end \in Ends \cup {"none"}
  BY MsgTyped
<1>2. Rest
  <2>1. /\ UNCHANGED <<code, end, used, got>>
        /\ \/ UNCHANGED <<cpc, armed, ns>>
           \/ cpc' \in {"recv", "dead"} /\ armed' = FALSE /\ ns' = {}
    BY DEF Parent, Execute, GiveUp, Poll, Receive, ReceiveEOF, ServeTool, DeadlinePasses, Shutdown,
           Start, Dies, child
  <2> QED
    BY <2>1 DEF SessionTypes
<1>3. ppc' \in {"idle", "top", "poll", "tool", "closed"} /\ call' \in Nat /\ expired' \in BOOLEAN
  <2>1. /\ ppc' \in {ppc, "idle", "top", "poll", "tool", "closed"} /\ call' \in {call, call + 1}
        /\ expired' \in {expired, TRUE, FALSE}
    BY DEF Parent, Execute, GiveUp, Poll, Receive, ReceiveEOF, ServeTool, DeadlinePasses, Shutdown,
           Return, Echo
  <2>2. expired' \in BOOLEAN
    BY <2>1, Zenon DEF SessionTypes
  <2> QED
    BY <2>1, <2>2 DEF SessionTypes
<1>4. up # << >> => Head(up) \in Message /\ Tail(up) \in Seq(Message)
  BY DEF SessionTypes
<1>5. serving' \in Nat \X Nat
  <2>1. CASE Receive
    <3>1. Head(up).call \in Nat /\ Head(up).no \in Nat
      BY <1>1, <1>4, <2>1 DEF Receive
    <3>2. UNCHANGED serving \/ serving' = <<Head(up).call, Head(up).no>>
      BY <2>1 DEF Receive
    <3> QED
      BY <3>1, <3>2 DEF SessionTypes
  <2>2. CASE UNCHANGED serving
    BY <2>2 DEF SessionTypes
  <2> QED
    BY <2>1, <2>2 DEF Parent, Execute, GiveUp, Poll, ReceiveEOF, ServeTool, DeadlinePasses, Shutdown
<1>6. up' \in Seq(Message)
  <2>1. up' \in {up, << >>} \/ (up # << >> /\ up' = Tail(up))
    BY DEF Parent, Execute, GiveUp, Poll, Receive, ReceiveEOF, ServeTool, DeadlinePasses, Shutdown,
           Start
  <2> QED
    BY <1>4, <2>1, PipeTyped
<1>7. down' \in Seq(Message)
  <2>1. CASE Execute
    <3>1. Exec(call + 1) \in Message
      <4>1. call + 1 \in Nat /\ "EXEC" \in Kinds /\ 0 \in Nat
        BY DEF SessionTypes, Kinds
      <4> QED
        BY <4>1, MsgTyped DEF Exec
    <3>2. down' \in {<<Exec(call + 1)>>, Append(down, Exec(call + 1))}
      BY <2>1 DEF Execute, Start
    <3> HIDE DEF Exec
    <3> QED
      BY <3>1, <3>2, PipeTyped
  <2>2. CASE ServeTool
    <3>1. \A k \in {"TOOL_RESULT", "TOOL_ERROR"} : Msg(k, serving[1], serving[2]) \in Message
      BY MsgTyped DEF SessionTypes, Kinds
    <3>2. UNCHANGED down \/ \E m \in Message : down' = Append(down, m)
      BY <2>2, <3>1 DEF ServeTool
    <3> QED
      BY <3>2, PipeTyped
  <2>3. CASE UNCHANGED down \/ down' = << >>
    BY <2>3, PipeTyped
  <2> QED
    BY <2>1, <2>2, <2>3 DEF Parent, GiveUp, Poll, Receive, ReceiveEOF, DeadlinePasses, Shutdown, Start
<1>8. results' \in Seq([kind : {"done", "killed", "raised"}, call : Nat, end : Ends \cup {"none"}])
  <2>1. \/ UNCHANGED results
        \/ \E k \in {"killed", "raised"} : Return(k, call, "none")
        \/ up # << >> /\ Return("done", Head(up).call, Head(up).end)
    BY DEF Parent, Execute, GiveUp, Poll, Receive, ReceiveEOF, ServeTool, DeadlinePasses, Shutdown, Echo
  <2>2. ASSUME NEW k \in {"done", "killed", "raised"}, NEW c \in Nat, NEW e \in Ends \cup {"none"},
               Return(k, c, e)
        PROVE  results' \in Seq([kind : {"done", "killed", "raised"}, call : Nat,
                                 end : Ends \cup {"none"}])
    BY <2>2 DEF Return, SessionTypes
  <2>3. call \in Nat /\ "none" \in Ends \cup {"none"}
    BY DEF SessionTypes
  <2>4. CASE UNCHANGED results
    BY <2>4 DEF SessionTypes
  <2>5. CASE up # << >> /\ Return("done", Head(up).call, Head(up).end)
    BY <1>1, <1>4, <2>2, <2>5
  <2>6. CASE \E k \in {"killed", "raised"} : Return(k, call, "none")
    BY <2>2, <2>3, <2>6
  <2> QED
    BY <2>1, <2>4, <2>5, <2>6
<1> QED
  BY <1>2, <1>3, <1>5, <1>6, <1>7, <1>8 DEF SessionTypes

(* An answer about the call under way keeps the count.                     *)
LEMMA ReturnCounts ==
    ASSUME SessionTypes, Counted, Busy, UNCHANGED call, NEW k, NEW e, Return(k, call, e)
    PROVE  Counted' /\ ~Busy'
<1>1. ~Busy' /\ results' = Append(results, [kind |-> k, call |-> call, end |-> e])
  BY DEF Return, Busy
<1>2. Len(results') = Len(results) + 1 /\ call = Len(results')
  BY <1>1 DEF SessionTypes, Counted
<1>3. ResultIsOwn'
  <2> SUFFICES ASSUME NEW n \in 1..Len(results') PROVE results'[n].call = n
    BY DEF ResultIsOwn
  <2>1. CASE n = Len(results')
    BY <1>1, <1>2, <2>1 DEF SessionTypes
  <2>2. CASE n # Len(results')
    BY <1>1, <1>2, <2>2 DEF SessionTypes, Counted, ResultIsOwn
  <2> QED
    BY <2>1, <2>2
<1> QED
  BY <1>1, <1>2, <1>3 DEF Counted

LEMMA ParentKeeps == SInv /\ (Parent \/ DeadlinePasses \/ Shutdown) => SInv'
<1> SUFFICES ASSUME SInv, Parent \/ DeadlinePasses \/ Shutdown PROVE SInv'
  OBVIOUS
<1>1. SessionTypes'
  BY ParentTyped DEF SInv
<1>2. CASE Execute
  <2>1. ~Busy /\ Busy' /\ ppc' = "top" /\ call' = call + 1 /\ UNCHANGED <<results, code>>
    BY <1>2 DEF Execute, Busy
  <2>2. Counted'
    BY <2>1 DEF SInv, Counted, ResultIsOwn, SessionTypes
  <2>3. up' = << >> /\ cpc' = "recv"
    <3>1. CASE cpc = "dead"
      BY <1>2, <3>1 DEF Execute, Start
    <3>2. CASE cpc # "dead"
      BY <1>2, <2>1, <3>2 DEF Execute, SInv, UpOwn, RunsCall, Running, SessionTypes
    <3> QED
      BY <3>1, <3>2
  <2>4. \A i \in 1..Len(down') : down'[i].kind = "EXEC" => i = Len(down') /\ down'[i].call = call'
    <3>1. CASE cpc = "dead"
      <4>1. down' = <<Exec(call')>>
        BY <1>2, <2>1, <3>1 DEF Execute, Start
      <4>2. Exec(call').call = call'
        BY DEF Exec, Msg
      <4> QED
        BY <4>1, <4>2
    <3>2. CASE cpc # "dead"
      <4>1. down' = Append(down, Exec(call'))
        BY <1>2, <2>1, <3>2 DEF Execute
      <4>2. \A i \in 1..Len(down) : down[i].kind # "EXEC"
        BY <2>1 DEF SInv, ExecAlone
      <4>3. down \in Seq(Message)
        BY PipeTyped DEF SInv
      <4>4. /\ Len(down') = Len(down) + 1 /\ down'[Len(down')] = Exec(call')
            /\ \A i \in 1..Len(down') : i # Len(down') => i \in 1..Len(down) /\ down'[i] = down[i]
        BY <4>1, <4>3
      <4>5. Exec(call').call = call'
        BY DEF Exec, Msg
      <4> QED
        BY <4>2, <4>4, <4>5
    <3> QED
      BY <3>1, <3>2
  <2> QED
    BY <1>1, <2>1, <2>2, <2>3, <2>4 DEF SInv, ExecAlone, RunsCall, UpOwn, DoneLast, Running
<1>3. CASE GiveUp
  <2>1. /\ Busy /\ UNCHANGED call /\ Return("killed", call, "none")
        /\ down' = << >> /\ up' = << >> /\ cpc' = "recv"
    BY <1>3 DEF GiveUp, OutOfTime, Start, Busy
  <2>2. Counted' /\ ~Busy'
    BY <2>1, ReturnCounts DEF SInv
  <2> QED
    BY <1>1, <2>1, <2>2 DEF SInv, ExecAlone, RunsCall, UpOwn, DoneLast, Running
<1>4. CASE Poll \/ DeadlinePasses
  <2>1. /\ Busy /\ Busy' /\ (ppc' = ppc \/ ppc' = "poll")
        /\ UNCHANGED <<call, results, down, up, cpc, code>>
    BY <1>4 DEF Poll, DeadlinePasses, Busy, child
  <2> QED
    BY <1>1, <2>1 DEF SInv, Counted, ResultIsOwn, ExecAlone, RunsCall, UpOwn, DoneLast, Running
<1>5. CASE Receive
  <2>1. Busy /\ up # << >> /\ up' = Tail(up) /\ UNCHANGED <<call, down, cpc, code>>
    BY <1>5 DEF Receive, Busy, child
  <2>2. /\ Len(up') + 1 = Len(up) /\ Head(up) = up[1] /\ 1 \in 1..Len(up)
        /\ \A i \in 1..Len(up') : i + 1 \in 1..Len(up) /\ up'[i] = up[i + 1]
    BY <2>1 DEF SInv, SessionTypes
  <2>3. \A i \in 1..Len(down) : down[i].kind # "EXEC"
    BY <2>1 DEF SInv, ExecAlone
  <2>4. CASE ppc' \in {"tool", "top"} /\ UNCHANGED results
    <3>1. Busy' /\ Counted'
      BY <2>1, <2>4 DEF SInv, Counted, ResultIsOwn, Busy
    <3>2. UpOwn' /\ DoneLast'
      <4>1. \A i \in 1..Len(up') : up'[i].call = call
        BY <2>1, <2>2 DEF SInv, UpOwn
      <4>2. \A i \in 1..Len(up') : up'[i].kind = "DONE" =>
              up'[i].end \in Ends /\ i + 1 = Len(up) /\ ~Running
        BY <2>1, <2>2 DEF SInv, DoneLast
      <4>3. UpOwn'
        BY <2>1, <3>1, <4>1 DEF UpOwn
      <4>4. \A i \in 1..Len(up') : i + 1 = Len(up) => i = Len(up')
        BY <2>2, PipeTyped DEF SInv
      <4> QED
        BY <2>1, <4>2, <4>3, <4>4 DEF DoneLast, Running
    <3> QED
      BY <1>1, <2>1, <2>3, <3>1, <3>2 DEF SInv, ExecAlone, RunsCall, Running
  <2>5. CASE Head(up).kind = "DONE" /\ Return("done", Head(up).call, Head(up).end)
    <3>1. Head(up).call = call /\ Len(up) = 1 /\ ~Running
      BY <2>1, <2>2, <2>5 DEF SInv, UpOwn, DoneLast
    <3>2. Counted' /\ ~Busy'
      BY <2>1, <2>5, <3>1, ReturnCounts DEF SInv
    <3>3. up' = << >>
      BY <2>1, <3>1, PipeTyped DEF SInv
    <3>4. ExecAlone' /\ RunsCall'
      BY <2>1, <2>3, <3>1 DEF ExecAlone, RunsCall, Running
    <3>5. UpOwn' /\ DoneLast'
      BY <3>2, <3>3 DEF UpOwn, DoneLast
    <3> QED
      BY <1>1, <3>2, <3>4, <3>5 DEF SInv
  <2> QED
    BY <1>5, <2>4, <2>5 DEF Receive, Echo
<1>6. CASE ReceiveEOF
  <2>1. /\ Busy /\ Return("raised", call, "none") /\ cpc = "dead" /\ up = << >>
        /\ UNCHANGED <<call, down, up, cpc, code>>
    BY <1>6 DEF ReceiveEOF, Busy, child
  <2>2. Counted' /\ ~Busy'
    BY <2>1, ReturnCounts DEF SInv
  <2> QED
    BY <1>1, <2>1, <2>2 DEF SInv, ExecAlone, RunsCall, UpOwn, DoneLast, Running
<1>7. CASE ServeTool
  <2>1. Busy /\ ppc = "tool" /\ UNCHANGED <<call, up, cpc, code>>
    BY <1>7 DEF ServeTool, Busy, child
  <2>2. \A i \in 1..Len(down) : down[i].kind # "EXEC"
    BY <2>1 DEF SInv, ExecAlone
  <2>3. CASE cpc = "dead"
    <3>1. Return("raised", call, "none") /\ UNCHANGED down
      BY <1>7, <2>3 DEF ServeTool
    <3>2. Counted' /\ ~Busy'
      BY <2>1, <3>1, ReturnCounts DEF SInv
    <3> QED
      BY <1>1, <2>1, <2>2, <2>3, <3>1, <3>2 DEF SInv, ExecAlone, RunsCall, UpOwn, DoneLast, Running
  <2>4. CASE cpc # "dead"
    <3>1. PICK k \in {"TOOL_RESULT", "TOOL_ERROR"} :
             down' = Append(down, Msg(k, serving[1], serving[2]))
      BY <1>7, <2>4 DEF ServeTool
    <3>2. ppc' = "top" /\ UNCHANGED results
      BY <1>7, <2>4 DEF ServeTool
    <3>3. \A i \in 1..Len(down') : down'[i].kind # "EXEC"
      <4>1. down \in Seq(Message)
        BY PipeTyped DEF SInv
      <4>2. \A i \in 1..Len(down') : \/ i \in 1..Len(down) /\ down'[i] = down[i]
                                    \/ down'[i] = Msg(k, serving[1], serving[2])
        BY <3>1, <4>1
      <4>3. Msg(k, serving[1], serving[2]).kind # "EXEC"
        BY DEF Msg
      <4> QED
        BY <2>2, <4>2, <4>3
    <3>4. Busy' /\ Counted'
      BY <2>1, <3>2 DEF SInv, Counted, ResultIsOwn, Busy
    <3> QED
      BY <1>1, <2>1, <3>3, <3>4 DEF SInv, ExecAlone, RunsCall, UpOwn, DoneLast, Running
  <2> QED
    BY <2>3, <2>4
<1>8. CASE Shutdown
  <2>1. /\ ~Busy /\ ~Busy' /\ cpc' = "dead" /\ UNCHANGED <<call, results, down, up, code>>
    BY <1>8 DEF Shutdown, Dies, Busy
  <2> QED
    BY <1>1, <2>1 DEF SInv, Counted, ResultIsOwn, ExecAlone, RunsCall, UpOwn, DoneLast, Running
<1> QED
  BY <1>2, <1>3, <1>4, <1>5, <1>6, <1>7, <1>8 DEF Parent

LEMMA StepKeeps == SInv /\ [SessionNext]_sessionVars => SInv'
<1> SUFFICES ASSUME SInv, [SessionNext]_sessionVars PROVE SInv'
  OBVIOUS
<1>1. CASE UNCHANGED sessionVars
  BY <1>1 DEF sessionVars, parent, child, SInv, SessionTypes, Counted, ResultIsOwn, ExecAlone, RunsCall, UpOwn,
              DoneLast, Busy, Running
<1> QED
  BY <1>1, ChildKeeps, ParentKeeps DEF SessionNext

LEMMA SInvAlways == Session => []SInv
  BY SInvInit, StepKeeps, PTL DEF Session

-----------------------------------------------------------------------------
(* Every variable of both processes keeps its type, for every length of    *)
(* the session.                                                            *)
THEOREM TypesKept == Session => []SessionTypes
<1>1. SInv => SessionTypes
  BY DEF SInv
<1> QED
  BY <1>1, SInvAlways, PTL

(* No answer of a child that was given up, or of an earlier code, is ever  *)
(* returned for a later call (executor.py:300-336).                        *)
THEOREM AnswersOwn == Session => []ResultIsOwn
<1>1. SInv => ResultIsOwn
  BY DEF SInv, Counted
<1> QED
  BY <1>1, SInvAlways, PTL

(* The next call finds the child in its loop and the pipe without a word   *)
(* of an earlier one (executor.py:193, 330).                               *)
THEOREM NothingLeftOver == Session => []QuietBetweenCalls
<1>1. SInv => QuietBetweenCalls
  BY DEF SInv, QuietBetweenCalls, UpOwn, RunsCall, ExecAlone, Busy
<1> QED
  BY <1>1, SInvAlways, PTL

-----------------------------------------------------------------------------
(* What one code leaves to the next.  The calls answered DONE since the    *)
(* last kill or exception are those the caller takes to be in the          *)
(* namespace; a call under way adds its own as soon as its EXEC is read.   *)
Trusted  == {n \in 1..Len(results) : \A k \in n..Len(results) : results[k].kind = "done"}
ExecWaits == \E i \in 1..Len(down) : down[i].kind = "EXEC"
DoneWaits == \E i \in 1..Len(up) : up[i].kind = "DONE"

Namespace ==
    /\ cpc = "dead" => ns = {}
    /\ ppc = "idle" => ns = Trusted
    /\ Busy /\ cpc # "dead" => ns = IF ExecWaits THEN Trusted ELSE Trusted \cup {call}
    /\ Busy /\ cpc = "dead" => ~DoneWaits

(* What waits for a running code, and what is being served, is its own.    *)
OwnTools ==
    /\ ToolAnswersOwnCode
    /\ ppc = "tool" => serving[1] = call
    /\ Running => \A i \in 1..Len(down) : down[i].call = code

KInv == Namespace /\ OwnTools

LEMMA KInvInit == SessionInit => KInv
<1> SUFFICES ASSUME SessionInit PROVE KInv
  OBVIOUS
<1>1. results = << >> /\ down = << >> /\ ns = {} /\ cpc = "recv" /\ ppc = "idle"
  BY DEF SessionInit
<1>2. Trusted = {}
  BY <1>1 DEF Trusted
<1>3. ToolAnswersOwnCode
  BY DEF SessionInit, NoCall, ToolAnswersOwnCode
<1> QED
  BY <1>1, <1>2, <1>3 DEF KInv, Namespace, OwnTools, Busy, Running

(* One more answer: DONE adds the call, anything else forgets all of them. *)
LEMMA TrustedReturns ==
    ASSUME SessionTypes, Counted, Busy, NEW k, NEW c, NEW e, Return(k, c, e)
    PROVE  Trusted' = IF k = "done" THEN Trusted \cup {call} ELSE {}
<1> DEFINE r == [kind |-> k, call |-> c, end |-> e]
<1>1. results' = Append(results, r) /\ r.kind = k
  BY DEF Return
<1>2. /\ Len(results) \in Nat /\ Len(results') = Len(results) + 1 /\ call = Len(results')
      /\ results'[Len(results')] = r
      /\ \A i \in 1..Len(results) : results'[i] = results[i]
  BY <1>1 DEF SessionTypes, Counted
<1> HIDE DEF r
<1>3. CASE k = "done"
  <2>1. ASSUME NEW n \in 1..Len(results)
        PROVE  (\A i \in n..Len(results') : results'[i].kind = "done")
                 <=> (\A i \in n..Len(results) : results[i].kind = "done")
    <3>1. \A i \in n..Len(results') : i = Len(results') \/ i \in n..Len(results)
      BY <1>2
    <3>2. \A i \in n..Len(results) : i \in n..Len(results') /\ i \in 1..Len(results)
      BY <1>2
    <3> QED
      BY <1>1, <1>2, <1>3, <3>1, <3>2
  <2>2. \A i \in call..Len(results') : results'[i].kind = "done"
    BY <1>1, <1>2, <1>3
  <2>3. 1..Len(results') = 1..Len(results) \cup {call}
    BY <1>2
  <2> QED
    BY <1>3, <2>1, <2>2, <2>3 DEF Trusted
<1>4. CASE k # "done"
  <2>1. \A n \in 1..Len(results') : Len(results') \in n..Len(results')
    BY <1>2
  <2> QED
    BY <1>1, <1>2, <1>4, <2>1 DEF Trusted
<1> QED
  BY <1>3, <1>4

LEMMA TrustedSame == UNCHANGED results => Trusted' = Trusted
  BY DEF Trusted

(* The child reads an EXEC, an answer, or drops what comes too late.       *)
LEMMA ChildKeepsOwn == SInv /\ KInv /\ Child => KInv'
<1> SUFFICES ASSUME SInv, KInv, Child PROVE KInv'
  OBVIOUS
<1>1. UNCHANGED <<ppc, call, serving, results>> /\ Busy' = Busy /\ Trusted' = Trusted
  BY TrustedSame DEF Child, ChildRecv, ToolCall, ToolReturns, FinalAnswer, CodeEnds, CodeExits, Alarm,
         SendDone, parent, Busy
<1>2. CASE ChildRecv
  <2>1. /\ cpc = "recv" /\ down # << >> /\ down' = Tail(down) /\ UNCHANGED <<up, got>>
        /\ 1 \in 1..Len(down) /\ Head(down) = down[1]
        /\ Len(down') + 1 = Len(down)
        /\ \A i \in 1..Len(down') : i + 1 \in 1..Len(down) /\ down'[i] = down[i + 1]
    BY <1>2, PipeTyped DEF ChildRecv, SInv
  <2>2. CASE Head(down).kind = "EXEC"
    <3>1. Len(down) = 1 /\ Head(down).call = call /\ Busy
      BY <2>1, <2>2 DEF SInv, ExecAlone
    <3>2. down' = << >> /\ cpc' = "user" /\ ns' = ns \cup {call}
      BY <1>2, <2>1, <2>2, <3>1, PipeTyped DEF ChildRecv, SInv
    <3>3. ns = Trusted
      BY <2>1, <2>2, <3>1 DEF KInv, Namespace, ExecWaits
    <3> QED
      BY <1>1, <2>1, <3>1, <3>2, <3>3
      DEF KInv, Namespace, OwnTools, ToolAnswersOwnCode, ExecWaits, Busy, Running
  <2>3. CASE Head(down).kind # "EXEC"
    <3>1. UNCHANGED <<cpc, code, ns>>
      BY <1>2, <2>3 DEF ChildRecv
    <3>2. ExecWaits' = ExecWaits
      <4>1. ASSUME NEW i \in 1..Len(down), down[i].kind = "EXEC" PROVE ExecWaits'
        <5>1. i # 1 /\ i - 1 \in 1..Len(down')
          BY <2>1, <2>3, <4>1, PipeTyped DEF SInv
        <5>2. down'[i - 1] = down[i]
          BY <2>1, <5>1
        <5> QED
          BY <4>1, <5>1, <5>2 DEF ExecWaits
      <4> QED
        BY <2>1, <4>1 DEF ExecWaits
    <3> QED
      BY <1>1, <2>1, <3>1, <3>2
      DEF KInv, Namespace, OwnTools, ToolAnswersOwnCode, DoneWaits, Running
  <2> QED
    BY <2>2, <2>3
<1>3. CASE ToolReturns
  <2>1. /\ cpc = "wait" /\ down # << >> /\ down' = Tail(down) /\ cpc' = "user"
        /\ UNCHANGED <<up, code, ns>>
        /\ 1 \in 1..Len(down) /\ Head(down) = down[1]
        /\ \A i \in 1..Len(down') : i + 1 \in 1..Len(down) /\ down'[i] = down[i + 1]
    BY <1>3, PipeTyped DEF ToolReturns, SInv
  <2>2. Running /\ Busy /\ ~ExecWaits
    BY <2>1 DEF Running, ExecWaits, SInv, ExecAlone, RunsCall
  <2>3. ~ExecWaits'
    BY <2>1, <2>2 DEF ExecWaits
  <2>4. got' = <<<<code, used>>, <<Head(down).call, Head(down).no>>>> /\ Head(down).call = code
    BY <1>3, <2>1, <2>2 DEF ToolReturns, KInv, OwnTools
  <2>5. ToolAnswersOwnCode'
    BY <2>4 DEF ToolAnswersOwnCode
  <2>6. Namespace'
    BY <1>1, <2>1, <2>2, <2>3 DEF KInv, Namespace, Busy
  <2> QED
    BY <1>1, <2>1, <2>2, <2>5, <2>6 DEF KInv, OwnTools
<1>4. CASE ToolCall \/ FinalAnswer \/ CodeEnds
  <2>1. Running /\ Running' /\ cpc' # "dead" /\ UNCHANGED <<down, code, ns, got>>
    BY <1>4 DEF ToolCall, FinalAnswer, CodeEnds, Running
  <2>2. cpc # "dead"
    BY <2>1 DEF Running
  <2> QED
    BY <1>1, <2>1, <2>2
    DEF KInv, Namespace, OwnTools, ToolAnswersOwnCode, ExecWaits, DoneWaits, SInv, RunsCall, Busy
<1>5. CASE CodeExits \/ Alarm
  <2>1. /\ Running /\ UNCHANGED <<down, up, code, got>>
        /\ \/ Running' /\ UNCHANGED ns
           \/ cpc' = "dead" /\ ns' = {}
    BY <1>5 DEF CodeExits, Alarm, Dies, Running
  <2>2. cpc # "dead" /\ Busy /\ ~DoneWaits /\ ppc # "idle"
    BY <2>1 DEF Running, SInv, RunsCall, DoneLast, DoneWaits, Busy
  <2>3. (cpc' # "dead" => Running' /\ UNCHANGED ns) /\ (cpc' = "dead" => ~Running' /\ ns' = {})
    BY <2>1 DEF Running
  <2>4. ~DoneWaits' /\ ExecWaits' = ExecWaits
    BY <2>1, <2>2 DEF DoneWaits, ExecWaits
  <2> QED
    BY <1>1, <2>1, <2>2, <2>3, <2>4 DEF KInv, Namespace, OwnTools, ToolAnswersOwnCode
<1>6. CASE SendDone
  <2>1. Running /\ cpc # "dead" /\ cpc' = "recv" /\ ~Running' /\ UNCHANGED <<down, code, ns, got>>
    BY <1>6 DEF SendDone, Running
  <2> QED
    BY <1>1, <2>1
    DEF KInv, Namespace, OwnTools, ToolAnswersOwnCode, ExecWaits, SInv, RunsCall, Busy
<1> QED
  BY <1>2, <1>3, <1>4, <1>5, <1>6 DEF Child

LEMMA ParentKeepsOwn == SInv /\ KInv /\ (Parent \/ DeadlinePasses \/ Shutdown) => KInv'
<1> SUFFICES ASSUME SInv, KInv, Parent \/ DeadlinePasses \/ Shutdown PROVE KInv'
  OBVIOUS
<1>1. CASE Execute
  <2>1. /\ ppc = "idle" /\ ~Busy /\ ppc' = "top" /\ Busy' /\ UNCHANGED <<results, code, got>>
        /\ Trusted' = Trusted
    BY <1>1, TrustedSame DEF Execute, Busy
  <2>2. /\ cpc' = "recv" /\ ns' = ns
    <3>1. CASE cpc = "dead"
      BY <1>1, <3>1 DEF Execute, Start, KInv, Namespace
    <3>2. CASE cpc # "dead"
      BY <1>1, <2>1, <3>2 DEF Execute, SInv, RunsCall, Running, SessionTypes
    <3> QED
      BY <3>1, <3>2
  <2>3. ExecWaits'
    <3>1. Exec(call + 1).kind = "EXEC"
      BY DEF Exec, Msg
    <3>2. Len(down') \in 1..Len(down') /\ down'[Len(down')] = Exec(call + 1)
      <4>1. CASE cpc = "dead"
        <5>1. down' = <<Exec(call + 1)>>
          BY <1>1, <4>1 DEF Execute, Start
        <5> QED
          BY <5>1
      <4>2. CASE cpc # "dead"
        <5>1. down' = Append(down, Exec(call + 1)) /\ down \in Seq(Message)
          BY <1>1, <4>2, PipeTyped DEF Execute, SInv
        <5> QED
          BY <5>1
      <4> QED
        BY <4>1, <4>2
    <3> QED
      BY <3>1, <3>2 DEF ExecWaits
  <2> QED
    BY <2>1, <2>2, <2>3 DEF KInv, Namespace, OwnTools, ToolAnswersOwnCode, Running
<1>2. CASE GiveUp
  <2>1. /\ Busy /\ Return("killed", call, "none") /\ ppc' = "idle" /\ cpc' = "recv" /\ ns' = {}
        /\ UNCHANGED <<code, got>>
    BY <1>2 DEF GiveUp, OutOfTime, Start, Busy, Return
  <2>2. Trusted' = {}
    BY <2>1, TrustedReturns DEF SInv
  <2> QED
    BY <2>1, <2>2 DEF KInv, Namespace, OwnTools, ToolAnswersOwnCode, Running, Busy
<1>3. CASE Poll \/ DeadlinePasses
  <2>1. /\ Busy /\ Busy' /\ (ppc' = ppc \/ ppc' = "poll") /\ Trusted' = Trusted
        /\ UNCHANGED <<call, serving, down, up, cpc, code, ns, got>>
    BY <1>3, TrustedSame DEF Poll, DeadlinePasses, Busy, child
  <2>2. ppc # "idle" /\ ppc' # "idle"
    BY <2>1 DEF Busy
  <2> QED
    BY <2>1, <2>2
    DEF KInv, Namespace, OwnTools, ToolAnswersOwnCode, ExecWaits, DoneWaits, Running
<1>4. CASE Receive
  <2>1. /\ ppc = "poll" /\ Busy /\ up # << >> /\ up' = Tail(up)
        /\ UNCHANGED <<call, down, cpc, code, ns, got>>
        /\ 1 \in 1..Len(up) /\ Head(up) = up[1]
        /\ \A i \in 1..Len(up') : i + 1 \in 1..Len(up) /\ up'[i] = up[i + 1]
    BY <1>4, PipeTyped DEF Receive, Busy, child, SInv
  <2>2. ~ExecWaits /\ ~ExecWaits' /\ Head(up).call = call
    BY <2>1 DEF SInv, ExecAlone, UpOwn, ExecWaits
  <2>3. DoneWaits' => DoneWaits
    BY <2>1 DEF DoneWaits
  <2>4. CASE /\ UNCHANGED results /\ ppc' \in {"tool", "top"}
             /\ (ppc' = "tool" => serving'[1] = Head(up).call)
    <3>1. Busy' /\ Trusted' = Trusted /\ ppc' # "idle"
      BY <2>4, TrustedSame DEF Busy
    <3> QED
      BY <2>1, <2>2, <2>3, <2>4, <3>1 DEF KInv, Namespace, OwnTools, ToolAnswersOwnCode, Running
  <2>5. CASE Head(up).kind = "DONE" /\ Return("done", Head(up).call, Head(up).end)
    <3>1. ppc' = "idle" /\ ~Busy' /\ Trusted' = Trusted \cup {call}
      BY <2>1, <2>5, TrustedReturns DEF Return, Busy, SInv
    <3>2. cpc # "dead"
      BY <2>1, <2>5 DEF KInv, Namespace, DoneWaits
    <3>3. ns = Trusted \cup {call}
      BY <2>1, <2>2, <3>2 DEF KInv, Namespace
    <3> QED
      BY <2>1, <3>1, <3>2, <3>3 DEF KInv, Namespace, OwnTools, ToolAnswersOwnCode, Running
  <2> QED
    BY <1>4, <2>4, <2>5 DEF Receive, Echo
<1>5. ASSUME Busy, cpc = "dead", Return("raised", call, "none"), UNCHANGED <<down, cpc, code, ns, got>>
      PROVE  KInv'
  <2>1. ns = {} /\ ppc' = "idle" /\ ~Busy' /\ Trusted' = {}
    BY <1>5, TrustedReturns DEF Return, Busy, SInv, KInv, Namespace
  <2> QED
    BY <1>5, <2>1 DEF KInv, Namespace, OwnTools, ToolAnswersOwnCode, Running
<1>6. CASE ReceiveEOF
  BY <1>5, <1>6 DEF ReceiveEOF, Busy, child
<1>7. CASE ServeTool
  <2>1. ppc = "tool" /\ Busy /\ UNCHANGED <<call, up, cpc, code, ns, got>>
    BY <1>7 DEF ServeTool, Busy, child
  <2>2. CASE cpc = "dead"
    BY <1>5, <1>7, <2>1, <2>2 DEF ServeTool
  <2>3. CASE cpc # "dead"
    <3>1. PICK k \in {"TOOL_RESULT", "TOOL_ERROR"} :
             down' = Append(down, Msg(k, serving[1], serving[2]))
      BY <1>7, <2>3 DEF ServeTool
    <3>2. ppc' = "top" /\ Busy' /\ Trusted' = Trusted
      BY <1>7, <2>3, TrustedSame DEF ServeTool, Busy
    <3>3. /\ \A i \in 1..Len(down') : \/ i \in 1..Len(down) /\ down'[i] = down[i]
                                      \/ down'[i] = Msg(k, serving[1], serving[2])
          /\ \A i \in 1..Len(down) : i \in 1..Len(down') /\ down'[i] = down[i]
      BY <3>1, PipeTyped DEF SInv
    <3>4. Msg(k, serving[1], serving[2]).kind # "EXEC" /\ Msg(k, serving[1], serving[2]).call = call
      BY <2>1 DEF Msg, KInv, OwnTools
    <3>5. ExecWaits' = ExecWaits
      BY <3>3, <3>4 DEF ExecWaits
    <3>6. Namespace'
      BY <2>1, <2>3, <3>2, <3>5 DEF KInv, Namespace
    <3>7. Running' => \A i \in 1..Len(down') : down'[i].call = code'
      BY <2>1, <3>3, <3>4 DEF KInv, OwnTools, Running, SInv, RunsCall
    <3> QED
      BY <2>1, <3>2, <3>6, <3>7 DEF KInv, OwnTools, ToolAnswersOwnCode
  <2> QED
    BY <2>2, <2>3
<1>8. CASE Shutdown
  <2>1. ppc' = "closed" /\ ~Busy' /\ cpc' = "dead" /\ ~Running' /\ ns' = {} /\ UNCHANGED got
    BY <1>8 DEF Shutdown, Dies, Busy, Running
  <2> QED
    BY <2>1 DEF KInv, Namespace, OwnTools, ToolAnswersOwnCode
<1> QED
  BY <1>1, <1>2, <1>3, <1>4, <1>6, <1>7, <1>8 DEF Parent

LEMMA KInvAlways == Session => []KInv
<1>1. SInv /\ KInv /\ [SessionNext]_sessionVars => KInv'
  <2>1. CASE UNCHANGED sessionVars
    BY <2>1 DEF sessionVars, parent, child, KInv, Namespace, OwnTools, ToolAnswersOwnCode, Trusted,
                ExecWaits, DoneWaits, Busy, Running
  <2> QED
    BY <2>1, ChildKeepsOwn, ParentKeepsOwn DEF SessionNext
<1> QED
  BY <1>1, KInvInit, SInvAlways, PTL DEF Session

(* Between calls the variables of every call answered DONE since the last  *)
(* kill or exception are there, and no others; and no code ever reads the  *)
(* result of a tool that an earlier code called (executor.py:193, 245).    *)
THEOREM VariablesKept == Session => []SessionKept
<1>1. SInv /\ KInv => SessionKept
  <2> SUFFICES ASSUME SInv, KInv, ppc = "idle"
               PROVE  ns = {n \in 1..call : \A k \in n..call : results[k].kind = "done"}
    BY DEF SessionKept, NamespaceReported, KInv, OwnTools
  <2>1. call = Len(results)
    BY DEF SInv, Counted, Busy
  <2> QED
    BY <2>1 DEF KInv, Namespace, Trusted
<1> QED
  BY <1>1, SInvAlways, KInvAlways, PTL

-----------------------------------------------------------------------------
(* Only an answer to the call under way, and only a new call when none is, *)
(* change what the caller sees.                                            *)
LEMMA StepImplements == SInv /\ [SessionNext]_sessionVars => [Abstract!Next]_(Abstract!vars)
<1> SUFFICES ASSUME SInv, [SessionNext]_sessionVars PROVE [Abstract!Next]_(Abstract!vars)
  OBVIOUS
<1>1. ASSUME NEW k \in {"killed", "raised"}, Busy, UNCHANGED call, Return(k, call, "none")
      PROVE  Abstract!Answer
  <2>1. [kind |-> k, call |-> call, end |-> "none"] \in Abstract!Answers(call)
    BY DEF Abstract!Answers
  <2>2. call > Len(results)
    BY <1>1 DEF SInv, Counted, SessionTypes
  <2> QED
    BY <1>1, <2>1, <2>2 DEF Return, Abstract!Answer
<1>2. CASE Execute
  <2>1. /\ call = Len(results) /\ call < Calls /\ call' = call + 1 /\ UNCHANGED results
    BY <1>2 DEF Execute, SInv, Counted, Busy
  <2> QED
    BY <2>1 DEF Abstract!Ask, Abstract!Next
<1>3. CASE GiveUp
  BY <1>1, <1>3 DEF GiveUp, OutOfTime, Busy, Abstract!Next
<1>4. CASE Receive
  <2>1. Busy /\ UNCHANGED call /\ up # << >> /\ 1 \in 1..Len(up) /\ Head(up) = up[1]
    BY <1>4, PipeTyped DEF Receive, Busy, SInv
  <2>2. CASE Head(up).kind = "DONE" /\ Return("done", Head(up).call, Head(up).end)
    <3>1. Head(up).call = call /\ Head(up).end \in Ends
      BY <2>1, <2>2 DEF SInv, UpOwn, DoneLast
    <3>2. [kind |-> "done", call |-> call, end |-> Head(up).end] \in Abstract!Answers(call)
      BY <3>1 DEF Abstract!Answers, Abstract!Ends, Ends
    <3>3. call > Len(results)
      BY <2>1 DEF SInv, Counted, SessionTypes
    <3> QED
      BY <2>1, <2>2, <3>1, <3>2, <3>3 DEF Return, Abstract!Answer, Abstract!Next
  <2>3. CASE UNCHANGED results
    BY <2>1, <2>3 DEF Abstract!vars
  <2> QED
    BY <1>4, <2>2, <2>3 DEF Receive, Echo
<1>5. CASE ReceiveEOF
  BY <1>1, <1>5 DEF ReceiveEOF, Busy, Abstract!Next
<1>6. CASE ServeTool
  <2>1. CASE UNCHANGED results
    BY <1>6, <2>1 DEF ServeTool, Abstract!vars
  <2>2. CASE Return("raised", call, "none")
    BY <1>1, <1>6, <2>2 DEF ServeTool, Busy, Abstract!Next
  <2> QED
    BY <1>6, <2>1, <2>2 DEF ServeTool
<1>7. CASE Poll \/ DeadlinePasses \/ Shutdown \/ Child \/ UNCHANGED sessionVars
  <2>1. UNCHANGED <<call, results>>
    BY <1>7 DEF Poll, DeadlinePasses, Shutdown, Child, ChildRecv, ToolCall, ToolReturns, FinalAnswer,
                CodeEnds, CodeExits, Alarm, SendDone, parent, sessionVars
  <2> QED
    BY <2>1 DEF Abstract!vars
<1> QED
  BY <1>2, <1>3, <1>4, <1>5, <1>6, <1>7 DEF SessionNext, Parent

(* A session is, to its caller, the session of SandboxCall: calls one at a *)
(* time, one answer each, about the call itself.                           *)
THEOREM ImplementsSafely == Session => Abstract!Init /\ [][Abstract!Next]_(Abstract!vars)
<1>1. SessionInit => Abstract!Init
  BY DEF SessionInit, Abstract!Init
<1> QED
  BY <1>1, SInvAlways, StepImplements, PTL DEF Session

-----------------------------------------------------------------------------
(* The exam.                                                               *)

Solutions == [kind : {"text", "loops", "empty", "patch"}, lines : Seq(Lines)]

Conversations == Seq(Roles)
Steps     == 0..MaxIterations
TokensIn  == 0..(MaxTokensIn + MaxCost)
TokensOut == 0..(MaxTokensOut + MaxCost)

Runs == [step : Steps, in : TokensIn, out : TokensOut, requests : Nat, steps : Nat,
         msgs : Conversations,
         success : BOOLEAN, solution : Solutions, error : BOOLEAN, raised : BOOLEAN]

Files == [written : {TRUE}, task : Nat, run : Runs, late : BOOLEAN]

Testbeds == [lines : Seq(Lines), created : BOOLEAN]

(* The range of every variable, the locals of the agent included.          *)
Typed ==
    /\ mode \in Modes /\ task \in Nat /\ passed \in Nat /\ good \subseteq Nat
    /\ phase \in {"prepare", "connect", "check", "generate", "execute", "cleanup",
                  "validate", "remove"}
    /\ open \subseteq {"mcp", "sandbox", "provider", "container"}
    /\ testbed \in Testbeds
    /\ late \in BOOLEAN /\ attempt \in 0..MaxRetries /\ key \in 0..(Keys - 1)
    /\ run \in Runs
    /\ file = NoFile \/ file \in Files

(* A run that goes on has no result yet, and of its counters the tokens    *)
(* pass their limits only between a response and the next head of the loop.*)
Going ==
    /\ phase = "connect" => run = Fresh /\ file = NoFile
    /\ phase \in {"check", "generate", "execute"} => ~run.success /\ ~run.error /\ ~run.raised
    /\ phase = "generate" => run.in <= MaxTokensIn /\ run.out <= MaxTokensOut

(* What a conversation looks like: the roles alternate, the model first.   *)
Alternates(msgs) == \A i \in DOMAIN msgs : msgs[i] = IF i % 2 = 1 THEN "assistant" ELSE "user"

(* One observation for every answered request, but for the last one while  *)
(* its code runs or after an exception has passed through it.              *)
Balanced ==
    /\ Alternates(run.msgs)
    /\ phase \in {"check", "generate"} =>
          run.steps = run.requests /\ Len(run.msgs) = 2 * run.requests
    /\ phase = "execute" =>
          run.requests = run.steps + 1 /\ Len(run.msgs) = 2 * run.steps + 1

(* What main writes, if it writes: success or an error, fully accounted.   *)
Settled(r) == r.steps = r.requests /\ r.success # r.error

Closed ==
    /\ run.steps <= run.requests
    /\ phase = "cleanup" /\ ~run.raised => Settled(run)
    /\ phase = "validate" /\ file.written => Settled(file.run) /\ file.task = task

Books == Typed /\ Going /\ Balanced /\ Closed

(* Nothing is open once the run is over, unless it never began.            *)
Resources == phase \in {"validate", "remove"} /\ run.step > 0 => open = {}

(* The tasks already marked: up to the present one, which counts once its  *)
(* solution has been validated.                                            *)
Marked == IF phase = "remove" THEN task ELSE task - 1

Marks ==
    /\ task \in 1..(Tasks + 1)
    /\ phase # "prepare" => task <= Tasks
    /\ passed <= Marked
    /\ good \subseteq 1..Marked
    /\ mode # "docker" => passed <= Cardinality(good)

-----------------------------------------------------------------------------
(* Records, sequences and the two testbed operations.                      *)

LEMMA Limits ==
    /\ Tasks \in Nat /\ Threshold \in Nat /\ MaxIterations \in Nat
    /\ MaxTokensIn \in Nat /\ MaxTokensOut \in Nat /\ MaxRetries \in Nat
    /\ Keys \in Nat \ {0} /\ MaxCost \in Nat \ {0}
  BY AgentExamAssumption

LEMMA FreshTyped == Fresh \in Runs /\ ~Fresh.success /\ ~Fresh.error /\ ~Fresh.raised
<1>1. << >> \in Seq(Lines) /\ << >> \in Conversations
  BY DEF Conversations
<1>2. Answer("empty", << >>) \in Solutions
  BY <1>1 DEF Answer, Solutions
<1> QED
  BY <1>1, <1>2, Limits DEF Fresh, Runs, Steps, TokensIn, TokensOut

LEMMA OriginalTyped == Original \in Testbeds
<1>1. <<"bug", "ctx">> \in Seq(Lines)
  BY DEF Lines
<1> QED
  BY <1>1 DEF Original, Testbeds

LEMMA EditTyped ==
  ASSUME NEW tb \in Testbeds, NEW old \in Lines, NEW new \in Lines
  PROVE  EditFile(tb, old, new) \in Testbeds
<1> DEFINE at == {i \in DOMAIN tb.lines : tb.lines[i] = old}
           k == CHOOSE i \in at : TRUE
<1>1. CASE \E i \in at : at = {i}
  <2>1. k \in DOMAIN tb.lines
    BY <1>1
  <2>2. tb.lines \in Seq(Lines)
    BY DEF Testbeds
  <2>3. [tb.lines EXCEPT ![k] = new] \in Seq(Lines)
    BY <2>1, <2>2
  <2>4. [tb EXCEPT !.lines[k] = new] = [tb EXCEPT !.lines = [tb.lines EXCEPT ![k] = new]]
    BY DEF Testbeds
  <2>5. EditFile(tb, old, new) = [tb EXCEPT !.lines[k] = new]
    BY <1>1 DEF EditFile
  <2> HIDE DEF k
  <2> QED
    BY <2>3, <2>4, <2>5 DEF Testbeds
<1>2. CASE ~\E i \in at : at = {i}
  BY <1>2 DEF EditFile
<1> QED
  BY <1>1, <1>2

LEMMA SubmissionsTyped == Typed => Submissions \subseteq Solutions
<1> SUFFICES ASSUME Typed PROVE Submissions \subseteq Solutions
  OBVIOUS
<1>1. Repaired \in Seq(Lines) /\ << >> \in Seq(Lines)
  BY DEF Lines, Repaired
<1>2. testbed.lines \in Seq(Lines)
  BY DEF Typed, Testbeds
<1>3. \A k \in {"text", "loops", "empty", "patch"}, l \in Seq(Lines) : Answer(k, l) \in Solutions
  BY DEF Answer, Solutions
<1>4. GetPatch(testbed) \in Solutions
  BY <1>1, <1>2, <1>3 DEF GetPatch
<1> QED
  BY <1>1, <1>3, <1>4 DEF Submissions

(* A turn of the model and an observation, as parts of a conversation.     *)
LEMMA MsgsAppended ==
  ASSUME NEW msgs \in Conversations, Alternates(msgs), NEW n \in Nat
  PROVE  /\ Append(msgs, "assistant") \in Conversations
         /\ Append(msgs, "user") \in Conversations
         /\ Len(msgs) = 2 * n => Alternates(Append(msgs, "assistant"))
         /\ Len(msgs) = 2 * n + 1 => Alternates(Append(msgs, "user"))
<1> USE DEF Conversations
<1>1. "assistant" \in Roles /\ "user" \in Roles
  BY DEF Roles
<1>2. CASE Len(msgs) = 2 * n
  <2>1. (Len(msgs) + 1) % 2 = 1
    BY <1>2
  <2> QED
    BY <1>1, <1>2, <2>1 DEF Alternates
<1>3. CASE Len(msgs) = 2 * n + 1
  <2>1. (Len(msgs) + 1) % 2 = 0
    BY <1>3
  <2> QED
    BY <1>1, <1>3, <2>1 DEF Alternates
<1> QED
  BY <1>1, <1>2, <1>3

(* Records in which some fields were replaced: one field at a time.        *)
LEMMA RunUpdated ==
  ASSUME NEW r \in Runs
  PROVE  /\ \A n \in Steps : [r EXCEPT !.step = n] \in Runs
         /\ \A n \in TokensIn : [r EXCEPT !.in = n] \in Runs
         /\ \A n \in TokensOut : [r EXCEPT !.out = n] \in Runs
         /\ \A n \in Nat : [r EXCEPT !.requests = n] \in Runs
         /\ \A n \in Nat : [r EXCEPT !.steps = n] \in Runs
         /\ \A m \in Conversations : [r EXCEPT !.msgs = m] \in Runs
         /\ \A s \in Solutions : [r EXCEPT !.solution = s] \in Runs
         /\ [r EXCEPT !.success = TRUE] \in Runs
         /\ \A b \in BOOLEAN : [r EXCEPT !.error = b] \in Runs
         /\ [r EXCEPT !.raised = TRUE] \in Runs
<1>1. \A n \in Steps : [r EXCEPT !.step = n] \in Runs
  BY DEF Runs
<1>2. \A n \in TokensIn : [r EXCEPT !.in = n] \in Runs
  BY DEF Runs
<1>3. \A n \in TokensOut : [r EXCEPT !.out = n] \in Runs
  BY DEF Runs
<1>4. \A n \in Nat : [r EXCEPT !.requests = n] \in Runs
  BY DEF Runs
<1>5. \A n \in Nat : [r EXCEPT !.steps = n] \in Runs
  BY DEF Runs
<1>6. \A m \in Conversations : [r EXCEPT !.msgs = m] \in Runs
  BY DEF Runs
<1>7. \A s \in Solutions : [r EXCEPT !.solution = s] \in Runs
  BY DEF Runs
<1>8. [r EXCEPT !.success = TRUE] \in Runs
  BY DEF Runs
<1>9. \A b \in BOOLEAN : [r EXCEPT !.error = b] \in Runs
  BY DEF Runs
<1>10. [r EXCEPT !.raised = TRUE] \in Runs
  BY DEF Runs
<1> QED
  BY <1>1, <1>2, <1>3, <1>4, <1>5, <1>6, <1>7, <1>8, <1>9, <1>10

LEMMA RunFields ==
  ASSUME NEW r \in Runs
  PROVE  /\ r.step \in Steps /\ r.in \in TokensIn /\ r.out \in TokensOut
         /\ r.requests \in Nat /\ r.steps \in Nat /\ r.msgs \in Conversations
         /\ r.success \in BOOLEAN /\ r.error \in BOOLEAN /\ r.raised \in BOOLEAN
  BY DEF Runs

(* An answered request: one more turn of the model, and its tokens.        *)
LEMMA AnsweredIs ==
  ASSUME Books, phase = "generate", NEW i \in 1..MaxCost, NEW o \in 1..MaxCost
  PROVE  /\ Answered(i, o) \in Runs
         /\ Answered(i, o).requests = run.requests + 1 /\ Answered(i, o).steps = run.steps
         /\ Answered(i, o).msgs = Append(run.msgs, "assistant")
         /\ Answered(i, o).step = run.step
         /\ ~Answered(i, o).success /\ ~Answered(i, o).error /\ ~Answered(i, o).raised
<1> USE DEF Books
<1>1. run \in Runs /\ run.msgs \in Conversations /\ run.requests \in Nat
  BY RunFields DEF Typed
<1>2. run.in + i \in TokensIn /\ run.out + o \in TokensOut
  BY <1>1, RunFields, Limits DEF TokensIn, TokensOut, Going
<1>3. Append(run.msgs, "assistant") \in Conversations
  BY <1>1, MsgsAppended DEF Balanced, Conversations
<1> DEFINE r1 == [run EXCEPT !.requests = run.requests + 1]
           r2 == [r1 EXCEPT !.in = run.in + i]
           r3 == [r2 EXCEPT !.out = run.out + o]
           r4 == [r3 EXCEPT !.msgs = Append(run.msgs, "assistant")]
<1>4. r1 \in Runs
  <2>1. run.requests + 1 \in Nat
    BY <1>1
  <2> QED
    BY <1>1, <2>1, RunUpdated
<1>5. r2 \in Runs
  BY <1>2, <1>4, RunUpdated
<1>6. r3 \in Runs
  BY <1>2, <1>5, RunUpdated
<1>7. r4 \in Runs
  BY <1>3, <1>6, RunUpdated
<1>8. Answered(i, o) = r4
  BY <1>1 DEF Answered, Runs
<1>9. /\ r4.requests = run.requests + 1 /\ r4.steps = run.steps /\ r4.step = run.step
      /\ r4.msgs = Append(run.msgs, "assistant")
      /\ r4.success = run.success /\ r4.error = run.error /\ r4.raised = run.raised
  BY <1>1 DEF Runs
<1> HIDE DEF r4
<1> QED
  BY <1>7, <1>8, <1>9 DEF Going

(* An observation.                                                         *)
LEMMA ObservedIs ==
  ASSUME NEW r \in Runs, Append(r.msgs, "user") \in Conversations
  PROVE  /\ Observed(r) \in Runs
         /\ Observed(r).requests = r.requests /\ Observed(r).steps = r.steps + 1
         /\ Observed(r).msgs = Append(r.msgs, "user")
         /\ Observed(r).success = r.success /\ Observed(r).error = r.error
         /\ Observed(r).raised = r.raised
<1> DEFINE r1 == [r EXCEPT !.steps = r.steps + 1]
           r2 == [r1 EXCEPT !.msgs = Append(r.msgs, "user")]
<1>1. r1 \in Runs
  <2>1. r.steps + 1 \in Nat
    BY RunFields
  <2> QED
    BY <2>1, RunUpdated
<1>2. r2 \in Runs
  BY <1>1, RunUpdated
<1>3. Observed(r) = r2
  BY DEF Observed, Runs
<1>4. /\ r2.requests = r.requests /\ r2.steps = r.steps + 1 /\ r2.msgs = Append(r.msgs, "user")
      /\ r2.success = r.success /\ r2.error = r.error /\ r2.raised = r.raised
  BY DEF Runs
<1> HIDE DEF r2
<1> QED
  BY <1>2, <1>3, <1>4

(* An exception that passes through the run.                               *)
LEMMA RaisedIs ==
  ASSUME NEW r \in Runs
  PROVE  /\ [r EXCEPT !.raised = TRUE] \in Runs
         /\ [r EXCEPT !.raised = TRUE].raised
         /\ [r EXCEPT !.raised = TRUE].steps = r.steps
         /\ [r EXCEPT !.raised = TRUE].requests = r.requests
         /\ [r EXCEPT !.raised = TRUE].msgs = r.msgs
  BY RunUpdated, ZenonT(30) DEF Runs

(* A final answer.                                                         *)
Submitted(r, a) == [r EXCEPT !.steps = @ + 1, !.success = TRUE, !.solution = a]

LEMMA SubmittedIs ==
  ASSUME NEW r \in Runs, NEW a \in Solutions
  PROVE  /\ Submitted(r, a) \in Runs
         /\ Submitted(r, a).requests = r.requests /\ Submitted(r, a).steps = r.steps + 1
         /\ Submitted(r, a).msgs = r.msgs /\ Submitted(r, a).success
         /\ Submitted(r, a).error = r.error /\ Submitted(r, a).raised = r.raised
<1> DEFINE r1 == [r EXCEPT !.steps = r.steps + 1]
           r2 == [r1 EXCEPT !.success = TRUE]
           r3 == [r2 EXCEPT !.solution = a]
<1>1. r1 \in Runs
  <2>1. r.steps + 1 \in Nat
    BY RunFields
  <2> QED
    BY <2>1, RunUpdated
<1>2. r2 \in Runs
  BY <1>1, RunUpdated
<1>3. r3 \in Runs
  BY <1>2, RunUpdated
<1>4. Submitted(r, a) = r3
  BY DEF Submitted, Runs
<1>5. /\ r3.requests = r.requests /\ r3.steps = r.steps + 1 /\ r3.msgs = r.msgs /\ r3.success
      /\ r3.error = r.error /\ r3.raised = r.raised
  BY DEF Runs
<1> HIDE DEF r3
<1> QED
  BY <1>3, <1>4, <1>5

-----------------------------------------------------------------------------
(* The books.                                                              *)

LEMMA BooksInit == Init => Books
<1> SUFFICES ASSUME Init PROVE Books
  OBVIOUS
<1>1. Typed
  <2>1. 0 \in 0..MaxRetries /\ 0 \in 0..(Keys - 1)
    BY Limits
  <2> QED
    BY <2>1, FreshTyped, OriginalTyped DEF Init, Typed
<1>2. Alternates(<< >>)
  BY DEF Alternates
<1> QED
  BY <1>1, <1>2 DEF Init, Books, Going, Balanced, Closed, Fresh

(* The head of the loop: the run ends with an error or a request follows.  *)
LEMMA CheckedIs ==
  ASSUME Books, Check
  PROVE  /\ run' \in Runs
         /\ run'.requests = run.requests /\ run'.steps = run.steps /\ run'.msgs = run.msgs
         /\ run'.in = run.in /\ run'.out = run.out
         /\ run'.success = run.success /\ run'.raised = run.raised
         /\ run'.error <=> phase' = "cleanup"
         /\ phase' = "cleanup" \/ (phase' = "generate" /\ ~OverBudget)
<1> DEFINE exhausted == run.step = MaxIterations
           n == IF exhausted THEN run.step ELSE run.step + 1
           r1 == [run EXCEPT !.step = n]
           r2 == [r1 EXCEPT !.error = exhausted \/ OverBudget]
<1>1. run \in Runs
  BY DEF Books, Typed
<1>2. n \in Steps
  <2>1. run.step \in Steps
    BY <1>1, RunFields
  <2> QED
    BY <2>1, Limits DEF Steps
<1>3. r1 \in Runs
  BY <1>1, <1>2, RunUpdated
<1>4. (exhausted \/ OverBudget) \in BOOLEAN
  OBVIOUS
<1>5. r2 \in Runs
  BY <1>3, <1>4, RunUpdated
<1>6. run' = r2
  BY <1>1 DEF Check, Runs
<1>7. /\ r2.requests = run.requests /\ r2.steps = run.steps /\ r2.msgs = run.msgs
      /\ r2.in = run.in /\ r2.out = run.out
      /\ r2.success = run.success /\ r2.raised = run.raised
  BY <1>1 DEF Runs
<1>8. r2.error <=> (exhausted \/ OverBudget)
  BY <1>1 DEF Runs
<1>9. phase' = IF exhausted \/ OverBudget THEN "cleanup" ELSE "generate"
  BY DEF Check
<1>10. run'.error <=> phase' = "cleanup"
  BY <1>6, <1>8, <1>9
<1>11. phase' = "cleanup" \/ (phase' = "generate" /\ ~OverBudget)
  BY <1>9
<1> HIDE DEF r2
<1> QED
  BY <1>5, <1>6, <1>7, <1>10, <1>11

(* No more attempts.                                                       *)
LEMMA GivenUpIs ==
  ASSUME NEW r \in Runs
  PROVE  /\ [r EXCEPT !.error = TRUE] \in Runs
         /\ [r EXCEPT !.error = TRUE].error
         /\ [r EXCEPT !.error = TRUE].requests = r.requests
         /\ [r EXCEPT !.error = TRUE].steps = r.steps
         /\ [r EXCEPT !.error = TRUE].msgs = r.msgs
         /\ [r EXCEPT !.error = TRUE].success = r.success
         /\ [r EXCEPT !.error = TRUE].raised = r.raised
<1>1. [r EXCEPT !.error = TRUE] \in Runs
  BY RunUpdated
<1> QED
  BY <1>1 DEF Runs

LEMMA TypedStep ==
  ASSUME Books, [Next]_vars
  PROVE  Typed'
<1> USE DEF Books
<1>1. CASE Prepare
  <2>1. 0 \in 0..MaxRetries /\ 0 \in 0..(Keys - 1)
    BY Limits
  <2> QED
    BY <1>1, <2>1, FreshTyped, OriginalTyped DEF Prepare, Typed, exam
<1>2. CASE Connect
  BY <1>2 DEF Connect, Typed, exam, Opened, Container
<1>3. CASE TimePasses
  BY <1>3 DEF TimePasses, Typed, exam
<1>4. CASE Check
  <2>1. run' \in Runs
    BY <1>4, CheckedIs
  <2>2. 0 \in 0..MaxRetries
    BY Limits
  <2> QED
    BY <1>4, <2>1, <2>2 DEF Check, Typed, exam
<1>5. CASE RequestFails
  <2>1. run' \in Runs
    BY <1>5, RunUpdated DEF RequestFails, Typed
  <2>2. attempt' \in 0..MaxRetries
    BY <1>5, Limits DEF RequestFails, NextAttempt, Typed
  <2>3. key' \in 0..(Keys - 1)
    BY <1>5, Limits DEF RequestFails, Typed
  <2> QED
    BY <1>5, <2>1, <2>2, <2>3 DEF RequestFails, Typed, exam
<1>6. CASE Respond
  <2>1. key' \in 0..(Keys - 1)
    BY <1>6, Limits DEF Respond, Typed
  <2>2. run' \in Runs /\ phase' \in {"execute", "check", "cleanup"}
    <3>1. PICK i \in 1..MaxCost, o \in 1..MaxCost :
            \/ run' = Answered(i, o) /\ phase' = "execute"
            \/ run' = Observed(Answered(i, o)) /\ phase' = "check"
            \/ run' = [Answered(i, o) EXCEPT !.raised = TRUE] /\ phase' = "cleanup"
      BY <1>6 DEF Respond
    <3>2. Answered(i, o) \in Runs
      BY <1>6, AnsweredIs DEF Respond
    <3>3. Answered(i, o).msgs \in Conversations
      BY <3>2, RunFields
    <3>4. Append(Answered(i, o).msgs, "user") \in Conversations
      BY <3>3 DEF Conversations, Roles
    <3> QED
      BY <3>1, <3>2, <3>4, ObservedIs, RaisedIs
  <2> QED
    BY <1>6, <2>1, <2>2 DEF Respond, Typed, exam
<1>7. CASE UseTool
  <2>1. testbed' \in Testbeds
    <3>1. [testbed EXCEPT !.created = TRUE] \in Testbeds
      BY DEF Typed, Testbeds
    <3> QED
      BY <1>7, <3>1, EditTyped DEF UseTool, Typed
  <2> QED
    BY <1>7, <2>1 DEF UseTool, Typed, exam
<1>8. CASE Executed
  <2>1. run \in Runs
    BY DEF Typed
  <2>2. Append(run.msgs, "user") \in Conversations
    BY <2>1, RunFields DEF Conversations, Roles
  <2>3. run' \in Runs /\ phase' \in {"check", "cleanup"}
    BY <1>8, <2>1, <2>2, SubmissionsTyped, SubmittedIs, ObservedIs, RaisedIs, ZenonT(40) DEF Executed, Submitted
  <2> QED
    BY <1>8, <2>3 DEF Executed, Typed, exam
<1>9. CASE Finish
  BY <1>9 DEF Finish, Released, Typed, Files, exam
<1>10. CASE Validate
  BY <1>10 DEF Validate, Typed
<1>11. CASE NextTask
  BY <1>11 DEF NextTask, Typed
<1>12. CASE UNCHANGED vars
  BY <1>12 DEF vars, exam, Typed
<1> QED
  BY <1>1, <1>2, <1>3, <1>4, <1>5, <1>6, <1>7, <1>8, <1>9, <1>10, <1>11, <1>12 DEF Next

(* A response, its code to be executed or observed, or an exception.       *)
LEMMA RespondIs ==
  ASSUME Books, Respond
  PROVE  \E a \in Runs :
           /\ a.requests = run.requests + 1 /\ a.steps = run.steps
           /\ a.msgs = Append(run.msgs, "assistant")
           /\ ~a.success /\ ~a.error /\ ~a.raised
           /\ \/ run' = a /\ phase' = "execute"
              \/ run' = Observed(a) /\ phase' = "check"
              \/ run' = [a EXCEPT !.raised = TRUE] /\ phase' = "cleanup"
<1>1. PICK i \in 1..MaxCost, o \in 1..MaxCost :
        \/ run' = Answered(i, o) /\ phase' = "execute"
        \/ run' = Observed(Answered(i, o)) /\ phase' = "check"
        \/ run' = [Answered(i, o) EXCEPT !.raised = TRUE] /\ phase' = "cleanup"
  BY DEF Respond
<1> QED
  BY <1>1, AnsweredIs DEF Respond

LEMMA UserAppends == \A m \in Conversations : Append(m, "user") \in Conversations
  BY DEF Conversations, Roles

LEMMA GoingStep ==
  ASSUME Books, [Next]_vars
  PROVE  Going'
<1> USE DEF Books
<1>1. CASE Prepare
  BY <1>1 DEF Prepare, Going
<1>2. CASE Connect
  BY <1>2, FreshTyped DEF Connect, Going
<1>3. CASE Check
  <2>1. ~run.success /\ ~run.error /\ ~run.raised
    BY <1>3 DEF Check, Going
  <2>2. run.in \in TokensIn /\ run.out \in TokensOut
    BY RunFields DEF Typed
  <2> QED
    BY <1>3, <2>1, <2>2, CheckedIs, Limits DEF Going, OverBudget, TokensIn, TokensOut
<1>4. CASE RequestFails
  BY <1>4 DEF RequestFails, Going
<1>5. CASE Respond
  BY <1>5, RespondIs, RunFields, UserAppends, ObservedIs DEF Going
<1>6. CASE Executed
  BY <1>6, RunFields, UserAppends, ObservedIs, ZenonT(30) DEF Executed, Going, Typed
<1>7. CASE TimePasses \/ UseTool \/ UNCHANGED vars
  BY <1>7 DEF TimePasses, UseTool, vars, Going
<1>8. CASE Finish \/ Validate \/ NextTask
  BY <1>8 DEF Finish, Validate, NextTask, Going
<1> QED
  BY <1>1, <1>2, <1>3, <1>4, <1>5, <1>6, <1>7, <1>8 DEF Next

LEMMA BalancedStep ==
  ASSUME Books, [Next]_vars
  PROVE  Balanced'
<1> USE DEF Books
<1>1. run \in Runs /\ run.msgs \in Conversations /\ run.steps \in Nat /\ run.requests \in Nat
  BY RunFields DEF Typed
<1>2. CASE Prepare
  <2>1. Alternates(<< >>)
    BY DEF Alternates
  <2> QED
    BY <1>2, <2>1 DEF Prepare, Balanced, Fresh
<1>3. CASE Connect
  BY <1>3 DEF Connect, Balanced, Going, Fresh
<1>4. CASE Check
  BY <1>4, CheckedIs DEF Check, Balanced
<1>5. CASE RequestFails
  BY <1>1, <1>5, GivenUpIs DEF RequestFails, Balanced
<1>6. CASE Respond
  <2>1. PICK a \in Runs :
          /\ a.requests = run.requests + 1 /\ a.steps = run.steps
          /\ a.msgs = Append(run.msgs, "assistant")
          /\ \/ run' = a /\ phase' = "execute"
             \/ run' = Observed(a) /\ phase' = "check"
             \/ run' = [a EXCEPT !.raised = TRUE] /\ phase' = "cleanup"
    BY <1>6, RespondIs
  <2>2. run.steps = run.requests /\ Len(run.msgs) = 2 * run.requests
    BY <1>6 DEF Respond, Balanced
  <2>3. a.msgs \in Conversations /\ Alternates(a.msgs)
    BY <1>1, <2>1, <2>2, MsgsAppended DEF Balanced
  <2>4. Len(a.msgs) = 2 * run.requests + 1
    BY <1>1, <2>1, <2>2 DEF Conversations
  <2>5. /\ Append(a.msgs, "user") \in Conversations /\ Alternates(Append(a.msgs, "user"))
        /\ Len(Append(a.msgs, "user")) = 2 * (run.requests + 1)
    BY <1>1, <2>3, <2>4, MsgsAppended, SMTT(30) DEF Conversations
  <2>6. CASE run' = a /\ phase' = "execute"
    BY <1>1, <2>1, <2>2, <2>3, <2>4, <2>6 DEF Balanced
  <2>7. CASE run' = Observed(a) /\ phase' = "check"
    <3>1. /\ Observed(a).requests = run.requests + 1 /\ Observed(a).steps = run.requests + 1
          /\ Observed(a).msgs = Append(a.msgs, "user")
      <4>1. /\ Observed(a).requests = a.requests /\ Observed(a).steps = a.steps + 1
            /\ Observed(a).msgs = Append(a.msgs, "user")
        BY <2>5, ObservedIs
      <4> QED
        BY <2>1, <2>2, <4>1
    <3> QED
      BY <2>5, <2>7, <3>1 DEF Balanced
  <2>8. CASE run' = [a EXCEPT !.raised = TRUE] /\ phase' = "cleanup"
    BY <2>3, <2>8, RaisedIs DEF Balanced
  <2> QED
    BY <2>1, <2>6, <2>7, <2>8
<1>7. CASE Executed
  <2>1. run.requests = run.steps + 1 /\ Len(run.msgs) = 2 * run.steps + 1
    BY <1>7 DEF Executed, Balanced
  <2>2. /\ Append(run.msgs, "user") \in Conversations /\ Alternates(Append(run.msgs, "user"))
        /\ Len(Append(run.msgs, "user")) = 2 * run.requests
    BY <1>1, <2>1, MsgsAppended DEF Balanced, Conversations
  <2>3. CASE \E a \in Submissions : run' = Submitted(run, a) /\ phase' = "cleanup"
    BY <1>1, <2>3, SubmissionsTyped, SubmittedIs DEF Balanced
  <2>4. CASE run' = Observed(run) /\ phase' = "check"
    <3>1. /\ Observed(run).requests = run.requests /\ Observed(run).steps = run.requests
          /\ Observed(run).msgs = Append(run.msgs, "user")
      BY <1>1, <2>1, <2>2, ObservedIs
    <3> QED
      BY <2>2, <2>4, <3>1 DEF Balanced
  <2>5. CASE run' = [run EXCEPT !.raised = TRUE] /\ phase' = "cleanup"
    BY <1>1, <2>5, RaisedIs DEF Balanced
  <2> QED
    BY <1>7, <2>3, <2>4, <2>5 DEF Executed, Submitted
<1>8. CASE TimePasses \/ UseTool \/ UNCHANGED vars
  BY <1>8 DEF TimePasses, UseTool, vars, Balanced
<1>9. CASE Finish \/ Validate \/ NextTask
  BY <1>9 DEF Finish, Validate, NextTask, Balanced
<1> QED
  BY <1>2, <1>3, <1>4, <1>5, <1>6, <1>7, <1>8, <1>9 DEF Next

LEMMA ClosedStep ==
  ASSUME Books, [Next]_vars
  PROVE  Closed'
<1> USE DEF Books
<1>1. run \in Runs /\ run.msgs \in Conversations /\ run.steps \in Nat /\ run.requests \in Nat
  BY RunFields DEF Typed
<1>2. CASE Prepare
  BY <1>2 DEF Prepare, Closed, Fresh, NoFile
<1>3. CASE Connect
  BY <1>3 DEF Connect, Closed, Going, NoFile
<1>4. CASE Check
  <2>1. ~run.success /\ run.steps = run.requests
    BY <1>4 DEF Check, Balanced, Going
  <2> QED
    BY <1>1, <1>4, <2>1, CheckedIs DEF Check, Closed, Settled
<1>5. CASE RequestFails
  <2>1. ~run.success /\ run.steps = run.requests
    BY <1>5 DEF RequestFails, Balanced, Going
  <2> QED
    BY <1>1, <1>5, <2>1, GivenUpIs DEF RequestFails, Closed, Settled
<1>6. CASE Respond
  <2>1. PICK a \in Runs :
          /\ a.requests = run.requests + 1 /\ a.steps = run.steps
          /\ \/ run' = a /\ phase' = "execute"
             \/ run' = Observed(a) /\ phase' = "check"
             \/ run' = [a EXCEPT !.raised = TRUE] /\ phase' = "cleanup"
    BY <1>6, RespondIs
  <2>2. run.steps = run.requests
    BY <1>6 DEF Respond, Balanced
  <2>3. run'.requests = run.requests + 1 /\ run'.steps \in {run.requests, run.requests + 1}
    <3>1. a.msgs \in Conversations
      BY RunFields
    <3>2. /\ Observed(a).requests = a.requests /\ Observed(a).steps = a.steps + 1
          /\ [a EXCEPT !.raised = TRUE].requests = a.requests
          /\ [a EXCEPT !.raised = TRUE].steps = a.steps
      BY <3>1, UserAppends, ObservedIs, RaisedIs
    <3> QED
      BY <2>1, <2>2, <3>2
  <2>4. phase' = "cleanup" => run'.raised
    BY <2>1, RaisedIs
  <2>5. phase' # "validate"
    BY <2>1
  <2> QED
    BY <1>1, <2>3, <2>4, <2>5 DEF Closed
<1>7. CASE Executed
  <2>1. run.requests = run.steps + 1 /\ ~run.error
    BY <1>7 DEF Executed, Balanced, Going
  <2>2. CASE \E a \in Submissions : run' = Submitted(run, a) /\ phase' = "cleanup"
    BY <1>1, <2>1, <2>2, SubmissionsTyped, SubmittedIs DEF Closed, Settled
  <2>3. CASE run' = Observed(run) /\ phase' = "check"
    BY <1>1, <2>1, <2>3, UserAppends, ObservedIs DEF Closed
  <2>4. CASE run' = [run EXCEPT !.raised = TRUE] /\ phase' = "cleanup"
    BY <1>1, <2>1, <2>4, RaisedIs DEF Closed
  <2> QED
    BY <1>7, <2>2, <2>3, <2>4 DEF Executed, Submitted
<1>8. CASE Finish
  BY <1>8 DEF Finish, Closed, NoFile, exam
<1>9. CASE TimePasses \/ UseTool \/ UNCHANGED vars
  BY <1>9 DEF TimePasses, UseTool, vars, exam, Closed
<1>10. CASE Validate \/ NextTask
  BY <1>10 DEF Validate, NextTask, Closed
<1> QED
  BY <1>2, <1>3, <1>4, <1>5, <1>6, <1>7, <1>8, <1>9, <1>10 DEF Next

LEMMA BooksHold == Spec => []Books
<1>1. Books /\ [Next]_vars => Books'
  BY TypedStep, GoingStep, BalancedStep, ClosedStep DEF Books
<1> QED
  BY <1>1, BooksInit, PTL DEF Spec

-----------------------------------------------------------------------------
(* Resources and marks.                                                    *)

LEMMA ResourcesStep ==
  ASSUME Books, Resources, [Next]_vars
  PROVE  Resources'
<1>1. CASE Connect
  BY <1>1 DEF Connect, Resources, Books, Going, Fresh
<1>2. CASE Finish
  BY <1>2 DEF Finish, Released, Resources
<1>3. CASE Validate \/ NextTask \/ UNCHANGED vars
  BY <1>3 DEF Validate, NextTask, vars, Resources
<1>4. CASE Prepare \/ TimePasses \/ Check \/ RequestFails \/ Respond \/ UseTool \/ Executed
  BY <1>4 DEF Prepare, TimePasses, Check, RequestFails, Respond, UseTool, Executed, Resources
<1> QED
  BY <1>1, <1>2, <1>3, <1>4 DEF Next

(* What the moulinette accepts is correct, where it has a testbed.         *)
LEMMA PassesCorrect == Books /\ mode # "docker" /\ Passes(file) => file.written /\ Correct(file)
<1>1. Books => mode \in {"mbpp", "fixture", "docker"}
  BY AgentExamAssumption DEF Books, Typed
<1> QED
  BY <1>1 DEF Passes, Correct, PatchCorrect

LEMMA GoodFinite == Marks => IsFiniteSet(good) /\ Cardinality(good) \in Nat
<1> SUFFICES ASSUME Marks PROVE IsFiniteSet(good) /\ Cardinality(good) \in Nat
  OBVIOUS
<1>1. Marked \in Int
  BY Limits DEF Marks, Marked
<1>2. IsFiniteSet(1..Marked)
  BY <1>1, FS_Interval
<1>3. IsFiniteSet(good)
  BY <1>2, FS_Subset DEF Marks
<1> QED
  BY <1>3, FS_CardinalityType

LEMMA MarksStep ==
  ASSUME Books, Marks, [Next]_vars
  PROVE  Marks'
<1>1. /\ task \in Nat /\ task' \in Nat /\ passed \in Nat /\ passed' \in Nat
  BY TypedStep DEF Books, Typed
<1>2. CASE Validate
  <2>1. phase = "validate" /\ phase' = "remove" /\ mode' = mode /\ task' = task /\ task \in 1..Tasks
    BY <1>1, <1>2, Limits DEF Validate, Marks
  <2>2. passed' = (IF Passes(file) THEN passed + 1 ELSE passed) /\ passed <= task - 1
    BY <1>2, <2>1 DEF Validate, Marks, Marked
  <2>3. good' = (IF file.written /\ Correct(file) THEN good \cup {task} ELSE good)
    BY <1>2 DEF Validate
  <2>4. good \subseteq 1..(task - 1)
    BY <2>1 DEF Marks, Marked
  <2>5. passed' <= task /\ good' \subseteq 1..task
    BY <1>1, <2>1, <2>2, <2>3, <2>4
  <2>6. ASSUME mode # "docker"
        PROVE  passed' <= Cardinality(good')
    <3>1. IsFiniteSet(good) /\ Cardinality(good) \in Nat /\ task \notin good
      BY <1>1, <2>1, <2>4, GoodFinite
    <3>2. Cardinality(good \cup {task}) = Cardinality(good) + 1
      BY <3>1, FS_AddElement
    <3>3. passed <= Cardinality(good)
      BY <2>6 DEF Marks
    <3>4. Passes(file) => file.written /\ Correct(file)
      BY <2>6, PassesCorrect
    <3> HIDE DEF Passes, Correct
    <3> QED
      BY <1>1, <2>2, <2>3, <3>1, <3>2, <3>3, <3>4
  <2> QED
    BY <2>1, <2>5, <2>6, Limits DEF Marks, Marked
<1>3. CASE NextTask
  BY <1>1, <1>3, Limits DEF NextTask, Marks, Marked
<1>4. CASE Prepare
  BY <1>1, <1>4 DEF Prepare, exam, Marks, Marked
<1>5. CASE Connect \/ TimePasses \/ Check \/ RequestFails \/ Respond \/ UseTool \/ Executed \/ Finish
  <2>1. UNCHANGED <<mode, task, passed, good>> /\ phase # "prepare" /\ phase # "remove"
    BY <1>5 DEF Connect, TimePasses, Check, RequestFails, Respond, UseTool, Executed, Finish, exam
  <2>2. phase' # "remove"
    BY <1>5, <2>1 DEF Connect, TimePasses, Check, RequestFails, Respond, UseTool, Executed, Finish
  <2> QED
    BY <2>1, <2>2 DEF Marks, Marked
<1>6. CASE UNCHANGED vars
  BY <1>6 DEF vars, exam, Marks, Marked
<1> QED
  BY <1>2, <1>3, <1>4, <1>5, <1>6 DEF Next

LEMMA MarksInit == Init => Marks
<1> SUFFICES ASSUME Init PROVE Marks
  OBVIOUS
<1>1. Cardinality({}) = 0
  BY FS_EmptySet
<1> QED
  BY <1>1, Limits DEF Init, Marks, Marked

-----------------------------------------------------------------------------
(* The results.                                                            *)

LEMMA RunTypes == Books /\ Marks => TypeOK
<1> SUFFICES ASSUME Books, Marks PROVE TypeOK
  OBVIOUS
<1>1. task \in 1..(Tasks + 1) /\ passed \in 0..Tasks /\ good \subseteq 1..Tasks
  BY Limits DEF Books, Typed, Marks, Marked
<1>2. run.steps \in 0..run.requests
  BY RunFields DEF Books, Typed, Closed
<1>3. file.written \in BOOLEAN
  <2>1. CASE file = NoFile
    BY <2>1 DEF NoFile
  <2>2. CASE file \in Files
    BY <2>2 DEF Files
  <2> QED
    BY <2>1, <2>2 DEF Books, Typed
<1>4. run.step \in 0..MaxIterations /\ run.in \in 0..(MaxTokensIn + MaxCost)
      /\ run.out \in 0..(MaxTokensOut + MaxCost) /\ run.msgs \in Seq(Roles)
  BY RunFields DEF Books, Typed, Steps, TokensIn, TokensOut, Conversations
<1> QED
  BY <1>1, <1>2, <1>3, <1>4 DEF TypeOK, Books, Typed

(* The books of a run are right at every request and in its file, for any  *)
(* number of iterations and retries: counters within their limits but for  *)
(* one response, one observation for every answer, success or an error in  *)
(* the file (orchestrator.py 48-115).                                      *)
THEOREM BooksRight == Spec => []RunAccounted
<1>1. Books => ConversationAlternates /\ FileIsConsistent
  <2>1. Books => ConversationAlternates
    BY DEF Books, Balanced, Alternates, ConversationAlternates
  <2>2. Books => FileIsConsistent
    BY DEF Books, Closed, Settled, FileIsConsistent
  <2> QED
    BY <2>1, <2>2
<1>2. Books /\ Marks /\ [Next]_vars => Marks'
  BY MarksStep
<1>3. Books /\ Marks => RunAccounted
  BY <1>1, RunTypes DEF RunAccounted
<1> QED
  BY <1>2, <1>3, BooksHold, MarksInit, PTL DEF Spec

(* Once its loop has begun an agent leaves nothing open, whatever ends it  *)
(* (agent_swebench 152-159).                                               *)
THEOREM AlwaysCleanedUp == Spec => []CleanedUp
<1>1. Init => Resources
  BY DEF Init, Resources
<1>2. Books /\ Resources /\ [Next]_vars => Resources'
  BY ResourcesStep
<1>3. Resources => CleanedUp
  BY DEF Resources, CleanedUp
<1> QED
  BY <1>1, <1>2, <1>3, BooksHold, PTL DEF Spec

(* An exam of any number of tasks is passed only with as many correct      *)
(* solutions as its threshold asks for, unless it runs under docker, where *)
(* the moulinette has no testbed (moulinette, cmd_validate_swebench).      *)
THEOREM VerdictsEarned == Spec => []VerdictEarned
<1>1. Books /\ Marks => VerdictEarned
  <2> SUFFICES ASSUME Books, Marks, ExamPassed, mode # "docker"
               PROVE  Cardinality(good) >= Threshold
    BY DEF VerdictEarned
  <2>1. passed >= Threshold /\ passed <= Cardinality(good)
    BY DEF ExamPassed, Marks
  <2>2. Cardinality(good) \in Nat
    BY GoodFinite
  <2> QED
    BY <2>1, <2>2, Limits DEF Books, Typed
<1>2. Books /\ Marks /\ [Next]_vars => Marks'
  BY MarksStep
<1> QED
  BY <1>1, <1>2, BooksHold, MarksInit, PTL DEF Spec

=============================================================================

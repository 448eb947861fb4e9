------------------------------ MODULE TreeNity ------------------------------
(***************************************************************************)
(* The Tree Nity message queue: one server process and the client          *)
(* processes that talk to it over named pipes.                             *)
(*                                                                         *)
(* The server has a control thread (main), one worker thread per topic,    *)
(* one detached opener thread per accepted SUBSCRIBE and one detached      *)
(* reader thread per accepted PRODUCE.  A message is its offset in the log *)
(* of its topic, and the log keeps its key; a prefix is the set of the     *)
(* keys it is a prefix of.  A request or a message is written to its pipe  *)
(* in one piece (it is shorter than PIPE_BUF).                             *)
(*                                                                         *)
(* One action is one critical section, one system call that may block, or  *)
(* one access to state that two threads share.  Topic::mu_ is held by the  *)
(* worker from the moment it wakes until it waits again, and by everybody  *)
(* else for one action; see MuFree.                                        *)
(*                                                                         *)
(* X_Something is a mutant: the definition X with a plausible bug.         *)
(***************************************************************************)
EXTENDS Integers, Sequences, FiniteSets

CONSTANTS
    Topics, InitTopics,   \* topic names; those that exist when we start to look
    Names,                \* client identifiers
    Keys,                 \* message keys
    Subscribers, Producers, Creators, Queriers,    \* client processes, by command
    NameOf,               \* [Subscribers -> Names]
    TopicOf,              \* [Procs -> Topics], the topic on the command line
    PrefixOf,             \* [Subscribers -> SUBSET Keys]
    Offsets,              \* values of --offset; -1 stands for none given
    MaxLog,               \* bound: messages per topic
    PipeCap,              \* bound: messages a pipe holds
    MaxKills, MaxSignals, \* bounds: processes killed, SIGINT/SIGTERM to clients
    MayShutDown,          \* TRUE: the server may get SIGTERM
    Stalled               \* subscribers that need not go on reading

Procs == Subscribers \cup Producers \cup Creators \cup Queriers

ASSUME ConstantsAssumption ==
    /\ IsFiniteSet(Subscribers)
    /\ InitTopics \subseteq Topics
    /\ NameOf \in [Subscribers -> Names]
    /\ TopicOf \in [Procs -> Topics]
    /\ PrefixOf \in [Subscribers -> SUBSET Keys]
    /\ Offsets \subseteq Nat \cup {-1}
    /\ MaxLog \in Nat /\ PipeCap \in Nat \ {0}
    /\ MaxKills \in Nat /\ MaxSignals \in Nat
    /\ MayShutDown \in BOOLEAN

VARIABLES
    \* --- client processes
    proc,       \* where the process is
    sig,        \* g_signaled
    ino,        \* the pipe it reads its messages from
    out,        \* the messages it has printed
    \* --- control thread
    mainq,      \* bytes of the main FIFO, as requests
    pending,    \* requests read and not dispatched yet
    ctl,        \* where the thread is
    req, ans,   \* the request being handled, and whether the answer is OK
    start,      \* start_offset
    topics,     \* g_topics
    index,      \* g_client_index
    \* --- topics
    log,        \* Topic::log_, as the keys of its messages
    consumers,  \* Topic::consumers_; `from' is the offset a consumer registered with
    wpc,        \* where the worker is
    wtodo,      \* consumers the loop has still to visit
    wcur,       \* the consumer it visits
    wmeta,      \* what the persist callback has read from the index
    shutting,   \* Topic::shutting_down_
    \* --- named pipes of the subscribers, and opener threads
    sess,       \* SUBSCRIBE requests accepted so far; each makes a pipe
    node,       \* the pipe <ipc>.<client_id> names now
    buf,        \* what is in a pipe
    opc, oino, ofor,    \* opener threads: where, which pipe, for which process
    \* --- signals
    gshutdown,  \* g_shutdown
    kills, signals

clientVars == <<proc, sig, ino, out>>
requestVars == <<mainq, pending, ctl, req, ans, start>>
topicVars == <<log, consumers, wpc, wtodo, wcur, wmeta, shutting>>
pipeVars == <<sess, node, buf, opc, oino, ofor>>
boundVars == <<gshutdown, kills, signals>>
vars == <<clientVars, requestVars, topics, index, topicVars, pipeVars, boundVars>>

Sessions == 1..Cardinality(Subscribers)

\* The server process has ended: main has returned and removed the main FIFO
\* ("gone"), or the watchdog has cut it short and the FIFO is still there.
Down == ctl \in {"gone", "cut"}
EOT == -1        \* the sentinel

-----------------------------------------------------------------------------
(* Partial functions: g_client_index and consumers_.                       *)

Put(f, n, v) == [m \in DOMAIN f \cup {n} |-> IF m = n THEN v ELSE f[m]]
Drop(f, n) == [m \in DOMAIN f \ {n} |-> f[m]]
Empty == [n \in {} |-> 0]

(* Who has a pipe open.  open() of one end blocks until the other end is   *)
(* opened; a process or thread that blocks there counts as having it open. *)

Reading == {"opening", "check", "enter", "read"}
Readers(i) == {p \in Subscribers : proc[p] \in Reading /\ ino[p] = i}
Writers(i) == {s \in Sessions : /\ opc[s] \in {"block", "opened", "checked", "attached"}
                                /\ oino[s] = i}

\* Opening the write end lets the readers that wait in open() go, and the
\* other way round.
ReleaseReaders(i) ==
    proc' = [p \in Procs |-> IF /\ p \in Subscribers /\ proc[p] = "opening"
                                /\ ino[p] = i
                             THEN "check" ELSE proc[p]]
ReleaseWriters(i) ==
    opc' = [s \in Sessions |-> IF opc[s] = "block" /\ oino[s] = i
                               THEN "opened" ELSE opc[s]]

MuFree(t) == wpc[t] \notin {"loop", "write", "get", "set", "eot"}

Active(t, n) == n \in DOMAIN consumers[t]
Connected(t) == {n \in DOMAIN consumers[t] : consumers[t][n].fd # 0}
Backlog_LastMissed(t) ==
    {n \in Connected(t) : consumers[t][n].offset + 1 < Len(log[t])}
Backlog(t) == {n \in Connected(t) : consumers[t][n].offset < Len(log[t])}

SetFd(t, n, s) == consumers' = [consumers EXCEPT ![t][n].fd = s]

-----------------------------------------------------------------------------
NoMeta == [topic |-> "none", offset |-> 0]
NoRequest == [cmd |-> "none", by |-> "none", offset |-> -1]

Init ==
    /\ proc = [p \in Procs |-> "idle"]
    /\ sig = [p \in Subscribers |-> FALSE]
    /\ ino = [p \in Subscribers |-> 0]
    /\ out = [p \in Subscribers |-> <<>>]
    /\ mainq = <<>> /\ pending = <<>> /\ ctl = "top"
    /\ req = NoRequest /\ ans = FALSE /\ start = 0
    /\ topics = InitTopics
    /\ index = Empty
    /\ log = [t \in Topics |-> <<>>]
    /\ consumers = [t \in Topics |-> Empty]
    /\ wpc = [t \in Topics |-> IF t \in InitTopics THEN "wait" ELSE "none"]
    /\ wtodo = [t \in Topics |-> {}]
    /\ wcur = [t \in Topics |-> "none"]
    /\ wmeta = [t \in Topics |-> NoMeta]
    /\ shutting = [t \in Topics |-> FALSE]
    /\ sess = 0
    /\ node = [n \in Names |-> 0]
    /\ buf = [i \in Sessions |-> <<>>]
    /\ opc = [s \in Sessions |-> "none"]
    /\ oino = [s \in Sessions |-> 0]
    /\ ofor = [s \in Sessions |-> "none"]
    /\ gshutdown = FALSE /\ kills = 0 /\ signals = 0

-----------------------------------------------------------------------------
(* Client processes.                                                       *)

Goto(p, l) == proc' = [proc EXCEPT ![p] = l]

\* request_reply: create the response FIFO, write the request, and block in
\* open() of the response FIFO.
Request(p, cmd, offset) ==
    /\ proc[p] = "idle" /\ ~Down
    /\ mainq' = Append(mainq, [cmd |-> cmd, by |-> p, offset |-> offset])
    /\ Goto(p, "await")
    /\ UNCHANGED <<sig, ino, out, pending, ctl, req, ans, start, topics, index,
                   topicVars, pipeVars, boundVars>>

Start ==
    \/ \E p \in Subscribers, o \in Offsets : Request(p, "subscribe", o)
    \/ \E p \in Producers : Request(p, "produce", -1)
    \/ \E p \in Creators : Request(p, "create", -1)
    \/ \E p \in Queriers : Request(p, "query", -1)

\* cmd_subscribe opens <ipc>.<client_id> for reading, by its name.
OpenChannel(p) ==
    /\ proc[p] = "open"
    /\ LET i == node[NameOf[p]] IN
        /\ ino' = [ino EXCEPT ![p] = i]
        /\ ReleaseWriters(i)
        /\ Goto(p, IF Writers(i) # {} THEN "check" ELSE "opening")
    /\ UNCHANGED <<sig, out, requestVars, topics, index, topicVars, sess, node,
                   buf, oino, ofor, boundVars>>

\* The test of g_signaled at the top of the read loop ...
Check(p) ==
    /\ proc[p] = "check"
    /\ Goto(p, IF sig[p] THEN "bye" ELSE "enter")
    /\ UNCHANGED <<sig, ino, out, requestVars, topics, index, topicVars,
                   pipeVars, boundVars>>

\* ... then read(), which may block, ...
BlockInRead(p) ==
    /\ proc[p] = "enter"
    /\ buf[ino[p]] = <<>> /\ Writers(ino[p]) # {}
    /\ Goto(p, "read")
    /\ UNCHANGED <<sig, ino, out, requestVars, topics, index, topicVars,
                   pipeVars, boundVars>>

\* ... returns a message or the sentinel ...
ReadMessage(p) ==
    /\ proc[p] \in {"enter", "read"}
    /\ buf[ino[p]] # <<>>
    /\ LET m == Head(buf[ino[p]]) IN
        IF m = EOT
        THEN Goto(p, "off") /\ UNCHANGED out
        ELSE Goto(p, "check") /\ out' = [out EXCEPT ![p] = Append(@, m)]
    /\ buf' = [buf EXCEPT ![ino[p]] = Tail(@)]
    /\ UNCHANGED <<sig, ino, requestVars, topics, index, topicVars, sess, node,
                   opc, oino, ofor, boundVars>>

\* ... or finds that nobody has the pipe open for writing any more.
ReadEof_Retried(p) ==
    /\ proc[p] \in {"enter", "read"}
    /\ buf[ino[p]] = <<>> /\ Writers(ino[p]) = {}
    /\ Goto(p, "check")
    /\ UNCHANGED <<sig, ino, out, requestVars, topics, index, topicVars,
                   pipeVars, boundVars>>
ReadEof(p) ==
    /\ proc[p] \in {"enter", "read"}
    /\ buf[ino[p]] = <<>> /\ Writers(ino[p]) = {}
    /\ Goto(p, IF sig[p] THEN "bye" ELSE "off")
    /\ UNCHANGED <<sig, ino, out, requestVars, topics, index, topicVars,
                   pipeVars, boundVars>>

\* The pipe is closed; tell the server, if there still is one.  A main FIFO
\* that nobody reads blocks the client in open() for ever.
Disconnect(p) ==
    /\ proc[p] = "bye" /\ ctl # "cut"
    /\ Goto(p, "off")
    /\ IF ctl = "gone" THEN UNCHANGED mainq
       ELSE mainq' = Append(mainq, [cmd |-> "disconnect", by |-> p, offset |-> -1])
    /\ UNCHANGED <<sig, ino, out, pending, ctl, req, ans, start, topics, index,
                   topicVars, pipeVars, boundVars>>

SubscriberStep(p) == \/ OpenChannel(p) \/ Check(p) \/ BlockInRead(p)
                     \/ ReadMessage(p) \/ ReadEof(p) \/ Disconnect(p)

\* SIGINT or SIGTERM, once the handler is installed: a blocked system call
\* returns EINTR (an open() that does makes the client die), anything else
\* only sees g_signaled set.
Signal(p) ==
    /\ signals < MaxSignals
    /\ proc[p] \in {"open"} \cup Reading
    /\ signals' = signals + 1
    /\ \/ /\ proc[p] = "opening"
          /\ Goto(p, "off") /\ UNCHANGED sig
       \/ /\ proc[p] = "read" /\ buf[ino[p]] = <<>> /\ Writers(ino[p]) # {}
          /\ Goto(p, "bye") /\ UNCHANGED sig
       \/ /\ \/ proc[p] \in {"open", "check", "enter"}
             \/ proc[p] = "read" /\ (buf[ino[p]] # <<>> \/ Writers(ino[p]) = {})
          /\ sig' = [sig EXCEPT ![p] = TRUE] /\ UNCHANGED proc
    /\ UNCHANGED <<ino, out, requestVars, topics, index, topicVars, pipeVars,
                   gshutdown, kills>>

\* Any process may be killed (SIGKILL, or a signal before the handler is there).
Kill(p) ==
    /\ kills < MaxKills
    /\ proc[p] \notin {"idle", "off"}
    /\ kills' = kills + 1
    /\ Goto(p, "off")
    /\ UNCHANGED <<sig, ino, out, requestVars, topics, index, topicVars,
                   pipeVars, gshutdown, signals>>

\* A line of the producer gets to its reader thread, and from there into the
\* log (Topic::produce).
Produce(p, k) ==
    /\ proc[p] = "stream" /\ ~Down
    /\ LET t == TopicOf[p] IN
        /\ MuFree(t) /\ Len(log[t]) < MaxLog
        /\ log' = [log EXCEPT ![t] = Append(@, k)]
    /\ UNCHANGED <<clientVars, requestVars, topics, index, consumers, wpc,
                   wtodo, wcur, wmeta, shutting, pipeVars, boundVars>>

EndOfInput(p) ==
    /\ proc[p] = "stream"
    /\ Goto(p, "off")
    /\ UNCHANGED <<sig, ino, out, requestVars, topics, index, topicVars,
                   pipeVars, boundVars>>

-----------------------------------------------------------------------------
(* The control thread.                                                     *)

\* while (!g_shutdown)
LoopTop ==
    /\ ctl = "top"
    /\ ctl' = IF gshutdown THEN "stop" ELSE "poll"
    /\ UNCHANGED <<clientVars, mainq, pending, req, ans, start, topics, index,
                   topicVars, pipeVars, boundVars>>

\* poll() reports what is in the main FIFO, which is then read, or it returns
\* (timeout, signal) with nothing, which matters only after a signal.
Poll_NoTimeout ==
    /\ ctl = "poll"
    /\ mainq # <<>>
    /\ pending' = mainq /\ mainq' = <<>> /\ ctl' = "dispatch"
    /\ UNCHANGED <<clientVars, req, ans, start, topics, index, topicVars,
                   pipeVars, boundVars>>
Poll ==
    /\ ctl = "poll"
    /\ \/ /\ mainq # <<>>
          /\ pending' = mainq /\ mainq' = <<>> /\ ctl' = "dispatch"
       \/ /\ mainq = <<>> /\ gshutdown
          /\ ctl' = "top" /\ UNCHANGED <<pending, mainq>>
    /\ UNCHANGED <<clientVars, req, ans, start, topics, index, topicVars,
                   pipeVars, boundVars>>

Dispatch ==
    /\ ctl = "dispatch"
    /\ IF pending = <<>>
       THEN ctl' = "top" /\ req' = NoRequest /\ UNCHANGED pending
       ELSE /\ req' = Head(pending) /\ pending' = Tail(pending)
            /\ ctl' = Head(pending).cmd
    /\ UNCHANGED <<clientVars, mainq, ans, start, topics, index, topicVars,
                   pipeVars, boundVars>>

Answer(ok) == ans' = ok /\ ctl' = "reply"

Create ==
    /\ ctl = "create"
    /\ LET t == TopicOf[req.by] IN
        /\ Answer(t \notin topics)
        /\ topics' = topics \cup {t}
        /\ wpc' = IF t \in topics THEN wpc ELSE [wpc EXCEPT ![t] = "wait"]
    /\ UNCHANGED <<clientVars, mainq, pending, req, start, index, log, consumers,
                   wtodo, wcur, wmeta, shutting, pipeVars, boundVars>>

\* LIST and INFO, which change nothing; PRODUCE up to its answer.
LookUp ==
    /\ \/ ctl = "query" /\ Answer(TRUE)
       \/ ctl = "produce" /\ Answer(TopicOf[req.by] \in topics)
    /\ UNCHANGED <<clientVars, mainq, pending, req, start, topics, index,
                   topicVars, pipeVars, boundVars>>

\* handle_subscribe: refuse, or settle where to start from ...
StartOffset_NoResume(t, n) == IF req.offset >= 0 THEN req.offset ELSE 0
StartOffset(t, n) ==
    IF req.offset >= 0 THEN req.offset
    ELSE IF n \in DOMAIN index /\ index[n].topic = t THEN index[n].offset
    ELSE 0

Subscribe_NoDuplicateCheck ==
    /\ ctl = "subscribe"
    /\ LET t == TopicOf[req.by]
           n == NameOf[req.by]
       IN  IF t \notin topics THEN Answer(FALSE) /\ UNCHANGED start
           ELSE /\ MuFree(t)
                /\ ctl' = "store" /\ start' = StartOffset(t, n) /\ UNCHANGED ans
    /\ UNCHANGED <<clientVars, mainq, pending, req, topics, index, topicVars,
                   pipeVars, boundVars>>
Subscribe ==
    /\ ctl = "subscribe"
    /\ LET t == TopicOf[req.by]
           n == NameOf[req.by]
       IN  IF t \notin topics THEN Answer(FALSE) /\ UNCHANGED start
           ELSE /\ MuFree(t)
                /\ IF Active(t, n) THEN Answer(FALSE) /\ UNCHANGED start
                   ELSE /\ ctl' = "store" /\ start' = StartOffset(t, n)
                        /\ UNCHANGED ans
    /\ UNCHANGED <<clientVars, mainq, pending, req, topics, index, topicVars,
                   pipeVars, boundVars>>

\* ... make the pipe anew (unlink, mkfifo) and store the metadata ...
StoreMeta ==
    /\ ctl = "store"
    /\ LET n == NameOf[req.by] IN
        /\ sess' = sess + 1
        /\ node' = [node EXCEPT ![n] = sess + 1]
        /\ index' = Put(index, n, [topic |-> TopicOf[req.by], offset |-> start])
    /\ ctl' = "register"
    /\ UNCHANGED <<clientVars, mainq, pending, req, ans, start, topics,
                   topicVars, buf, opc, oino, ofor, boundVars>>

\* ... and register the consumer.
Register ==
    /\ ctl = "register"
    /\ LET t == TopicOf[req.by] IN
        /\ MuFree(t)
        /\ consumers' = [consumers EXCEPT ![t] =
              Put(@, NameOf[req.by],
                  [offset |-> start, from |-> start, fd |-> 0,
                   wants |-> PrefixOf[req.by]])]
    /\ start' = 0 /\ Answer(TRUE)
    /\ UNCHANGED <<clientVars, mainq, pending, req, topics, index, log, wpc,
                   wtodo, wcur, wmeta, shutting, pipeVars, boundVars>>

\* reply opens the response FIFO, which blocks until the client has opened it
\* too; after the OK of a SUBSCRIBE an opener thread is started.
Reply ==
    /\ ctl = "reply"
    /\ proc[req.by] = "await"
    /\ Goto(req.by, IF ans /\ req.cmd = "subscribe" THEN "open"
                    ELSE IF ans /\ req.cmd = "produce" THEN "stream"
                    ELSE "off")
    /\ IF ans /\ req.cmd = "subscribe"
       THEN /\ opc' = [opc EXCEPT ![sess] = "start"]
            /\ ofor' = [ofor EXCEPT ![sess] = req.by]
       ELSE UNCHANGED <<opc, ofor>>
    /\ ctl' = "dispatch" /\ req' = NoRequest /\ ans' = FALSE
    /\ UNCHANGED <<sig, ino, out, mainq, pending, start, topics, index,
                   topicVars, sess, node, buf, oino, boundVars>>

\* handle_disconnect: unregister_consumer in the topic the index names.
Unregister_Unlocked ==
    /\ ctl = "disconnect"
    /\ LET n == NameOf[req.by] IN
        IF n \in DOMAIN index
        THEN LET t == index[n].topic IN
             /\ IF Active(t, n)
                THEN LET s == consumers[t][n].fd IN
                     /\ consumers' = [consumers EXCEPT ![t] = Drop(@, n)]
                     /\ opc' = IF s = 0 THEN opc ELSE [opc EXCEPT ![s] = "closed"]
                ELSE UNCHANGED <<consumers, opc>>
        ELSE UNCHANGED <<consumers, opc>>
    /\ ctl' = "dispatch" /\ req' = NoRequest
    /\ UNCHANGED <<clientVars, mainq, pending, ans, start, topics, index, log,
                   wpc, wtodo, wcur, wmeta, shutting, sess, node, buf, oino,
                   ofor, boundVars>>
Unregister ==
    /\ ctl = "disconnect"
    /\ LET n == NameOf[req.by] IN
        IF n \in DOMAIN index
        THEN LET t == index[n].topic IN
             /\ MuFree(t)
             /\ IF Active(t, n)
                THEN LET s == consumers[t][n].fd IN
                     /\ consumers' = [consumers EXCEPT ![t] = Drop(@, n)]
                     /\ opc' = IF s = 0 THEN opc ELSE [opc EXCEPT ![s] = "closed"]
                ELSE UNCHANGED <<consumers, opc>>
        ELSE UNCHANGED <<consumers, opc>>
    /\ ctl' = "dispatch" /\ req' = NoRequest
    /\ UNCHANGED <<clientVars, mainq, pending, ans, start, topics, index, log,
                   wpc, wtodo, wcur, wmeta, shutting, sess, node, buf, oino,
                   ofor, boundVars>>

-----------------------------------------------------------------------------
(* Opener threads: consumer_opener_thread of session s.                    *)

\* open(fifo_path, O_WRONLY), by name, blocks until there is a reader.
OpenForWriting(s) ==
    /\ opc[s] = "start"
    /\ LET i == node[NameOf[ofor[s]]] IN
        /\ oino' = [oino EXCEPT ![s] = i]
        /\ opc' = [opc EXCEPT ![s] = IF Readers(i) # {} THEN "opened" ELSE "block"]
        /\ ReleaseReaders(i)
    /\ UNCHANGED <<sig, ino, out, requestVars, topics, index, topicVars, sess,
                   node, buf, ofor, boundVars>>

\* has_active_consumer.
Verify(s) ==
    /\ opc[s] = "opened"
    /\ LET t == TopicOf[ofor[s]] IN
        /\ MuFree(t)
        /\ opc' = [opc EXCEPT ![s] = IF Active(t, NameOf[ofor[s]])
                                     THEN "checked" ELSE "closed"]
    /\ UNCHANGED <<clientVars, requestVars, topics, index, topicVars, sess, node,
                   buf, oino, ofor, boundVars>>

\* attach_fd, which looks the consumer up again.
Attach(s) ==
    /\ opc[s] = "checked"
    /\ LET t == TopicOf[ofor[s]]
           n == NameOf[ofor[s]]
       IN  /\ MuFree(t)
           /\ IF Active(t, n)
              THEN SetFd(t, n, s) /\ opc' = [opc EXCEPT ![s] = "attached"]
              ELSE UNCHANGED consumers /\ opc' = [opc EXCEPT ![s] = "closed"]
    /\ UNCHANGED <<clientVars, requestVars, topics, index, log, wpc, wtodo, wcur,
                   wmeta, shutting, sess, node, buf, oino, ofor, boundVars>>

OpenerStep(s) == OpenForWriting(s) \/ Verify(s) \/ Attach(s)

-----------------------------------------------------------------------------
(* Topic workers: Topic::run.                                              *)

WorkerGoto(t, l) == wpc' = [wpc EXCEPT ![t] = l]

\* The wait ends: there is a backlog to deliver, or the topic shuts down.
Wake(t) ==
    /\ wpc[t] = "wait"
    /\ \/ /\ shutting[t]
          /\ wtodo' = [wtodo EXCEPT ![t] = Connected(t)]
          /\ WorkerGoto(t, "eot")
       \/ /\ ~shutting[t] /\ Backlog(t) # {}
          /\ wtodo' = [wtodo EXCEPT ![t] = Backlog(t)]
          /\ WorkerGoto(t, "loop")
    /\ UNCHANGED <<clientVars, requestVars, topics, index, log, consumers, wcur,
                   wmeta, shutting, pipeVars, boundVars>>

\* for (auto &kv : consumers_)
Visit(t) ==
    /\ wpc[t] = "loop"
    /\ \/ /\ wtodo[t] = {}
          /\ WorkerGoto(t, "wait") /\ wcur' = [wcur EXCEPT ![t] = "none"]
          /\ UNCHANGED wtodo
       \/ \E n \in wtodo[t] :
             /\ wcur' = [wcur EXCEPT ![t] = n]
             /\ wtodo' = [wtodo EXCEPT ![t] = @ \ {n}]
             /\ WorkerGoto(t, "write")
    /\ UNCHANGED <<clientVars, requestVars, topics, index, log, consumers, wmeta,
                   shutting, pipeVars, boundVars>>

\* One message: write it, unless the prefix does not match or there is no
\* reader (EPIPE: close the pipe, keep the consumer).  A full pipe blocks.
Deliver_AnyKey(t) ==
    /\ wpc[t] = "write"
    /\ LET n == wcur[t]
           c == consumers[t][n]
           i == oino[c.fd]
       IN
        \/ /\ Readers(i) = {}
           /\ SetFd(t, n, 0) /\ opc' = [opc EXCEPT ![c.fd] = "closed"]
           /\ WorkerGoto(t, "loop") /\ UNCHANGED buf
        \/ /\ Readers(i) # {} /\ Len(buf[i]) < PipeCap
           /\ buf' = [buf EXCEPT ![i] = Append(@, c.offset)]
           /\ consumers' = [consumers EXCEPT ![t][n].offset = @ + 1]
           /\ WorkerGoto(t, "get") /\ UNCHANGED opc
    /\ UNCHANGED <<clientVars, requestVars, topics, index, log, wtodo, wcur,
                   wmeta, shutting, sess, node, oino, ofor, boundVars>>
Deliver(t) ==
    /\ wpc[t] = "write"
    /\ LET n == wcur[t]
           c == consumers[t][n]
           i == oino[c.fd]
           match == log[t][c.offset + 1] \in c.wants
       IN
        \/ /\ match /\ Readers(i) = {}
           /\ SetFd(t, n, 0) /\ opc' = [opc EXCEPT ![c.fd] = "closed"]
           /\ WorkerGoto(t, "loop") /\ UNCHANGED buf
        \/ /\ match => Readers(i) # {} /\ Len(buf[i]) < PipeCap
           /\ buf' = IF match THEN [buf EXCEPT ![i] = Append(@, c.offset)] ELSE buf
           /\ consumers' = [consumers EXCEPT ![t][n].offset = @ + 1]
           /\ WorkerGoto(t, "get") /\ UNCHANGED opc
    /\ UNCHANGED <<clientVars, requestVars, topics, index, log, wtodo, wcur,
                   wmeta, shutting, sess, node, oino, ofor, boundVars>>

\* The persist callback reads the metadata and writes it back with the new
\* offset; each is one critical section of the hash map.
PersistGet(t) ==
    /\ wpc[t] = "get"
    /\ wmeta' = [wmeta EXCEPT ![t] = index[wcur[t]]]
    /\ WorkerGoto(t, "set")
    /\ UNCHANGED <<clientVars, requestVars, topics, index, log, consumers, wtodo,
                   wcur, shutting, pipeVars, boundVars>>

PersistSet_Unchanged(t) ==
    /\ wpc[t] = "set"
    /\ LET n == wcur[t]
           c == consumers[t][n]
       IN  WorkerGoto(t, IF c.offset < Len(log[t]) THEN "write" ELSE "loop")
    /\ UNCHANGED <<clientVars, requestVars, topics, index, log, consumers, wtodo,
                   wcur, wmeta, shutting, pipeVars, boundVars>>
PersistSet(t) ==
    /\ wpc[t] = "set"
    /\ LET n == wcur[t]
           c == consumers[t][n]
       IN  /\ index' = Put(index, n, [wmeta[t] EXCEPT !.offset = c.offset])
           /\ WorkerGoto(t, IF c.offset < Len(log[t]) THEN "write" ELSE "loop")
    /\ wmeta' = [wmeta EXCEPT ![t] = NoMeta]
    /\ UNCHANGED <<clientVars, requestVars, topics, log, consumers, wtodo, wcur,
                   shutting, pipeVars, boundVars>>

\* Shutdown: the sentinel to every connected consumer, and its pipe is closed.
SendSentinel(t) ==
    /\ wpc[t] = "eot"
    /\ \/ /\ wtodo[t] = {}
          /\ WorkerGoto(t, "exited") /\ UNCHANGED <<wtodo, consumers, buf, opc>>
       \/ \E n \in wtodo[t] :
             LET s == consumers[t][n].fd
                 i == oino[s]
             IN  /\ Readers(i) = {} \/ Len(buf[i]) < PipeCap
                 /\ buf' = IF Readers(i) = {} THEN buf
                           ELSE [buf EXCEPT ![i] = Append(@, EOT)]
                 /\ SetFd(t, n, 0)
                 /\ opc' = [opc EXCEPT ![s] = "closed"]
                 /\ wtodo' = [wtodo EXCEPT ![t] = @ \ {n}]
                 /\ UNCHANGED wpc
    /\ UNCHANGED <<clientVars, requestVars, topics, index, log, wcur, wmeta,
                   shutting, sess, node, oino, ofor, boundVars>>

WorkerStep(t) == \/ Wake(t) \/ Visit(t) \/ Deliver(t)
                 \/ PersistGet(t) \/ PersistSet(t) \/ SendSentinel(t)

-----------------------------------------------------------------------------
(* Shutdown.                                                               *)

Sigterm ==
    /\ MayShutDown /\ ~gshutdown
    /\ gshutdown' = TRUE
    /\ UNCHANGED <<clientVars, requestVars, topics, index, topicVars, pipeVars,
                   kills, signals>>

\* Topic::stop of one topic after the other: tell the worker, then join it.
StopTopic ==
    /\ ctl = "stop"
    /\ \A t \in topics : shutting[t] => wpc[t] = "exited"
    /\ \E t \in topics : ~shutting[t] /\ shutting' = [shutting EXCEPT ![t] = TRUE]
    /\ UNCHANGED <<clientVars, requestVars, topics, index, log, consumers, wpc,
                   wtodo, wcur, wmeta, pipeVars, boundVars>>

\* g_topics.clear(): every Topic is destroyed.
DestroyTopics ==
    /\ ctl = "stop"
    /\ \A t \in topics : wpc[t] = "exited"
    /\ ctl' = "destroyed"
    /\ UNCHANGED <<clientVars, mainq, pending, req, ans, start, topics, index,
                   topicVars, pipeVars, boundVars>>

\* The process ends, by returning from main or by the watchdog, which may
\* fire at any time: its threads are gone and its pipes closed.
Exit ==
    /\ \/ ctl = "destroyed" /\ ctl' = "gone"
       \/ ctl \in {"stop", "destroyed"} /\ ctl' = "cut"
    /\ mainq' = <<>> /\ pending' = <<>>
    /\ wpc' = [t \in Topics |-> "exited"]
    /\ wtodo' = [t \in Topics |-> {}]
    /\ wcur' = [t \in Topics |-> "none"]
    /\ wmeta' = [t \in Topics |-> NoMeta]
    /\ opc' = [s \in Sessions |-> IF opc[s] = "none" THEN "none" ELSE "closed"]
    /\ UNCHANGED <<clientVars, req, ans, start, topics, index, log, consumers,
                   shutting, sess, node, buf, oino, ofor, boundVars>>

ControlStep ==
    \/ LoopTop \/ Poll \/ Dispatch
    \/ Create \/ LookUp \/ Subscribe \/ StoreMeta \/ Register \/ Reply \/ Unregister
    \/ StopTopic \/ DestroyTopics

Next ==
    \/ Start
    \/ \E p \in Subscribers : SubscriberStep(p) \/ Signal(p)
    \/ \E p \in Procs : Kill(p)
    \/ \E p \in Producers : (\E k \in Keys : Produce(p, k)) \/ EndOfInput(p)
    \/ ControlStep
    \/ \E s \in Sessions : OpenerStep(s)
    \/ \E t \in Topics : WorkerStep(t)
    \/ Sigterm \/ Exit

Spec == Init /\ [][Next]_vars

\* Every thread of the server is scheduled again and again, and so is every
\* subscriber but the stalled ones.  Users, signals and kills owe nothing.
Fairness ==
    /\ WF_vars(ControlStep)
    /\ \A s \in Sessions : WF_vars(OpenerStep(s))
    /\ \A t \in Topics : WF_vars(WorkerStep(t))
    /\ WF_vars(Exit)
    /\ \A p \in Subscribers \ Stalled : WF_vars(SubscriberStep(p))

FairSpec == Spec /\ Fairness

-----------------------------------------------------------------------------
(* Properties.                                                             *)

Consumer == [offset : Nat, from : Nat, fd : {0} \cup Sessions, wants : SUBSET Keys]
Meta == [topic : Topics, offset : Nat]
ControlLabels == {"top", "poll", "dispatch", "create", "query", "produce",
                  "subscribe", "store", "register", "disconnect", "reply",
                  "stop", "destroyed", "gone", "cut"}
WorkerLabels == {"none", "wait", "loop", "write", "get", "set", "eot", "exited"}

\* Every variable stays in its range.
TypeOK ==
    /\ \A p \in Procs : proc[p] \in {"idle", "await", "open", "bye", "stream", "off"}
                                  \cup Reading
    /\ ino \in [Subscribers -> {0} \cup Sessions]
    /\ ctl \in ControlLabels /\ start \in Nat /\ topics \subseteq Topics
    /\ \A n \in DOMAIN index : n \in Names /\ index[n] \in Meta
    /\ \A t \in Topics : /\ \A o \in DOMAIN log[t] : log[t][o] \in Keys
                          /\ DOMAIN consumers[t] \subseteq Names
                          /\ \A n \in DOMAIN consumers[t] : consumers[t][n] \in Consumer
                          /\ wpc[t] \in WorkerLabels
    /\ sess \in Nat /\ node \in [Names -> {0} \cup Sessions]
    /\ \A i \in Sessions : \A j \in DOMAIN buf[i] : buf[i][j] \in Nat \cup {EOT}

\* What a subscriber prints, and has still to read from its pipe, is what the
\* worker has gone through since the subscription began, in order, less the
\* keys its prefix does not match: nothing is lost, repeated or reordered
\* while the worker, the control thread, openers and producers interleave,
\* and the sentinel is never among it as long as messages may follow.
Stream(p) == out[p] \o buf[ino[p]]
Wanted(p, lo, hi) == {o \in lo..(hi - 1) : log[TopicOf[p]][o + 1] \in PrefixOf[p]}
PrefixFilter ==
    \A p \in Subscribers :
        LET t == TopicOf[p]
            n == NameOf[p]
            c == consumers[t][n]
            s == Stream(p)
        IN  proc[p] \in Reading /\ Active(t, n) /\ c.fd # 0 /\ oino[c.fd] = ino[p]
              => /\ {s[j] : j \in DOMAIN s} = Wanted(p, c.from, c.offset)
                 /\ \A j, k \in DOMAIN s : j < k => s[j] < s[k]

\* Consumers that come back under their name without asking for an offset get
\* no message a second time, whenever the previous one was interrupted: what
\* was printed had been committed before the slot was free again.
NoRepeat ==
    \A p, q \in Subscribers :
        p # q /\ NameOf[p] = NameOf[q] /\ TopicOf[p] = TopicOf[q] =>
            \A j \in DOMAIN out[p], k \in DOMAIN out[q] : out[p][j] # out[q][k]

\* The client index agrees with the topic: `info' answers, and a later
\* SUBSCRIBE resumes from, the offset the worker has got to, less at most the
\* message whose offset is being stored.
InfoInSync ==
    ~Down => \A t \in topics : \A n \in DOMAIN consumers[t] :
        /\ index[n].topic = t
        /\ \/ index[n].offset = consumers[t][n].offset
           \/ /\ wpc[t] \in {"get", "set"} /\ wcur[t] = n
              /\ index[n].offset = consumers[t][n].offset - 1

\* A pipe is never shared: one subscriber reads it, one opener writes it.
NeverShared ==
    /\ \A p, q \in Subscribers :
          proc[p] \in Reading /\ proc[q] \in Reading /\ ino[p] = ino[q] => p = q
    /\ \A i \in Sessions : Cardinality(Writers(i)) <= 1

\* Two live subscribers of a topic never have the same name, also when one
\* is disconnecting while the other subscribes.
OneReaderPerName ==
    \A p, q \in Subscribers :
        /\ proc[p] \in {"open"} \cup Reading /\ proc[q] \in {"open"} \cup Reading
        /\ NameOf[p] = NameOf[q] /\ TopicOf[p] = TopicOf[q]
        => p = q

\* Slots and pipes are owned: every variable has its type, a pipe has one
\* reader and one writer, and a name one live subscriber of a topic.
WellOwned == TypeOK /\ NeverShared /\ OneReaderPerName

\* Exactly once: within a subscription nothing is lost, repeated or
\* reordered, and from one subscription of a name to the next nothing is
\* repeated, whichever way the first one ended.
ExactlyOnce == PrefixFilter /\ NoRepeat

\* No consumer disappears under the worker's iteration over consumers_.
IteratorValid ==
    \A t \in Topics :
        /\ wtodo[t] \subseteq DOMAIN consumers[t]
        /\ wpc[t] \in {"write", "get", "set"} => wcur[t] \in DOMAIN consumers[t]

\* The committed offset of a consumer never goes back.
CommittedNeverRegresses ==
    [][\A n \in DOMAIN index : index'[n].offset >= index[n].offset]_vars

\* Every message gets to every registered consumer whose prefix matches, as
\* long as the subscriber lives: README.md, "routes every produced message to
\* every consumer whose subscription prefix matches the message's key".
Delivered ==
    \A p \in Subscribers, m \in 0..(MaxLog - 1) :
        LET t == TopicOf[p]
            n == NameOf[p]
        IN  (/\ proc[p] \in Reading /\ Active(t, n) /\ consumers[t][n].offset <= m
             /\ m < Len(log[t]) /\ log[t][m + 1] \in PrefixOf[p])
            ~> (\/ \E j \in DOMAIN out[p] : out[p][j] = m
                \/ proc[p] \in {"bye", "off"} \/ sig[p] \/ Down)

\* After SIGTERM the server process ends.
ShutdownCompletes == gshutdown ~> Down

\* A subscriber that reads when the server goes away stops reading, however
\* the server ended and whatever it had still to deliver.
ReadersEnd ==
    \A p \in Subscribers : (Down /\ proc[p] \in {"check", "enter", "read"})
                              ~> (proc[p] \in {"bye", "off"})

-----------------------------------------------------------------------------
(* What the documentation says of the program, and the program does not do. *)

\* README.md: the control thread "never blocks on client I/O for more than
\* the length of one short line".
Responsive == (ctl = "reply") ~> (ctl # "reply")

=============================================================================

--------------------------- MODULE TreeNityProofs ---------------------------
(***************************************************************************)
(* Theorems about TreeNity, for every number of topics, clients, keys and  *)
(* messages, every capacity of the pipes and every number of faults: the   *)
(* worker's loop is safe; and when every identifier keeps to one topic,    *)
(* the client index agrees with the topics, no committed offset goes back, *)
(* a name has one live subscriber and a pipe one reader and one writer,    *)
(* and messages are delivered exactly once.                                *)
(***************************************************************************)
EXTENDS TreeNity, FiniteSetTheorems, SequenceTheorems, TLAPS

-----------------------------------------------------------------------------
(* Partial functions over the identifiers, as Put and Drop make them.      *)

Partial(R) == UNION {[S -> R] : S \in SUBSET Names}

LEMMA PutLemma ==
    ASSUME NEW R, NEW f \in Partial(R), NEW n \in Names, NEW v \in R
    PROVE  /\ Put(f, n, v) \in Partial(R)
           /\ DOMAIN Put(f, n, v) = DOMAIN f \cup {n}
           /\ Put(f, n, v)[n] = v
           /\ \A m \in DOMAIN f \ {n} : Put(f, n, v)[m] = f[m]
<1>1. PICK S \in SUBSET Names : f \in [S -> R]
  BY DEF Partial
<1>2. Put(f, n, v) \in [S \cup {n} -> R]
  BY <1>1 DEF Put
<1> QED
  BY <1>1, <1>2 DEF Put, Partial

LEMMA DropLemma ==
    ASSUME NEW R, NEW f \in Partial(R), NEW n
    PROVE  /\ Drop(f, n) \in Partial(R)
           /\ DOMAIN Drop(f, n) = DOMAIN f \ {n}
           /\ \A m \in DOMAIN f \ {n} : Drop(f, n)[m] = f[m]
<1>1. PICK S \in SUBSET Names : f \in [S -> R]
  BY DEF Partial
<1>2. Drop(f, n) \in [S \ {n} -> R]
  BY <1>1 DEF Drop
<1> QED
  BY <1>1, <1>2 DEF Drop, Partial

LEMMA PartialLemma ==
    ASSUME NEW R, NEW f \in Partial(R)
    PROVE  /\ DOMAIN f \subseteq Names
           /\ \A n \in DOMAIN f : f[n] \in R
           /\ \A n \in DOMAIN f, v \in R :
                 /\ [f EXCEPT ![n] = v] \in Partial(R)
                 /\ DOMAIN [f EXCEPT ![n] = v] = DOMAIN f
<1>1. PICK S \in SUBSET Names : f \in [S -> R]
  BY DEF Partial
<1> QED
  BY <1>1 DEF Partial

-----------------------------------------------------------------------------
(* The shape of the state the other invariants talk about.                 *)

Requests ==
    {r \in [cmd : {"subscribe", "produce", "create", "query", "disconnect"},
            by : Procs, offset : Offsets \cup {-1}] :
        r.cmd \in {"subscribe", "disconnect"} => r.by \in Subscribers}

Slot == [offset : Nat, from : Nat, fd : {0} \cup Sessions, wants : SUBSET Keys]
Entry == [topic : Topics, offset : Nat]

Shape ==
    /\ mainq \in Seq(Requests) /\ pending \in Seq(Requests)
    /\ ctl \in {"create", "subscribe", "store", "register"} => req \in Requests
    /\ ctl \in {"subscribe", "store", "register"} => req.cmd = "subscribe"
    /\ start \in Nat
    /\ topics \in SUBSET Topics
    /\ index \in Partial(Entry)
    /\ consumers \in [Topics -> Partial(Slot)]
    /\ wpc \in [Topics -> WorkerLabels]
    /\ wtodo \in [Topics -> SUBSET Names]
    /\ wcur \in [Topics -> Names \cup {"none"}]
    /\ wmeta \in [Topics -> Entry \cup {NoMeta}]
    /\ \A t \in Topics : wpc[t] = "set" => wmeta[t] \in Entry

\* The worker's iteration: between two rounds it has nobody left to visit.
Iteration ==
    /\ IteratorValid
    /\ \A t \in Topics : /\ MuFree(t) => wtodo[t] = {}
                         /\ t \notin topics => wpc[t] \in {"none", "exited"}

\* Who is registered with a topic has an entry in the client index.
Indexed ==
    /\ \A t \in Topics : DOMAIN consumers[t] \subseteq DOMAIN index
    /\ ctl = "register" => NameOf[req.by] \in DOMAIN index

\* Most steps of clients, openers and signals leave this alone.
core == <<ctl, req, start, topics, index, consumers, wpc, wtodo, wcur, wmeta>>

ClientStep ==
    \/ Start
    \/ \E p \in Subscribers : SubscriberStep(p) \/ Signal(p)
    \/ \E p \in Procs : Kill(p)
    \/ \E p \in Producers : (\E k \in Keys : Produce(p, k)) \/ EndOfInput(p)

LEMMA ClientCore == ClientStep => UNCHANGED <<core, pending>>
BY DEF ClientStep, Start, Request, SubscriberStep, OpenChannel, Check,
       BlockInRead, ReadMessage, ReadEof, Disconnect, Signal, Kill, Produce,
       EndOfInput, core, requestVars, topicVars

\* What clients write to the main FIFO are requests.
LEMMA ClientRequests ==
    ASSUME mainq \in Seq(Requests), ClientStep
    PROVE  mainq' \in Seq(Requests)
<1>1. CASE Start
  <2>1. ASSUME NEW p \in Procs, NEW o \in Offsets \cup {-1},
               NEW cmd \in {"subscribe", "produce", "create", "query"},
               cmd = "subscribe" => p \in Subscribers, Request(p, cmd, o)
        PROVE  mainq' \in Seq(Requests)
    <3>1. [cmd |-> cmd, by |-> p, offset |-> o] \in Requests
      BY <2>1 DEF Requests
    <3> QED
      BY <2>1, <3>1 DEF Request
  <2> QED
    BY <1>1, <2>1 DEF Start, Procs
<1>2. CASE \E p \in Subscribers : Disconnect(p)
  <2>1. \A p \in Subscribers :
           [cmd |-> "disconnect", by |-> p, offset |-> -1] \in Requests
    BY DEF Requests, Procs
  <2> QED
    BY <1>2, <2>1 DEF Disconnect
<1>3. CASE UNCHANGED mainq
  BY <1>3
<1> QED
  BY <1>1, <1>2, <1>3
  DEF ClientStep, SubscriberStep, OpenChannel, Check, BlockInRead, ReadMessage,
      ReadEof, Signal, Kill, Produce, EndOfInput, requestVars

LEMMA RequestFacts ==
    ASSUME NEW r \in Requests, r.cmd = "subscribe"
    PROVE  /\ r.by \in Subscribers /\ NameOf[r.by] \in Names
           /\ TopicOf[r.by] \in Topics /\ PrefixOf[r.by] \in SUBSET Keys
           /\ r.offset \in Int
<1>1. r.by \in Subscribers /\ r.by \in Procs /\ r.offset \in Offsets \cup {-1}
  BY DEF Requests
<1>2. \A o \in Offsets : o \in Int
  BY ConstantsAssumption, SMT
<1>3. r.offset \in Int
  <2>1. CASE r.offset \in Offsets
    BY <2>1, <1>2
  <2>2. CASE r.offset = -1
    BY <2>2
  <2> QED
    BY <1>1, <2>1, <2>2
<1> QED
  BY <1>1, <1>3, ConstantsAssumption

LEMMA InitShape == Init => Shape
<1> SUFFICES ASSUME Init PROVE Shape
  OBVIOUS
<1>1. Empty \in Partial(Entry) /\ Empty \in Partial(Slot)
  <2>1. \A R : Empty \in [{} -> R]
    BY DEF Empty
  <2> QED
    BY <2>1 DEF Partial
<1> QED
  BY <1>1, ConstantsAssumption DEF Init, Shape, WorkerLabels

LEMMA ControlShape ==
    ASSUME Shape, ControlStep
    PROVE  Shape'
<1> USE DEF Shape
<1>1. CASE LoopTop
  BY <1>1 DEF LoopTop, topicVars
<1>2. CASE Poll
  <2>1. <<>> \in Seq(Requests)
    OBVIOUS
  <2>2. UNCHANGED <<req, start, topics, index, consumers, wpc, wtodo, wcur, wmeta>>
    BY <1>2 DEF Poll, topicVars
  <2>3. mainq' \in Seq(Requests) /\ pending' \in Seq(Requests)
    BY <1>2, <2>1 DEF Poll
  <2>4. ctl' \in {"dispatch", "top"}
    BY <1>2 DEF Poll
  <2> QED
    BY <2>2, <2>3, <2>4
<1>3. CASE Dispatch
  <2>1. pending # <<>> => Head(pending) \in Requests /\ Tail(pending) \in Seq(Requests)
    OBVIOUS
  <2>2. UNCHANGED <<mainq, start, topics, index, consumers, wpc, wtodo, wcur, wmeta>>
    BY <1>3 DEF Dispatch, topicVars
  <2>3. pending' \in Seq(Requests)
    BY <1>3, <2>1 DEF Dispatch
  <2>4. /\ ctl' \in {"create", "subscribe", "store", "register"} =>
              req' \in Requests
        /\ ctl' \in {"subscribe", "store", "register"} => req'.cmd = "subscribe"
    BY <1>3, <2>1 DEF Dispatch, Requests
  <2> QED
    BY <2>2, <2>3, <2>4
<1>4. CASE Create
  <2>1. TopicOf[req.by] \in Topics
    BY <1>4, ConstantsAssumption DEF Create, Requests
  <2> QED
    BY <1>4, <2>1 DEF Create, Answer, WorkerLabels
<1>5. CASE LookUp
  BY <1>5 DEF LookUp, Answer, topicVars
<1>6. CASE Subscribe
  <2>1. req \in Requests /\ req.cmd = "subscribe"
    BY <1>6 DEF Subscribe
  <2>2. start' \in Nat
    <3> DEFINE t == TopicOf[req.by]
               n == NameOf[req.by]
    <3>1. req.offset \in Int
      BY <2>1, RequestFacts
    <3>2. n \in DOMAIN index => index[n].offset \in Nat
      <4>1. n \in DOMAIN index => index[n] \in Entry
        BY PartialLemma
      <4> QED
        BY <4>1 DEF Entry
    <3>3. StartOffset(t, n) \in Nat
      BY <3>1, <3>2 DEF StartOffset
    <3> QED
      BY <1>6, <3>3 DEF Subscribe, Answer
  <2> QED
    BY <1>6, <2>1, <2>2 DEF Subscribe, Answer, topicVars
<1>7. CASE StoreMeta
  <2>1. req \in Requests /\ req.cmd = "subscribe"
    BY <1>7 DEF StoreMeta
  <2>2. [topic |-> TopicOf[req.by], offset |-> start] \in Entry
    BY <2>1, RequestFacts DEF Entry
  <2>3. index' \in Partial(Entry)
    BY <1>7, <2>1, <2>2, RequestFacts, PutLemma DEF StoreMeta
  <2> QED
    BY <1>7, <2>1, <2>3 DEF StoreMeta, topicVars
<1>8. CASE Register
  <2>1. req \in Requests /\ req.cmd = "subscribe"
    BY <1>8 DEF Register
  <2> DEFINE t == TopicOf[req.by]
             v == [offset |-> start, from |-> start, fd |-> 0,
                   wants |-> PrefixOf[req.by]]
  <2>2. v \in Slot /\ t \in Topics
    BY <2>1, RequestFacts DEF Slot
  <2>3. Put(consumers[t], NameOf[req.by], v) \in Partial(Slot)
    <3>1. consumers[t] \in Partial(Slot)
      BY <2>2
    <3>2. NameOf[req.by] \in Names
      BY <2>1, RequestFacts
    <3> HIDE DEF v
    <3> QED
      BY <2>2, <3>1, <3>2, PutLemma
  <2>4. consumers' \in [Topics -> Partial(Slot)]
    BY <1>8, <2>2, <2>3 DEF Register
  <2> QED
    BY <1>8, <2>4 DEF Register, Answer
<1>9. CASE Reply
  BY <1>9 DEF Reply, topicVars
<1>10. CASE Unregister
  <2>1. \A t \in Topics : \A n : Drop(consumers[t], n) \in Partial(Slot)
    BY DropLemma
  <2>2. \/ UNCHANGED consumers
        \/ \E t, n : consumers' = [consumers EXCEPT ![t] = Drop(consumers[t], n)]
    BY <1>10 DEF Unregister
  <2>3. consumers' \in [Topics -> Partial(Slot)]
    BY <2>1, <2>2
  <2> QED
    BY <1>10, <2>3 DEF Unregister
<1>11. CASE StopTopic
  BY <1>11 DEF StopTopic, requestVars
<1>12. CASE DestroyTopics
  BY <1>12 DEF DestroyTopics, topicVars
<1> QED
  BY <1>1, <1>2, <1>3, <1>4, <1>5, <1>6, <1>7, <1>8, <1>9, <1>10, <1>11, <1>12
  DEF ControlStep

\* Writing one field of a slot keeps the slots what they are.
LEMMA SlotLemma ==
    ASSUME NEW c \in [Topics -> Partial(Slot)], NEW t \in Topics,
           NEW n \in DOMAIN c[t]
    PROVE  /\ n \in Names /\ c[t][n] \in Slot
           /\ \A s \in {0} \cup Sessions :
                 [c EXCEPT ![t][n].fd = s] \in [Topics -> Partial(Slot)]
           /\ [c EXCEPT ![t][n].offset = @ + 1] \in [Topics -> Partial(Slot)]
<1>1. c[t] \in Partial(Slot) /\ n \in Names /\ c[t][n] \in Slot
  BY PartialLemma
<1>2. \A s \in {0} \cup Sessions : [c[t][n] EXCEPT !.fd = s] \in Slot
  BY <1>1 DEF Slot
<1>3. [c[t][n] EXCEPT !.offset = @ + 1] \in Slot
  BY <1>1 DEF Slot
<1>4. \A v \in Slot : [c EXCEPT ![t] = [c[t] EXCEPT ![n] = v]]
                          \in [Topics -> Partial(Slot)]
  BY <1>1, PartialLemma
<1> QED
  BY <1>1, <1>2, <1>3, <1>4

\* Neither a new pipe nor an offset one higher changes anything else.
LEMMA FieldLemma ==
    ASSUME NEW c \in [Topics -> Partial(Slot)], NEW t, NEW n, NEW s
    PROVE  /\ \A u \in Topics :
                 /\ DOMAIN [c EXCEPT ![t][n].fd = s][u] = DOMAIN c[u]
                 /\ DOMAIN [c EXCEPT ![t][n].offset = @ + 1][u] = DOMAIN c[u]
           /\ \A u \in Topics : \A m \in DOMAIN c[u] :
                 /\ [c EXCEPT ![t][n].fd = s][u][m].offset = c[u][m].offset
                 /\ [c EXCEPT ![t][n].offset = @ + 1][u][m].offset
                       = IF u = t /\ m = n THEN c[u][m].offset + 1
                                          ELSE c[u][m].offset
<1>1. ASSUME NEW u \in Topics, NEW m \in DOMAIN c[u]
      PROVE  c[u] \in Partial(Slot) /\ c[u][m] \in Slot
  BY PartialLemma
<1>2. \A u \in Topics : DOMAIN [c EXCEPT ![t][n].fd = s][u] = DOMAIN c[u]
  OBVIOUS
<1>3. \A u \in Topics : DOMAIN [c EXCEPT ![t][n].offset = @ + 1][u] = DOMAIN c[u]
  OBVIOUS
<1>4. \A u \in Topics : \A m \in DOMAIN c[u] :
         [c EXCEPT ![t][n].fd = s][u][m].offset = c[u][m].offset
  BY <1>1 DEF Slot
<1>5. \A u \in Topics : \A m \in DOMAIN c[u] :
         [c EXCEPT ![t][n].offset = @ + 1][u][m].offset
             = IF u = t /\ m = n THEN c[u][m].offset + 1 ELSE c[u][m].offset
  BY <1>1 DEF Slot
<1> QED
  BY <1>2, <1>3, <1>4, <1>5

LEMMA DomainLemma ==
    ASSUME consumers \in [Topics -> Partial(Slot)], NEW t, NEW n, NEW s,
           \/ consumers' = [consumers EXCEPT ![t][n].fd = s]
           \/ consumers' = [consumers EXCEPT ![t][n].offset = @ + 1]
    PROVE  \A u \in Topics : DOMAIN consumers'[u] = DOMAIN consumers[u]
<1>1. CASE consumers' = [consumers EXCEPT ![t][n].fd = s]
  BY <1>1, FieldLemma
<1>2. CASE consumers' = [consumers EXCEPT ![t][n].offset = @ + 1]
  BY <1>2, FieldLemma
<1> QED
  BY <1>1, <1>2

LEMMA WorkerShape ==
    ASSUME Shape, Iteration, Indexed, NEW t \in Topics, WorkerStep(t)
    PROVE  Shape'
<1> USE DEF Shape, WorkerGoto, WorkerLabels
<1>1. CASE Wake(t)
  <2>1. Connected(t) \in SUBSET Names /\ Backlog(t) \in SUBSET Names
    BY PartialLemma DEF Connected, Backlog
  <2> QED
    BY <1>1, <2>1, ZenonT(30) DEF Wake, requestVars
<1>2. CASE Visit(t)
  <2>1. wtodo' \in [Topics -> SUBSET Names]
    BY <1>2 DEF Visit
  <2>2. wcur' \in [Topics -> Names \cup {"none"}]
    <3>1. ASSUME NEW n \in wtodo[t], wcur' = [wcur EXCEPT ![t] = n]
          PROVE  wcur' \in [Topics -> Names \cup {"none"}]
      <4>1. n \in Names
        OBVIOUS
      <4> QED
        BY <3>1, <4>1
    <3>2. CASE wcur' = [wcur EXCEPT ![t] = "none"]
      BY <3>2
    <3> QED
      BY <1>2, <3>1, <3>2 DEF Visit
  <2> QED
    BY <1>2, <2>1, <2>2 DEF Visit, requestVars
<1>3. CASE Deliver(t)
  <2> DEFINE n == wcur[t]
  <2>1. n \in DOMAIN consumers[t]
    BY <1>3 DEF Deliver, Iteration, IteratorValid
  <2>2. \/ consumers' = [consumers EXCEPT ![t][n].fd = 0]
        \/ consumers' = [consumers EXCEPT ![t][n].offset = @ + 1]
    BY <1>3 DEF Deliver, SetFd
  <2>3. consumers' \in [Topics -> Partial(Slot)]
    <3>1. [consumers EXCEPT ![t][n].fd = 0] \in [Topics -> Partial(Slot)]
      BY <2>1, SlotLemma
    <3>2. [consumers EXCEPT ![t][n].offset = @ + 1] \in [Topics -> Partial(Slot)]
      BY <2>1, SlotLemma
    <3> QED
      BY <2>2, <3>1, <3>2
  <2>4. wpc' \in [Topics -> WorkerLabels]
    BY <1>3 DEF Deliver
  <2> QED
    BY <1>3, <2>3, <2>4 DEF Deliver, requestVars
<1>4. CASE PersistGet(t)
  <2>1. wcur[t] \in DOMAIN index
    BY <1>4 DEF PersistGet, Iteration, IteratorValid, Indexed
  <2>2. index[wcur[t]] \in Entry
    BY <2>1, PartialLemma
  <2> QED
    BY <1>4, <2>2 DEF PersistGet, requestVars
<1>5. CASE PersistSet(t)
  <2> DEFINE n == wcur[t]
  <2>1. n \in DOMAIN consumers[t] /\ n \in Names
    BY <1>5, PartialLemma DEF PersistSet, Iteration, IteratorValid
  <2>2. consumers[t][n].offset \in Nat
    BY <2>1, SlotLemma DEF Slot
  <2>3. [wmeta[t] EXCEPT !.offset = consumers[t][n].offset] \in Entry
    BY <1>5, <2>2 DEF Entry, PersistSet
  <2>4. index' \in Partial(Entry)
    <3>1. index \in Partial(Entry)
      OBVIOUS
    <3>2. Put(index, n, [wmeta[t] EXCEPT !.offset = consumers[t][n].offset])
             \in Partial(Entry)
      BY <2>1, <2>3, <3>1, PutLemma
    <3> QED
      BY <1>5, <3>2 DEF PersistSet
  <2> QED
    BY <1>5, <2>4 DEF PersistSet, requestVars
<1>6. CASE SendSentinel(t)
  <2>1. ASSUME NEW n \in wtodo[t], SetFd(t, n, 0)
        PROVE  consumers' \in [Topics -> Partial(Slot)]
    <3>1. n \in DOMAIN consumers[t]
      BY DEF Iteration, IteratorValid
    <3> QED
      BY <2>1, <3>1, SlotLemma DEF SetFd
  <2>2. consumers' \in [Topics -> Partial(Slot)]
    BY <1>6, <2>1 DEF SendSentinel
  <2>3. /\ UNCHANGED wtodo \/ \E n : wtodo' = [wtodo EXCEPT ![t] = wtodo[t] \ {n}]
        /\ UNCHANGED wpc \/ wpc' = [wpc EXCEPT ![t] = "exited"]
    BY <1>6 DEF SendSentinel, WorkerGoto
  <2>4. wtodo' \in [Topics -> SUBSET Names]
    BY <2>3
  <2>5. wpc' \in [Topics -> WorkerLabels]
    BY <2>3 DEF WorkerLabels
  <2> QED
    BY <1>6, <2>2, <2>4, <2>5 DEF SendSentinel, requestVars
<1> QED
  BY <1>1, <1>2, <1>3, <1>4, <1>5, <1>6 DEF WorkerStep

LEMMA OpenerShape ==
    ASSUME Shape, NEW s \in Sessions, OpenerStep(s)
    PROVE  Shape'
<1> USE DEF Shape
<1>1. CASE OpenForWriting(s)
  BY <1>1 DEF OpenForWriting, requestVars, topicVars
<1>2. CASE Verify(s)
  BY <1>2 DEF Verify, requestVars, topicVars
<1>3. CASE Attach(s)
  <2> DEFINE t == TopicOf[ofor[s]]
             n == NameOf[ofor[s]]
  <2>1. CASE t \in Topics /\ Active(t, n)
    <3>1. [consumers EXCEPT ![t][n].fd = s] \in [Topics -> Partial(Slot)]
      BY <2>1, SlotLemma DEF Active
    <3>2. consumers' \in [Topics -> Partial(Slot)]
      BY <1>3, <2>1, <3>1 DEF Attach, SetFd
    <3> QED
      BY <1>3, <3>2 DEF Attach, requestVars
  <2>2. CASE t \notin Topics \/ ~Active(t, n)
    <3>1. UNCHANGED consumers
      BY <1>3, <2>2 DEF Attach, SetFd
    <3> QED
      BY <1>3, <3>1 DEF Attach, requestVars
  <2> QED
    BY <2>1, <2>2
<1> QED
  BY <1>1, <1>2, <1>3 DEF OpenerStep

LEMMA ExitShape ==
    ASSUME Shape, Exit
    PROVE  Shape'
<1>1. <<>> \in Seq(Requests)
  OBVIOUS
<1> QED
  BY <1>1 DEF Shape, Exit, WorkerLabels

LEMMA NextShape ==
    ASSUME Shape, Iteration, Indexed, [Next]_vars
    PROVE  Shape'
<1>1. CASE ClientStep
  <2>1. UNCHANGED <<core, pending>>
    BY <1>1, ClientCore
  <2>2. mainq' \in Seq(Requests)
    BY <1>1, ClientRequests DEF Shape
  <2> QED
    BY <2>1, <2>2 DEF core, Shape
<1>2. CASE Sigterm \/ UNCHANGED vars
  BY <1>2 DEF Sigterm, vars, requestVars, topicVars, Shape
<1> QED
  BY <1>1, <1>2, ControlShape, OpenerShape, WorkerShape, ExitShape
  DEF Next, ClientStep

-----------------------------------------------------------------------------
(* No consumer disappears under the worker's iteration.                    *)

LEMMA ControlIteration ==
    ASSUME Shape, Iteration, ControlStep
    PROVE  Iteration'
<1> USE DEF Iteration, IteratorValid, MuFree
<1>1. CASE LoopTop \/ Poll \/ Dispatch \/ LookUp \/ Subscribe \/ StoreMeta
           \/ Reply \/ StopTopic \/ DestroyTopics
  BY <1>1 DEF LoopTop, Poll, Dispatch, LookUp, Subscribe, StoreMeta, Reply,
              StopTopic, DestroyTopics, topicVars
<1>2. CASE Create
  BY <1>2 DEF Create, Shape
<1>3. CASE Register
  <2>1. \A t \in Topics : DOMAIN consumers[t] \subseteq DOMAIN consumers'[t]
    BY <1>3 DEF Register, Shape, Put
  <2> QED
    BY <1>3, <2>1 DEF Register
<1>4. CASE Unregister
  <2>1. \A t \in Topics : ~MuFree(t) => consumers'[t] = consumers[t]
    BY <1>4 DEF Unregister, Shape
  <2>2. UNCHANGED <<topics, wpc, wtodo, wcur>>
    BY <1>4 DEF Unregister
  <2> QED
    BY <2>1, <2>2
<1> QED
  BY <1>1, <1>2, <1>3, <1>4 DEF ControlStep

LEMMA WorkerIteration ==
    ASSUME Shape, Iteration, NEW t \in Topics, WorkerStep(t)
    PROVE  Iteration'
<1> USE DEF Iteration, IteratorValid, MuFree, Shape, WorkerGoto
<1>1. CASE Wake(t)
  <2>1. wtodo' = [wtodo EXCEPT ![t] = wtodo'[t]]
    BY <1>1 DEF Wake
  <2>2. wtodo'[t] \subseteq DOMAIN consumers[t]
    BY <1>1 DEF Wake, Connected, Backlog
  <2>3. /\ wpc' = [wpc EXCEPT ![t] = wpc'[t]] /\ wpc'[t] \in {"eot", "loop"}
        /\ wpc[t] = "wait" /\ UNCHANGED <<topics, consumers, wcur>>
    BY <1>1 DEF Wake
  <2> QED
    BY <2>1, <2>2, <2>3
<1>2. CASE Visit(t)
  <2>1. CASE wtodo[t] = {}
    BY <1>2, <2>1 DEF Visit
  <2>2. ASSUME NEW n \in wtodo[t],
               /\ wpc[t] = "loop" /\ UNCHANGED <<topics, consumers>>
               /\ wcur' = [wcur EXCEPT ![t] = n]
               /\ wtodo' = [wtodo EXCEPT ![t] = wtodo[t] \ {n}]
               /\ wpc' = [wpc EXCEPT ![t] = "write"]
        PROVE  Iteration'
    BY <2>2
  <2> QED
    BY <1>2, <2>1, <2>2 DEF Visit
<1>3. CASE Deliver(t)
  <2>1. \A u \in Topics : DOMAIN consumers'[u] = DOMAIN consumers[u]
    <3>1. \/ consumers' = [consumers EXCEPT ![t][wcur[t]].fd = 0]
          \/ consumers' = [consumers EXCEPT ![t][wcur[t]].offset = @ + 1]
      BY <1>3 DEF Deliver, SetFd
    <3> QED
      BY <3>1, DomainLemma
  <2> QED
    BY <1>3, <2>1 DEF Deliver
<1>4. CASE PersistGet(t)
  BY <1>4 DEF PersistGet
<1>5. CASE PersistSet(t)
  BY <1>5 DEF PersistSet
<1>6. CASE SendSentinel(t)
  <2>1. \A u \in Topics : DOMAIN consumers'[u] = DOMAIN consumers[u]
    <3>1. \/ UNCHANGED consumers
          \/ \E n \in wtodo[t] : consumers' = [consumers EXCEPT ![t][n].fd = 0]
      BY <1>6 DEF SendSentinel, SetFd
    <3>2. ASSUME NEW n, consumers' = [consumers EXCEPT ![t][n].fd = 0]
          PROVE  \A u \in Topics : DOMAIN consumers'[u] = DOMAIN consumers[u]
      BY <3>2, DomainLemma
    <3> QED
      BY <3>1, <3>2
  <2>2. \/ wtodo[t] = {} /\ wpc' = [wpc EXCEPT ![t] = "exited"] /\ wtodo' = wtodo
        \/ \E n \in wtodo[t] : wtodo' = [wtodo EXCEPT ![t] = @ \ {n}] /\ wpc' = wpc
    BY <1>6 DEF SendSentinel
  <2>3. wpc[t] = "eot" /\ UNCHANGED <<topics, wcur>>
    BY <1>6 DEF SendSentinel
  <2> QED
    BY <2>1, <2>2, <2>3, SMTT(30)
<1> QED
  BY <1>1, <1>2, <1>3, <1>4, <1>5, <1>6 DEF WorkerStep

LEMMA NextIteration ==
    ASSUME Shape, Iteration, [Next]_vars
    PROVE  Iteration'
<1> USE DEF Iteration, IteratorValid, MuFree
<1>1. CASE ClientStep
  <2>1. UNCHANGED <<core, pending>>
    BY <1>1, ClientCore
  <2> QED
    BY <2>1 DEF core
<1>2. CASE \E s \in Sessions : OpenerStep(s)
  <2>1. \A t \in Topics : DOMAIN consumers'[t] = DOMAIN consumers[t]
    <3>1. PICK s \in Sessions : OpenerStep(s)
      BY <1>2
    <3>2. \/ UNCHANGED consumers
          \/ consumers' = [consumers EXCEPT ![TopicOf[ofor[s]]][NameOf[ofor[s]]].fd = s]
      BY <3>1 DEF OpenerStep, OpenForWriting, Verify, Attach, SetFd, topicVars
    <3> QED
      BY <3>2, DomainLemma DEF Shape
  <2> QED
    BY <1>2, <2>1 DEF OpenerStep, OpenForWriting, Verify, Attach, topicVars
<1>3. CASE Sigterm \/ UNCHANGED vars
  BY <1>3 DEF Sigterm, vars, topicVars
<1>4. CASE Exit
  BY <1>4 DEF Exit
<1> QED
  BY <1>1, <1>2, <1>3, <1>4, ControlIteration, WorkerIteration
  DEF Next, ClientStep

\* Removing a consumer from a topic changes no consumer that stays.
LEMMA RemovalLemma ==
    ASSUME consumers \in [Topics -> Partial(Slot)],
           Unregister
    PROVE  \A u \in Topics : /\ DOMAIN consumers'[u] \subseteq DOMAIN consumers[u]
                             /\ \A m \in DOMAIN consumers'[u] :
                                   consumers'[u][m] = consumers[u][m]
<1>1. \/ UNCHANGED consumers
      \/ \E t, n : consumers' = [consumers EXCEPT ![t] = Drop(consumers[t], n)]
  BY DEF Unregister
<1>2. ASSUME NEW t, NEW n, NEW u \in Topics,
             consumers' = [consumers EXCEPT ![t] = Drop(consumers[t], n)]
      PROVE  /\ DOMAIN consumers'[u] \subseteq DOMAIN consumers[u]
             /\ \A m \in DOMAIN consumers'[u] : consumers'[u][m] = consumers[u][m]
  <2>1. CASE u = t
    <3>1. consumers'[u] = Drop(consumers[u], n)
      BY <1>2, <2>1
    <3> QED
      BY <3>1 DEF Drop
  <2>2. CASE u # t
    <3>1. consumers'[u] = consumers[u]
      BY <1>2, <2>2
    <3> QED
      BY <3>1
  <2> QED
    BY <2>1, <2>2
<1>3. CASE UNCHANGED consumers
  BY <1>3
<1> QED
  BY <1>1, <1>2, <1>3

LEMMA NextIndexed ==
    ASSUME Shape, Iteration, Indexed, [Next]_vars
    PROVE  Indexed'
<1> USE DEF Indexed
<1>1. CASE UNCHANGED <<consumers, index>> /\ (ctl' = "register" => UNCHANGED <<ctl, req>>)
  BY <1>1
<1>2. CASE StoreMeta
  <2>1. req \in Requests /\ req.cmd = "subscribe"
    BY <1>2 DEF StoreMeta, Shape
  <2>2. DOMAIN index' = DOMAIN index \cup {NameOf[req.by]}
    BY <1>2 DEF StoreMeta, Put
  <2> QED
    BY <1>2, <2>2 DEF StoreMeta, topicVars
<1>3. CASE Register
  <2>1. \A t \in Topics : DOMAIN consumers'[t] \subseteq DOMAIN consumers[t] \cup {NameOf[req.by]}
    BY <1>3 DEF Register, Put, Shape
  <2> QED
    BY <1>3, <2>1 DEF Register, Answer
<1>4. CASE Unregister
  <2>1. \A t \in Topics : DOMAIN consumers'[t] \subseteq DOMAIN consumers[t]
    BY <1>4, RemovalLemma DEF Shape
  <2> QED
    BY <1>4, <2>1 DEF Unregister
<1>5. CASE \E t \in Topics : Deliver(t) \/ SendSentinel(t)
  <2>1. PICK t \in Topics : Deliver(t) \/ SendSentinel(t)
    BY <1>5
  <2>2. \/ UNCHANGED consumers
        \/ \E n : consumers' = [consumers EXCEPT ![t][n].fd = 0]
        \/ \E n : consumers' = [consumers EXCEPT ![t][n].offset = @ + 1]
    BY <2>1 DEF Deliver, SendSentinel, SetFd
  <2>3. \A u \in Topics : DOMAIN consumers'[u] = DOMAIN consumers[u]
    <3>1. ASSUME NEW n, \/ consumers' = [consumers EXCEPT ![t][n].fd = 0]
                       \/ consumers' = [consumers EXCEPT ![t][n].offset = @ + 1]
          PROVE  \A u \in Topics : DOMAIN consumers'[u] = DOMAIN consumers[u]
      <4>1. consumers \in [Topics -> Partial(Slot)]
        BY DEF Shape
      <4> QED
        BY <3>1, <4>1, DomainLemma
    <3> QED
      BY <2>2, <3>1
  <2> QED
    BY <2>1, <2>3 DEF Deliver, SendSentinel, requestVars
<1>6. CASE \E t \in Topics : PersistSet(t)
  <2>1. PICK t \in Topics : PersistSet(t)
    BY <1>6
  <2>2. DOMAIN index \subseteq DOMAIN index'
    BY <2>1 DEF PersistSet, Put
  <2> QED
    BY <2>1, <2>2 DEF PersistSet, requestVars
<1>7. CASE \E s \in Sessions : Attach(s)
  <2>1. PICK s \in Sessions : Attach(s)
    BY <1>7
  <2>2. \/ UNCHANGED consumers
        \/ consumers' = [consumers EXCEPT ![TopicOf[ofor[s]]][NameOf[ofor[s]]].fd = s]
    BY <2>1 DEF Attach, SetFd
  <2>3. \A u \in Topics : DOMAIN consumers'[u] = DOMAIN consumers[u]
    BY <2>2, DomainLemma DEF Shape
  <2> QED
    BY <2>1, <2>3 DEF Attach, requestVars
<1>8. CASE ClientStep
  BY <1>8, ClientCore DEF core
<1>9. CASE Create \/ LoopTop \/ Poll \/ LookUp \/ Subscribe \/ Reply
           \/ StopTopic \/ DestroyTopics \/ Sigterm \/ Exit \/ UNCHANGED vars
  BY <1>1, <1>9
  DEF Create, LoopTop, Poll, LookUp, Subscribe, Reply, StopTopic,
      DestroyTopics, Sigterm, Exit, Answer, vars, topicVars, requestVars
<1>10. CASE Dispatch
  <2>1. pending # <<>> => Head(pending) \in Requests
    BY DEF Shape
  <2>2. ctl' # "register"
    BY <1>10, <2>1 DEF Dispatch, Requests
  <2> QED
    BY <1>10, <2>2 DEF Dispatch, topicVars
<1>11. CASE \E t \in Topics : Wake(t) \/ Visit(t) \/ PersistGet(t)
  BY <1>11 DEF Wake, Visit, PersistGet, requestVars
<1>12. CASE \E s \in Sessions : OpenForWriting(s) \/ Verify(s)
  BY <1>12 DEF OpenForWriting, Verify, requestVars, topicVars
<1> QED
  BY <1>2, <1>3, <1>4, <1>5, <1>6, <1>7, <1>8, <1>9, <1>10, <1>11, <1>12
  DEF Next, ControlStep, OpenerStep, WorkerStep, ClientStep

Safe == Shape /\ Iteration /\ Indexed

LEMMA InitSafe == Init => Safe
<1> SUFFICES ASSUME Init PROVE Iteration /\ Indexed
  BY InitShape DEF Safe
<1> QED
  BY DEF Init, Iteration, IteratorValid, MuFree, Indexed, Empty

LEMMA NextSafe == Safe /\ [Next]_vars => Safe'
BY NextShape, NextIteration, NextIndexed DEF Safe

\* The worker never visits a consumer that has been unregistered under it:
\* unregister_consumer waits for the end of the round.
THEOREM IteratorSafe == Spec => []IteratorValid
<1>1. Safe => IteratorValid
  BY DEF Safe, Iteration
<1> QED
  BY <1>1, InitSafe, NextSafe, PTL DEF Spec

-----------------------------------------------------------------------------
(* The client index, when every identifier keeps to one topic.             *)

\* Subscribers that use one name subscribe to one topic.
OneTopicEach ==
    \A p, q \in Subscribers : NameOf[p] = NameOf[q] => TopicOf[p] = TopicOf[q]

\* The identifiers the server knows are those of its clients.
Owned(n, t) == \E p \in Subscribers : NameOf[p] = n /\ TopicOf[p] = t
Owners ==
    /\ \A t \in Topics : \A n \in DOMAIN consumers[t] : Owned(n, t)
    /\ \A n \in DOMAIN index : Owned(n, index[n].topic)

InStep(t, n) ==
    /\ index[n].topic = t
    /\ \/ index[n].offset = consumers[t][n].offset
       \/ /\ wpc[t] \in {"get", "set"} /\ wcur[t] = n
          /\ index[n].offset = consumers[t][n].offset - 1

\* The index and the topics agree, and what the control thread and a worker
\* have read of the index, to write it back, is still there.
Sync ==
    /\ \A t \in Topics : \A n \in DOMAIN consumers[t] : ~Down => InStep(t, n)
    /\ \A t \in Topics : wpc[t] = "set" => wmeta[t] = index[wcur[t]]
    /\ Down => \A t \in Topics : wpc[t] = "exited"
    /\ ctl \in {"store", "register"} =>
          NameOf[req.by] \notin DOMAIN consumers[TopicOf[req.by]]
    /\ ctl = "store" /\ req.offset < 0 /\ NameOf[req.by] \in DOMAIN index =>
          start = index[NameOf[req.by]].offset
    /\ ctl = "register" =>
          index[NameOf[req.by]] = [topic |-> TopicOf[req.by], offset |-> start]

LEMMA OwnedOnce ==
    ASSUME OneTopicEach, NEW n, NEW t, NEW u, Owned(n, t), Owned(n, u)
    PROVE  t = u
BY DEF OneTopicEach, Owned

\* The name that subscribes is registered nowhere.
LEMMA Newcomer ==
    ASSUME OneTopicEach, Shape, Owners, Sync, ctl \in {"store", "register"},
           NEW t \in Topics
    PROVE  /\ Owned(NameOf[req.by], TopicOf[req.by])
           /\ NameOf[req.by] \notin DOMAIN consumers[t]
<1>1. req.by \in Subscribers
  BY RequestFacts DEF Shape
<1>2. Owned(NameOf[req.by], TopicOf[req.by])
  BY <1>1 DEF Owned
<1>3. ASSUME NameOf[req.by] \in DOMAIN consumers[t]
      PROVE  FALSE
  <2>1. Owned(NameOf[req.by], t)
    BY <1>3 DEF Owners
  <2>2. t = TopicOf[req.by]
    BY <1>2, <2>1, OwnedOnce
  <2> QED
    BY <1>3, <2>2 DEF Sync
<1> QED
  BY <1>2, <1>3

-----------------------------------------------------------------------------
(* Steps that touch neither the index nor what the workers do.             *)

Still ==
    /\ UNCHANGED <<index, consumers, wpc, wcur, wmeta>>
    /\ ctl' \in {"store", "register"} => UNCHANGED <<ctl, req, start>>
    /\ Down' <=> Down

LEMMA StillSteps ==
    ASSUME Shape,
           \/ ClientStep \/ LoopTop \/ Poll \/ Dispatch \/ LookUp \/ Reply
           \/ StopTopic \/ DestroyTopics \/ Sigterm \/ UNCHANGED vars
           \/ \E s \in Sessions : OpenForWriting(s) \/ Verify(s)
    PROVE  Still
<1> USE DEF Still, Down
<1>1. CASE ClientStep
  BY <1>1, ClientCore DEF core
<1>2. CASE Dispatch
  <2>1. pending # <<>> => Head(pending) \in Requests
    BY DEF Shape
  <2>2. ctl' \in {"top", "subscribe", "produce", "create", "query", "disconnect"}
    BY <1>2, <2>1 DEF Dispatch, Requests
  <2> QED
    BY <1>2, <2>2 DEF Dispatch, topicVars
<1>3. CASE LoopTop \/ Poll \/ LookUp \/ Reply
  BY <1>3 DEF LoopTop, Poll, LookUp, Reply, Answer, topicVars
<1>4. CASE StopTopic \/ DestroyTopics \/ Sigterm \/ UNCHANGED vars
  BY <1>4 DEF StopTopic, DestroyTopics, Sigterm, vars, topicVars, requestVars
<1>5. CASE \E s \in Sessions : OpenForWriting(s) \/ Verify(s)
  BY <1>5 DEF OpenForWriting, Verify, topicVars, requestVars
<1> QED
  BY <1>1, <1>2, <1>3, <1>4, <1>5

LEMMA StillSync ==
    ASSUME Owners, Sync, Still
    PROVE  Owners' /\ Sync'
BY DEF Owners, Sync, Still, Owned, InStep, Down

-----------------------------------------------------------------------------
(* The steps of a SUBSCRIBE and a DISCONNECT.                              *)

LEMMA SubscribeSync ==
    ASSUME OneTopicEach, Shape, Owners, Sync, Subscribe
    PROVE  Owners' /\ Sync'
<1> DEFINE t == TopicOf[req.by]
           n == NameOf[req.by]
<1>1. req \in Requests /\ req.cmd = "subscribe"
  BY DEF Subscribe, Shape
<1>2. UNCHANGED <<index, consumers, wpc, wcur, wmeta, req>> /\ ~Down /\ ~Down'
  BY DEF Subscribe, topicVars, Answer, Down
<1>3. ctl' # "register"
  BY DEF Subscribe, Answer
<1>4. ASSUME ctl' = "store"
      PROVE  n \notin DOMAIN consumers[t] /\ start' = StartOffset(t, n)
  BY <1>4 DEF Subscribe, Answer, Active
<1>5. n \in DOMAIN index => index[n].topic = t
  <2>1. Owned(n, t)
    BY <1>1, RequestFacts DEF Owned
  <2> QED
    BY <2>1, OwnedOnce DEF Owners
<1>6. ctl' = "store" /\ req.offset < 0 /\ n \in DOMAIN index =>
         start' = index[n].offset
  BY <1>1, <1>4, <1>5, RequestFacts DEF StartOffset
<1> QED
  BY <1>2, <1>3, <1>4, <1>6 DEF Owners, Sync, Owned, InStep

LEMMA StoreMetaSync ==
    ASSUME OneTopicEach, Safe, Owners, Sync, StoreMeta
    PROVE  Owners' /\ Sync'
<1> DEFINE t == TopicOf[req.by]
           n == NameOf[req.by]
           v == [topic |-> t, offset |-> start]
<1>1. ctl = "store" /\ ctl' = "register" /\ ~Down /\ ~Down'
  BY DEF StoreMeta, Down
<1>2. UNCHANGED <<consumers, wpc, wcur, wmeta, req, start>>
  BY DEF StoreMeta, topicVars
<1>3. n \in Names /\ t \in Topics
  BY <1>1, RequestFacts DEF Safe, Shape
<1>4. v \in Entry
  BY <1>3 DEF Entry, Safe, Shape
<1>5. /\ DOMAIN index' = DOMAIN index \cup {n} /\ index'[n] = v
      /\ \A m \in DOMAIN index \ {n} : index'[m] = index[m]
  <2>1. index' = Put(index, n, v)
    BY DEF StoreMeta
  <2> QED
    BY <2>1 DEF Put
<1>6. Owned(n, t) /\ \A u \in Topics : n \notin DOMAIN consumers[u]
  BY <1>1, <1>3, Newcomer DEF Safe
<1>7. Owners'
  BY <1>2, <1>5, <1>6 DEF Owners, Owned
<1>8. \A u \in Topics : \A m \in DOMAIN consumers[u] : index'[m] = index[m]
  BY <1>5, <1>6 DEF Safe, Indexed
<1>9. \A u \in Topics : wpc[u] = "set" => wcur[u] \in DOMAIN consumers[u]
  BY DEF Safe, Iteration, IteratorValid
<1>10. \A u \in Topics : wpc[u] = "set" => index'[wcur[u]] = index[wcur[u]]
  BY <1>8, <1>9
<1>11. \A u \in Topics : \A m \in DOMAIN consumers'[u] : ~Down' => InStep(u, m)'
  BY <1>1, <1>2, <1>8 DEF Sync, InStep
<1>12. \A u \in Topics : wpc'[u] = "set" => wmeta'[u] = index'[wcur'[u]]
  BY <1>2, <1>10 DEF Sync
<1>13. ctl' = "register" => index'[n] = v
  BY <1>5
<1>14. Sync'
  BY <1>1, <1>2, <1>3, <1>6, <1>11, <1>12, <1>13 DEF Sync
<1> QED
  BY <1>7, <1>14

LEMMA RegisterSync ==
    ASSUME OneTopicEach, Safe, Owners, Sync, Register
    PROVE  Owners' /\ Sync'
<1> DEFINE t == TopicOf[req.by]
           n == NameOf[req.by]
<1>1. ctl = "register" /\ ctl' = "reply" /\ ~Down /\ ~Down'
  BY DEF Register, Answer, Down
<1>2. UNCHANGED <<index, wpc, wcur, wmeta, req>>
  BY DEF Register
<1>4. t \in Topics
  BY <1>1, RequestFacts DEF Safe, Shape
<1>3. Owned(n, t) /\ \A u \in Topics : n \notin DOMAIN consumers[u]
  BY <1>1, <1>4, Newcomer DEF Safe
<1>5. /\ \A u \in Topics \ {t} : consumers'[u] = consumers[u]
      /\ DOMAIN consumers'[t] = DOMAIN consumers[t] \cup {n}
      /\ consumers'[t][n].offset = start
      /\ \A m \in DOMAIN consumers[t] : consumers'[t][m] = consumers[t][m]
  BY <1>3, <1>4 DEF Register, Put, Safe, Shape
<1>6. Owners'
  BY <1>2, <1>3, <1>5 DEF Owners, Owned
<1>7. InStep(t, n)'
  BY <1>1, <1>2, <1>5 DEF Sync, InStep
<1>8. \A u \in Topics : \A m \in DOMAIN consumers'[u] : InStep(u, m)'
  <2> SUFFICES ASSUME NEW u \in Topics, NEW m \in DOMAIN consumers'[u]
               PROVE  InStep(u, m)'
    OBVIOUS
  <2>1. CASE u = t /\ m = n
    BY <1>2, <1>7, <2>1 DEF InStep
  <2>2. CASE ~(u = t /\ m = n)
    <3>1. m \in DOMAIN consumers[u] /\ consumers'[u][m] = consumers[u][m]
      BY <1>5, <2>2
    <3> QED
      BY <1>1, <1>2, <3>1 DEF Sync, InStep
  <2> QED
    BY <2>1, <2>2
<1>9. Sync'
  BY <1>1, <1>2, <1>8 DEF Sync
<1> QED
  BY <1>6, <1>9

LEMMA UnregisterSync ==
    ASSUME Safe, Owners, Sync, Unregister
    PROVE  Owners' /\ Sync'
<1>1. ctl = "disconnect" /\ ctl' = "dispatch" /\ ~Down /\ ~Down'
  BY DEF Unregister, Down
<1>2. UNCHANGED <<index, wpc, wcur, wmeta>>
  BY DEF Unregister
<1>3. \A u \in Topics : /\ DOMAIN consumers'[u] \subseteq DOMAIN consumers[u]
                        /\ \A m \in DOMAIN consumers'[u] :
                              consumers'[u][m] = consumers[u][m]
  BY RemovalLemma DEF Safe, Shape
<1>4. \A u \in Topics : \A m \in DOMAIN consumers'[u] : InStep(u, m)'
  BY <1>1, <1>2, <1>3 DEF Sync, InStep
<1> QED
  BY <1>1, <1>2, <1>3, <1>4 DEF Owners, Owned, Sync

-----------------------------------------------------------------------------
(* The worker.                                                             *)

\* A step of worker t may move the offset of the consumer it visits, as long
\* as this consumer stays in step; everybody else does.
LEMMA WorkerFrame ==
    ASSUME Safe, Owners, Sync, NEW t \in Topics, ~Down,
           UNCHANGED <<index, ctl, req, start>>,
           \A u \in Topics \ {t} : wpc'[u] = wpc[u] /\ wcur'[u] = wcur[u]
                                 /\ wmeta'[u] = wmeta[u],
           \A u \in Topics : /\ DOMAIN consumers'[u] = DOMAIN consumers[u]
                             /\ u # t => \A m \in DOMAIN consumers[u] :
                                   consumers'[u][m].offset = consumers[u][m].offset,
           wpc'[t] = "set" => wmeta'[t] = index[wcur'[t]],
           \A m \in DOMAIN consumers[t] : InStep(t, m)'
    PROVE  Owners' /\ Sync'
<1>1. \A u \in Topics : \A m \in DOMAIN consumers'[u] : InStep(u, m)'
  BY DEF Sync, InStep
<1>2. ctl \in {"store", "register"} => TopicOf[req.by] \in Topics
  BY RequestFacts DEF Safe, Shape
<1>3. ctl' \in {"store", "register"} =>
         NameOf[req'.by] \notin DOMAIN consumers'[TopicOf[req'.by]]
  BY <1>2 DEF Sync
<1>4. \A u \in Topics : wpc'[u] = "set" => wmeta'[u] = index'[wcur'[u]]
  BY DEF Sync
<1>5. ~Down'
  BY DEF Down
<1>6. Sync'
  BY <1>1, <1>3, <1>4, <1>5 DEF Sync
<1>7. Owners'
  BY DEF Owners, Owned
<1> QED
  BY <1>6, <1>7

LEMMA PersistSetSync ==
    ASSUME OneTopicEach, Safe, Owners, Sync, NEW t \in Topics, PersistSet(t),
           ~Down
    PROVE  Owners' /\ Sync'
<1> DEFINE n == wcur[t]
           off == consumers[t][n].offset
<1>1. n \in DOMAIN consumers[t] /\ n \in DOMAIN index /\ wpc[t] = "set"
  BY DEF PersistSet, Safe, Iteration, IteratorValid, Indexed
<1>2. wmeta[t] = index[n] /\ index[n].topic = t /\ index[n] \in Entry
  BY <1>1, PartialLemma DEF Sync, InStep, Safe, Shape
<1>3. /\ UNCHANGED <<consumers, wcur, ctl, req, start>> /\ wpc'[t] # "set"
      /\ \A u \in Topics \ {t} : wpc'[u] = wpc[u] /\ wmeta'[u] = wmeta[u]
  BY DEF PersistSet, WorkerGoto, requestVars, Safe, Shape
<1>4. /\ DOMAIN index' = DOMAIN index
      /\ index'[n] = [index[n] EXCEPT !.offset = off]
      /\ \A m \in DOMAIN index \ {n} : index'[m] = index[m]
  BY <1>1, <1>2 DEF PersistSet, Put
<1>5. index'[n].topic = t /\ index'[n].offset = off
  BY <1>2, <1>4 DEF Entry
<1>6. Owners'
  <2>1. \A m \in DOMAIN index : index'[m].topic = index[m].topic
    BY <1>2, <1>4, <1>5
  <2> QED
    BY <1>3, <1>4, <2>1 DEF Owners, Owned
<1>7. ASSUME NEW u \in Topics, n \in DOMAIN consumers[u]
      PROVE  u = t
  BY <1>1, <1>7, OwnedOnce DEF Owners
<1>8. ASSUME NEW u \in Topics, NEW m \in DOMAIN consumers[u]
      PROVE  InStep(u, m)'
  <2>1. CASE m = n
    BY <1>3, <1>5, <1>7, <2>1 DEF InStep
  <2>2. CASE m # n
    <3>1. index'[m] = index[m]
      BY <1>4, <2>2 DEF Safe, Indexed
    <3>2. InStep(u, m) /\ (u = t => index[m].offset = consumers[t][m].offset)
      BY <2>2 DEF Sync, InStep
    <3> QED
      BY <1>3, <3>1, <3>2 DEF InStep
  <2> QED
    BY <2>1, <2>2
<1>9. ASSUME NEW u \in Topics, wpc'[u] = "set"
      PROVE  wmeta'[u] = index'[wcur'[u]]
  <2>1. u # t /\ wpc[u] = "set" /\ wmeta'[u] = index[wcur[u]] /\ wcur'[u] = wcur[u]
    BY <1>3, <1>9 DEF Sync
  <2>2. wcur[u] \in DOMAIN consumers[u] /\ wcur[u] # n
    BY <1>7, <2>1 DEF Safe, Iteration, IteratorValid
  <2>3. wcur[u] \in DOMAIN index
    BY <2>2 DEF Safe, Indexed
  <2> QED
    BY <1>4, <2>1, <2>2, <2>3
<1>10. ctl \in {"store", "register"} => NameOf[req.by] # n
  BY <1>1, Newcomer DEF Safe
<1>11. ctl = "register" => NameOf[req.by] \in DOMAIN index
  BY DEF Safe, Indexed
<1>12. Sync'
  BY <1>3, <1>4, <1>8, <1>9, <1>10, <1>11 DEF Sync, Down
<1> QED
  BY <1>6, <1>12

LEMMA WorkerSync ==
    ASSUME OneTopicEach, Safe, Owners, Sync, NEW t \in Topics, WorkerStep(t)
    PROVE  Owners' /\ Sync'
<1> DEFINE n == wcur[t]
<1> USE DEF WorkerGoto
<1>0. ~Down
  <2>1. wpc[t] # "exited"
    BY DEF WorkerStep, Wake, Visit, Deliver, PersistGet, PersistSet, SendSentinel
  <2> QED
    BY <2>1 DEF Sync
<1>1. UNCHANGED <<ctl, req, start>>
  BY DEF WorkerStep, Wake, Visit, Deliver, PersistGet, PersistSet,
         SendSentinel, requestVars
<1>2. wpc[t] \in {"write", "get", "set"} => n \in DOMAIN consumers[t]
  BY DEF Safe, Iteration, IteratorValid
<1>3. wpc[t] \notin {"get", "set"} =>
         \A m \in DOMAIN consumers[t] :
            index[m].topic = t /\ index[m].offset = consumers[t][m].offset
  BY <1>0 DEF Sync, InStep
<1>4. CASE Wake(t) \/ Visit(t)
  <2>1. /\ UNCHANGED <<index, consumers, wmeta>>
        /\ wpc[t] \notin {"get", "set"} /\ wpc'[t] # "set"
        /\ \A u \in Topics \ {t} : wpc'[u] = wpc[u] /\ wcur'[u] = wcur[u]
    BY <1>4 DEF Wake, Visit, Safe, Shape
  <2>2. \A m \in DOMAIN consumers[t] : InStep(t, m)'
    BY <1>3, <2>1 DEF InStep
  <2> QED
    BY <1>0, <1>1, <2>1, <2>2, WorkerFrame
<1>5. CASE Deliver(t)
  <2>1. \/ /\ consumers' = [consumers EXCEPT ![t][n].fd = 0]
           /\ wpc'[t] = "loop"
        \/ /\ consumers' = [consumers EXCEPT ![t][n].offset = @ + 1]
           /\ wpc'[t] = "get"
    BY <1>5 DEF Deliver, SetFd, Safe, Shape
  <2>2. /\ UNCHANGED <<index, wmeta, wcur>> /\ wpc[t] = "write"
        /\ \A u \in Topics \ {t} : wpc'[u] = wpc[u]
    BY <1>5 DEF Deliver, Safe, Shape
  <2>3. /\ \A u \in Topics : DOMAIN consumers'[u] = DOMAIN consumers[u]
        /\ \A u \in Topics \ {t} : \A m \in DOMAIN consumers[u] :
              consumers'[u][m].offset = consumers[u][m].offset
        /\ \A m \in DOMAIN consumers[t] :
              \/ consumers'[t][m].offset = consumers[t][m].offset
              \/ /\ m = n /\ wpc'[t] = "get"
                 /\ consumers'[t][m].offset = consumers[t][m].offset + 1
    <3>1. CASE consumers' = [consumers EXCEPT ![t][n].fd = 0]
      BY <3>1, FieldLemma DEF Safe, Shape
    <3>2. CASE /\ consumers' = [consumers EXCEPT ![t][n].offset = @ + 1]
               /\ wpc'[t] = "get"
      BY <3>2, FieldLemma DEF Safe, Shape
    <3> QED
      BY <2>1, <3>1, <3>2
  <2>4. \A m \in DOMAIN consumers[t] : consumers[t][m].offset \in Int
    <3>1. \A m \in DOMAIN consumers[t] : consumers[t][m] \in Slot
      BY SlotLemma DEF Safe, Shape
    <3> QED
      BY <3>1 DEF Slot
  <2>5. \A m \in DOMAIN consumers[t] : InStep(t, m)'
    BY <1>3, <2>2, <2>3, <2>4 DEF InStep
  <2> QED
    BY <1>0, <1>1, <2>1, <2>2, <2>3, <2>5, WorkerFrame
<1>6. CASE PersistGet(t)
  <2>1. /\ UNCHANGED <<index, consumers, wcur>>
        /\ wpc[t] = "get" /\ wpc'[t] = "set" /\ wmeta'[t] = index[n]
        /\ \A u \in Topics \ {t} : wpc'[u] = wpc[u] /\ wmeta'[u] = wmeta[u]
    BY <1>6 DEF PersistGet, Safe, Shape
  <2>2. \A m \in DOMAIN consumers[t] : InStep(t, m)'
    BY <1>0, <2>1 DEF InStep, Sync
  <2> QED
    BY <1>0, <1>1, <2>1, <2>2, WorkerFrame
<1>7. CASE SendSentinel(t)
  <2>1. \/ UNCHANGED consumers
        \/ \E m : consumers' = [consumers EXCEPT ![t][m].fd = 0]
    BY <1>7 DEF SendSentinel, SetFd
  <2>2. /\ \A u \in Topics : DOMAIN consumers'[u] = DOMAIN consumers[u]
        /\ \A u \in Topics : \A m \in DOMAIN consumers[u] :
              consumers'[u][m].offset = consumers[u][m].offset
    <3>1. ASSUME NEW k, consumers' = [consumers EXCEPT ![t][k].fd = 0]
          PROVE  <2>2
      BY <3>1, FieldLemma DEF Safe, Shape
    <3> QED
      BY <2>1, <3>1
  <2>3. /\ UNCHANGED <<index, wmeta, wcur>>
        /\ wpc[t] = "eot" /\ wpc'[t] # "set"
        /\ \A u \in Topics \ {t} : wpc'[u] = wpc[u]
    BY <1>7 DEF SendSentinel, Safe, Shape
  <2>4. \A m \in DOMAIN consumers[t] : InStep(t, m)'
    BY <1>3, <2>2, <2>3 DEF InStep
  <2> QED
    BY <1>0, <1>1, <2>2, <2>3, <2>4, WorkerFrame
<1> QED
  BY <1>0, <1>4, <1>5, <1>6, <1>7, PersistSetSync DEF WorkerStep

-----------------------------------------------------------------------------
(* All together.                                                           *)

LEMMA AttachSync ==
    ASSUME Safe, Owners, Sync, NEW s \in Sessions, Attach(s)
    PROVE  Owners' /\ Sync'
<1>1. \/ UNCHANGED consumers
      \/ consumers' = [consumers EXCEPT ![TopicOf[ofor[s]]][NameOf[ofor[s]]].fd = s]
  BY DEF Attach, SetFd
<1>2. /\ \A u \in Topics : DOMAIN consumers'[u] = DOMAIN consumers[u]
      /\ \A u \in Topics : \A m \in DOMAIN consumers[u] :
            consumers'[u][m].offset = consumers[u][m].offset
  <2>1. ASSUME NEW u, NEW k, consumers' = [consumers EXCEPT ![u][k].fd = s]
        PROVE  <1>2
    BY <2>1, FieldLemma DEF Safe, Shape
  <2> QED
    BY <1>1, <2>1
<1>3. UNCHANGED <<index, wpc, wcur, wmeta, ctl, req, start>>
  BY DEF Attach, requestVars
<1>4. ctl \in {"store", "register"} => TopicOf[req.by] \in Topics
  BY RequestFacts DEF Safe, Shape
<1>5. \A u \in Topics : \A m \in DOMAIN consumers'[u] : ~Down' => InStep(u, m)'
  BY <1>2, <1>3 DEF Sync, InStep, Down
<1>6. Sync'
  BY <1>2, <1>3, <1>4, <1>5 DEF Sync, Down
<1> QED
  BY <1>2, <1>3, <1>6 DEF Owners, Owned

LEMMA NextSync ==
    ASSUME OneTopicEach, Safe, Owners, Sync, [Next]_vars
    PROVE  Owners' /\ Sync'
<1>1. CASE Create
  <2>1. /\ UNCHANGED <<index, consumers, wcur, wmeta, req, start>>
        /\ ~Down /\ ~Down' /\ ctl' = "reply"
    BY <1>1 DEF Create, Answer, Down
  <2>2. \A t \in Topics : \/ wpc'[t] = wpc[t]
                          \/ wpc'[t] = "wait" /\ wpc[t] \notin {"get", "set"}
    BY <1>1 DEF Create, Safe, Iteration, Shape
  <2>3. \A t \in Topics : \A n \in DOMAIN consumers[t] : InStep(t, n)'
    BY <2>1, <2>2 DEF Sync, InStep
  <2> QED
    BY <2>1, <2>2, <2>3 DEF Owners, Owned, Sync
<1>2. CASE Exit
  <2>1. /\ UNCHANGED <<index, consumers>> /\ Down'
        /\ \A t \in Topics : wpc'[t] = "exited"
    BY <1>2 DEF Exit, Down
  <2> QED
    BY <2>1 DEF Owners, Owned, Sync, Down
<1> QED
  BY <1>1, <1>2, StillSteps, StillSync, SubscribeSync, StoreMetaSync,
     RegisterSync, UnregisterSync, WorkerSync, AttachSync
  DEF Safe, Next, ControlStep, OpenerStep, ClientStep

LEMMA InitSync == Init => Owners /\ Sync
BY DEF Init, Owners, Sync, Empty, Down

IndexInv == Safe /\ Owners /\ Sync

LEMMA IndexInvariant ==
    ASSUME OneTopicEach
    PROVE  Spec => []IndexInv
<1>1. Init => IndexInv
  BY InitSafe, InitSync DEF IndexInv
<1>2. IndexInv /\ [Next]_vars => IndexInv'
  BY NextSafe, NextSync DEF IndexInv
<1> QED
  BY <1>1, <1>2, PTL DEF Spec

\* The client index agrees with the topics: what INFO answers and the next
\* SUBSCRIBE resumes from is what the worker has delivered, less at most the
\* message whose offset is being stored.
THEOREM IndexInSync ==
    ASSUME OneTopicEach
    PROVE  Spec => []InfoInSync
<1>1. IndexInv => InfoInSync
  BY DEF IndexInv, Safe, Shape, Sync, InStep, InfoInSync
<1> QED
  BY <1>1, IndexInvariant, PTL

\* When nobody asks for an offset, no committed offset ever goes back.
THEOREM NeverRegresses ==
    ASSUME OneTopicEach, Offsets = {-1}
    PROVE  Spec => CommittedNeverRegresses
<1> DEFINE Kept == \A n \in DOMAIN index : index'[n].offset >= index[n].offset
<1>1. ASSUME IndexInv, [Next]_vars
      PROVE  Kept
  <2> USE <1>1 DEF IndexInv, Safe
  <2>0. \A n \in DOMAIN index : index[n].offset \in Int
    <3>1. \A n \in DOMAIN index : index[n] \in Entry
      BY PartialLemma DEF Shape
    <3> QED
      BY <3>1 DEF Entry
  <2>1. CASE UNCHANGED index
    BY <2>0, <2>1
  <2>2. CASE StoreMeta
    <3> DEFINE n == NameOf[req.by]
    <3>1. \A m \in DOMAIN index \ {n} : index'[m] = index[m]
      BY <2>2 DEF StoreMeta, Put
    <3>2. index'[n].offset = start
      BY <2>2 DEF StoreMeta, Put
    <3>3. req.offset = -1
      BY <2>2 DEF StoreMeta, Shape, Requests
    <3>4. n \in DOMAIN index => start = index[n].offset
      BY <2>2, <3>3 DEF StoreMeta, Sync
    <3> QED
      BY <2>0, <3>1, <3>2, <3>4
  <2>3. ASSUME NEW t \in Topics, PersistSet(t)
        PROVE  Kept
    <3> DEFINE n == wcur[t]
    <3>1. n \in DOMAIN consumers[t] /\ n \in DOMAIN index /\ wpc[t] = "set"
      BY <2>3 DEF PersistSet, Iteration, IteratorValid, Indexed
    <3>2. ~Down
      BY <3>1 DEF Sync
    <3>3. /\ index[n].offset = consumers[t][n].offset
             \/ index[n].offset = consumers[t][n].offset - 1
          /\ wmeta[t] = index[n] /\ index[n] \in Entry
          /\ consumers[t][n].offset \in Int
      <4>1. consumers[t][n] \in Slot /\ index[n] \in Entry
        BY <3>1, SlotLemma, PartialLemma DEF Shape
      <4> QED
        BY <3>1, <3>2, <4>1 DEF Sync, InStep, Slot
    <3>4. index' = Put(index, n, [wmeta[t] EXCEPT !.offset = consumers[t][n].offset])
      BY <2>3 DEF PersistSet
    <3>5. \A m \in DOMAIN index \ {n} : index'[m] = index[m]
      BY <3>4 DEF Put
    <3>6. index'[n].offset = consumers[t][n].offset
      BY <3>3, <3>4 DEF Put, Entry
    <3> QED
      BY <2>0, <3>3, <3>5, <3>6
  <2>4. CASE ClientStep
    BY <2>1, <2>4, ClientCore DEF core
  <2>5. CASE ControlStep
    BY <2>1, <2>2, <2>5
    DEF ControlStep, LoopTop, Poll, Dispatch, Create, LookUp, Subscribe,
        Register, Reply, Unregister, StopTopic, DestroyTopics, requestVars
  <2>6. ASSUME NEW s \in Sessions, OpenerStep(s)
        PROVE  UNCHANGED index
    BY <2>6 DEF OpenerStep, OpenForWriting, Verify, Attach
  <2>7. ASSUME NEW t \in Topics, WorkerStep(t)
        PROVE  UNCHANGED index \/ PersistSet(t)
    BY <2>7 DEF WorkerStep, Wake, Visit, Deliver, PersistGet, SendSentinel
  <2>8. CASE Sigterm \/ Exit \/ UNCHANGED vars
    BY <2>1, <2>8 DEF Sigterm, Exit, vars
  <2> QED
    BY <2>1, <2>3, <2>4, <2>5, <2>6, <2>7, <2>8 DEF Next, ClientStep
<1> QED
  BY <1>1, IndexInvariant, PTL DEF Spec, CommittedNeverRegresses

-----------------------------------------------------------------------------
(* Names, pipes and who holds them.                                        *)

\* The control thread is busy with a request.
Handled == ctl \in {"create", "query", "produce", "subscribe", "store", "register",
                    "reply", "disconnect"}
Handling ==
    Handled => /\ req \in Requests
               /\ ctl \notin {"store", "register", "reply"} => req.cmd = ctl

Sent(q, p, cmd) == \E i \in 1..Len(q) : q[i].by = p /\ q[i].cmd = cmd
By(q, p) == \E i \in 1..Len(q) : q[i].by = p
Distinct(q) == \A i, j \in 1..Len(q) : q[i].by = q[j].by => i = j
Asking(p) == By(mainq, p) \/ By(pending, p) \/ (Handled /\ req.by = p)

\* Every process has at most one request under way.
Once ==
    /\ Distinct(mainq) /\ Distinct(pending)
    /\ \A p \in Procs : ~(By(mainq, p) /\ By(pending, p))
    /\ Handled => ~By(mainq, req.by) /\ ~By(pending, req.by)

\* A subscriber holds its name from the moment it is registered until its
\* DISCONNECT is handled, and as long as its opener has not begun.
Live(p) == proc[p] \in {"open", "bye"} \cup Reading
Leaving(p) == \/ Sent(mainq, p, "disconnect") \/ Sent(pending, p, "disconnect")
              \/ ctl = "disconnect" /\ req.by = p
Admitting == ctl = "reply" /\ ans /\ req.cmd = "subscribe"
Opening(p) == \E s \in Sessions : opc[s] = "start" /\ ofor[s] = p
Holds(p) == Live(p) \/ Leaving(p) \/ (Admitting /\ req.by = p) \/ Opening(p)

Patient ==
    \A p \in Procs : /\ Asking(p) => proc[p] \in {"await", "off"}
                     /\ Leaving(p) => proc[p] = "off"

Tenure ==
    /\ \A p \in Subscribers : Holds(p) => Active(TopicOf[p], NameOf[p])
    /\ \A p, q \in Subscribers : Holds(p) /\ Holds(q) /\ NameOf[p] = NameOf[q] => p = q
    /\ \A s \in Sessions : opc[s] = "start" => ofor[s] \in Subscribers

\* Subscribers that may still be given a pipe.
Fresh == {p \in Subscribers : \/ proc[p] = "idle"
                              \/ Sent(mainq, p, "subscribe") \/ Sent(pending, p, "subscribe")
                              \/ ctl \in {"subscribe", "store"} /\ req.by = p}
Enough == sess \in Nat /\ sess + Cardinality(Fresh) <= Cardinality(Subscribers)

WriterLabels == {"block", "opened", "checked", "attached"}

\* Who reads a pipe is the holder of the name it was made for; its opener is
\* the one of the same SUBSCRIBE.
Pipes ==
    /\ node \in [Names -> {0} \cup Sessions]
    /\ \A n \in Names : node[n] <= sess
    /\ \A n, m \in Names : node[n] = node[m] /\ node[n] # 0 => n = m
    /\ \A n \in DOMAIN index : node[n] # 0
    /\ ctl = "register" \/ Admitting => node[NameOf[req.by]] = sess
    /\ \A p \in Subscribers : proc[p] \in Reading => ino[p] = node[NameOf[p]]
    /\ \A s \in Sessions : /\ opc[s] = "start" => node[NameOf[ofor[s]]] = s
                           /\ opc[s] \in WriterLabels => oino[s] = s
    /\ \A p \in Subscribers :
          proc[p] \in {"check", "enter", "read", "bye"} \/ Leaving(p) => ~Opening(p)

ProcLabels == {"idle", "await", "open", "bye", "stream", "off"} \cup Reading
Ranges ==
    /\ proc \in [Procs -> ProcLabels]
    /\ ino \in [Subscribers -> {0} \cup Sessions]
    /\ ctl \in ControlLabels
    /\ log \in [Topics -> Seq(Keys)]
    /\ buf \in [Sessions -> Seq(Nat \cup {EOT})]
    /\ opc \in [Sessions -> {"none", "start", "closed"} \cup WriterLabels]
    /\ oino \in [Sessions -> {0} \cup Sessions]
    /\ ofor \in [Sessions -> Procs \cup {"none"}]

OwnInv == Handling /\ Once /\ Patient /\ Tenure /\ Enough /\ Pipes /\ Ranges

-----------------------------------------------------------------------------
(* Queues of requests.                                                     *)

LEMMA AppendSent ==
    ASSUME NEW q \in Seq(Requests), NEW r \in Requests
    PROVE  /\ \A p : By(Append(q, r), p) <=> By(q, p) \/ r.by = p
           /\ \A p, c : Sent(Append(q, r), p, c) <=> Sent(q, p, c) \/ (r.by = p /\ r.cmd = c)
           /\ Distinct(q) /\ ~By(q, r.by) => Distinct(Append(q, r))
<1> DEFINE a == Append(q, r)
<1>1. /\ Len(a) = Len(q) + 1 /\ a[Len(a)] = r /\ Len(q) \in Nat
      /\ \A i \in 1..Len(q) : a[i] = q[i]
  OBVIOUS
<1> HIDE DEF a
<1>2. /\ \A i \in 1..Len(a) : (i \in 1..Len(q) /\ a[i] = q[i]) \/ (i = Len(a) /\ a[i] = r)
      /\ \A i \in 1..Len(q) : i \in 1..Len(a) /\ i # Len(a) /\ a[i] = q[i]
      /\ Len(a) \in 1..Len(a)
  BY <1>1
<1>3. \A p : By(a, p) <=> By(q, p) \/ r.by = p
  BY <1>1, <1>2 DEF By
<1>4. \A p, c : Sent(a, p, c) <=> Sent(q, p, c) \/ (r.by = p /\ r.cmd = c)
  BY <1>1, <1>2 DEF Sent
<1>5. Distinct(q) /\ ~By(q, r.by) => Distinct(a)
  BY <1>2 DEF Distinct, By
<1> QED
  BY <1>3, <1>4, <1>5 DEF a

LEMMA TailSent ==
    ASSUME NEW q \in Seq(Requests), q # << >>
    PROVE  /\ \A p : By(q, p) <=> By(Tail(q), p) \/ Head(q).by = p
           /\ \A p, c : Sent(q, p, c) <=> Sent(Tail(q), p, c) \/ (Head(q).by = p /\ Head(q).cmd = c)
           /\ Distinct(q) => Distinct(Tail(q)) /\ ~By(Tail(q), Head(q).by)
           /\ Head(q) \in Requests /\ Tail(q) \in Seq(Requests)
<1> DEFINE a == Tail(q)
<1>1. /\ Len(a) + 1 = Len(q) /\ Head(q) = q[1] /\ Len(a) \in Nat
      /\ \A i \in 1..Len(a) : a[i] = q[i + 1]
      /\ Head(q) \in Requests /\ a \in Seq(Requests)
  OBVIOUS
<1> HIDE DEF a
<1>2. /\ \A i \in 1..Len(a) : i + 1 \in 1..Len(q) /\ i + 1 # 1 /\ a[i] = q[i + 1]
      /\ \A i \in 1..Len(q) : i = 1 \/ (i - 1 \in 1..Len(a) /\ a[i - 1] = q[i])
      /\ 1 \in 1..Len(q)
  BY <1>1
<1>3. \A p : By(q, p) <=> By(a, p) \/ Head(q).by = p
  BY <1>1, <1>2, SMTT(30) DEF By
<1>4. \A p, c : Sent(q, p, c) <=> Sent(a, p, c) \/ (Head(q).by = p /\ Head(q).cmd = c)
  BY <1>1, <1>2 DEF Sent
<1>5. Distinct(q) => Distinct(a) /\ ~By(a, Head(q).by)
  BY <1>1, <1>2 DEF Distinct, By
<1> QED
  BY <1>1, <1>3, <1>4, <1>5 DEF a

LEMMA SentBy ==
    /\ \A q, p, c : Sent(q, p, c) => By(q, p)
    /\ \A p : Leaving(p) => Asking(p)
    /\ \A p, c : ~By(<< >>, p) /\ ~Sent(<< >>, p, c)
    /\ Distinct(<< >>)
<1>1. \A q, p, c : Sent(q, p, c) => By(q, p)
  BY DEF Sent, By
<1>2. \A p : ~By(<< >>, p)
  BY DEF By
<1>3. Distinct(<< >>)
  BY DEF Distinct
<1> QED
  BY <1>1, <1>2, <1>3 DEF Leaving, Asking, Handled

LEMMA FewerFresh ==
    ASSUME Enough, Fresh' \subseteq Fresh, sess' = sess
    PROVE  Enough'
<1>1. IsFiniteSet(Subscribers) /\ Fresh \subseteq Subscribers
  BY ConstantsAssumption DEF Fresh
<1>2. IsFiniteSet(Fresh) /\ IsFiniteSet(Fresh')
  BY <1>1, FS_Subset
<1>3. Cardinality(Fresh') <= Cardinality(Fresh) /\ Cardinality(Fresh') \in Nat /\ Cardinality(Fresh) \in Nat
  BY <1>2, FS_Subset, FS_CardinalityType
<1>4. Cardinality(Subscribers) \in Nat
  BY <1>1, FS_CardinalityType
<1> QED
  BY <1>3, <1>4 DEF Enough

-----------------------------------------------------------------------------
(* Steps that give nobody a name and make no pipe.                         *)

\* Requests disappear from the queues or stay, openers go on or end.
LEMMA ShrinkKeeps ==
    ASSUME OwnInv,
           UNCHANGED <<proc, ino, sess, node, oino, ofor>>,
           DOMAIN index' = DOMAIN index,
           \A t \in Topics : DOMAIN consumers'[t] = DOMAIN consumers[t],
           \/ UNCHANGED <<mainq, pending, ctl, req, ans>>
           \/ /\ ~Handled' /\ Once'
              /\ \A p, c : Sent(mainq, p, c)' \/ Sent(pending, p, c)'
                              => Sent(mainq, p, c) \/ Sent(pending, p, c)
              /\ \A p : By(mainq, p)' \/ By(pending, p)' => By(mainq, p) \/ By(pending, p),
           \A s \in Sessions : \/ opc'[s] = opc[s] \/ opc'[s] = "closed"
                               \/ opc[s] \in WriterLabels /\ opc'[s] \in WriterLabels,
           Ranges'
    PROVE  OwnInv'
<1>1. Handling' /\ Once'
  BY DEF OwnInv, Handling, Once, Handled, By, Distinct
<1>2. /\ \A p : Leaving(p)' => Leaving(p)
      /\ \A p : Asking(p)' => Asking(p)
      /\ Admitting' => Admitting /\ UNCHANGED req
      /\ ctl' \in {"register", "subscribe", "store"} => UNCHANGED <<ctl, req>>
  <2>1. CASE UNCHANGED <<mainq, pending, ctl, req, ans>>
    BY <2>1 DEF Leaving, Asking, Admitting, Handled, By, Sent
  <2>2. CASE ~UNCHANGED <<mainq, pending, ctl, req, ans>>
    BY <2>2 DEF Leaving, Asking, Admitting, Handled
  <2> QED
    BY <2>1, <2>2
<1>3. \A s \in Sessions : /\ opc'[s] = "start" => opc[s] = "start"
                          /\ opc'[s] \in WriterLabels => opc[s] \in WriterLabels
  BY DEF WriterLabels
<1>4. \A p : Opening(p)' => Opening(p)
  BY <1>3 DEF Opening
<1>5. \A p : Holds(p)' => Holds(p)
  BY <1>2, <1>4 DEF Holds, Live
<1>6. Patient'
  BY <1>2 DEF OwnInv, Patient
<1>7. Tenure'
  <2>1. \A p \in Subscribers : TopicOf[p] \in Topics
    BY ConstantsAssumption DEF Procs
  <2> QED
    BY <1>3, <1>5, <2>1 DEF OwnInv, Tenure, Active
<1>8. Fresh' \subseteq Fresh
  BY <1>2 DEF Fresh, Sent
<1>9. Enough'
  BY <1>8, FewerFresh DEF OwnInv
<1>10. Pipes'
  BY <1>2, <1>3, <1>4 DEF OwnInv, Pipes
<1> QED
  BY <1>1, <1>6, <1>7, <1>9, <1>10 DEF OwnInv

\* A process moves on in its loop, or ends.
LEMMA MoveKeeps ==
    ASSUME OwnInv, NEW p \in Procs, NEW l \in {"check", "enter", "read", "bye", "off"},
           proc' = [proc EXCEPT ![p] = l],
           proc[p] # "idle", l # "off" => proc[p] \in {"check", "enter", "read"},
           UNCHANGED <<ino, requestVars, sess, node, opc, oino, ofor, index, consumers, log>>,
           buf' \in [Sessions -> Seq(Nat \cup {EOT})]
    PROVE  OwnInv'
<1>1. /\ \A q \in Procs : proc'[q] = IF q = p THEN l ELSE proc[q]
      /\ Ranges'
  BY DEF OwnInv, Ranges, ProcLabels, Reading, requestVars
<1>2. Handling' /\ Once'
  BY DEF OwnInv, Handling, Once, Handled, By, Distinct, requestVars
<1>3. /\ Admitting' <=> Admitting
      /\ \A q : (Asking(q)' <=> Asking(q)) /\ (Leaving(q)' <=> Leaving(q)) /\ (Opening(q)' <=> Opening(q))
  BY DEF Asking, Leaving, Opening, Admitting, Handled, By, Sent, requestVars
<1>4. Patient'
  <2>1. Asking(p) \/ Leaving(p) => l = "off"
    BY DEF OwnInv, Patient
  <2> QED
    BY <1>1, <1>3, <2>1 DEF OwnInv, Patient
<1>5. \A q \in Procs : Live(q)' => Live(q)
  BY <1>1 DEF Live, Reading
<1>6. \A q \in Subscribers : q \in Procs
  BY DEF Procs
<1>7. \A q \in Subscribers : Holds(q)' => Holds(q)
  BY <1>3, <1>5, <1>6 DEF Holds, requestVars
<1>8. Tenure'
  BY <1>7 DEF OwnInv, Tenure, Active
<1>9. Fresh' \subseteq Fresh
  BY <1>1, <1>6 DEF Fresh, Sent, requestVars
<1>10. Enough'
  BY <1>9, FewerFresh DEF OwnInv
<1>11. Pipes'
  <2>1. \A q \in Procs : proc'[q] \in Reading => proc[q] \in Reading
    BY <1>1 DEF Reading
  <2>2. \A q \in Procs : proc'[q] \in {"check", "enter", "read", "bye"}
           => proc[q] \in {"check", "enter", "read", "bye"}
    BY <1>1
  <2> QED
    BY <1>3, <1>6, <2>1, <2>2 DEF OwnInv, Pipes, requestVars
<1> QED
  BY <1>1, <1>2, <1>4, <1>8, <1>10, <1>11 DEF OwnInv

-----------------------------------------------------------------------------
(* The clients.                                                            *)

LEMMA RequestKeeps ==
    ASSUME OwnInv, Shape, NEW p \in Procs, NEW o \in Offsets \cup {-1},
           NEW cmd \in {"subscribe", "produce", "create", "query"},
           cmd = "subscribe" => p \in Subscribers, Request(p, cmd, o)
    PROVE  OwnInv'
<1> DEFINE r == [cmd |-> cmd, by |-> p, offset |-> o]
<1>1. r \in Requests /\ r.by = p /\ r.cmd = cmd
  BY DEF Requests
<1>2. /\ proc[p] = "idle" /\ mainq' = Append(mainq, r)
      /\ UNCHANGED <<ino, pending, ctl, req, ans, index, consumers, log, sess, node, buf, opc, oino, ofor>>
      /\ \A q \in Procs : proc'[q] = IF q = p THEN "await" ELSE proc[q]
      /\ proc' \in [Procs -> ProcLabels]
  BY DEF Request, Goto, topicVars, pipeVars, OwnInv, Ranges, ProcLabels
<1> HIDE DEF r
<1>3. ~Asking(p)
  BY <1>2 DEF OwnInv, Patient
<1>4. /\ \A q : By(mainq, q)' <=> By(mainq, q) \/ q = p
      /\ \A q, c : Sent(mainq, q, c)' <=> Sent(mainq, q, c) \/ (q = p /\ c = cmd)
      /\ Distinct(mainq)'
  BY <1>1, <1>2, <1>3, AppendSent DEF Shape, OwnInv, Once, Asking
<1>5. \A q, c : (By(pending, q)' <=> By(pending, q)) /\ (Sent(pending, q, c)' <=> Sent(pending, q, c))
  BY <1>2 DEF By, Sent
<1>6. Handling' /\ Once'
  <2>1. Distinct(pending)'
    BY <1>2 DEF OwnInv, Once, Distinct
  <2>2. \A q \in Procs : ~(By(mainq, q)' /\ By(pending, q)')
    BY <1>3, <1>4, <1>5 DEF OwnInv, Once, Asking
  <2> QED
    BY <1>2, <1>3, <1>4, <1>5, <2>1, <2>2 DEF OwnInv, Handling, Once, Handled, Asking
<1>7. /\ \A q : Asking(q)' <=> Asking(q) \/ q = p
      /\ \A q : Leaving(q)' <=> Leaving(q)
      /\ \A q : Opening(q)' <=> Opening(q)
      /\ Admitting' <=> Admitting
  BY <1>2, <1>4, <1>5 DEF Asking, Leaving, Opening, Admitting, Handled
<1>8. Patient'
  BY <1>2, <1>3, <1>7, SentBy DEF OwnInv, Patient
<1>9. \A q \in Subscribers : q \in Procs
  BY DEF Procs
<1>10. \A q \in Subscribers : Holds(q)' => Holds(q)
  BY <1>2, <1>7, <1>9 DEF Holds, Live, Reading
<1>11. Tenure'
  BY <1>2, <1>10 DEF OwnInv, Tenure, Active
<1>12. Fresh' \subseteq Fresh
  BY <1>2, <1>4, <1>5, <1>9 DEF Fresh
<1>13. Enough'
  BY <1>2, <1>12, FewerFresh DEF OwnInv
<1>14. Pipes'
  <2>1. \A q \in Procs : /\ proc'[q] \in Reading => proc[q] \in Reading
                         /\ proc'[q] \in {"check", "enter", "read", "bye"}
                              => proc[q] \in {"check", "enter", "read", "bye"}
    BY <1>2 DEF Reading
  <2> QED
    BY <1>2, <1>7, <1>9, <2>1 DEF OwnInv, Pipes
<1>15. Ranges'
  BY <1>2 DEF OwnInv, Ranges
<1> QED
  BY <1>6, <1>8, <1>11, <1>13, <1>14, <1>15 DEF OwnInv

LEMMA DisconnectKeeps ==
    ASSUME OwnInv, Shape, NEW p \in Subscribers, Disconnect(p)
    PROVE  OwnInv'
<1> DEFINE r == [cmd |-> "disconnect", by |-> p, offset |-> -1]
<1>0. p \in Procs
  BY DEF Procs
<1>1. r \in Requests /\ r.by = p /\ r.cmd = "disconnect"
  BY <1>0 DEF Requests
<1>2. /\ proc[p] = "bye" /\ proc' = [proc EXCEPT ![p] = "off"]
      /\ mainq' = IF ctl = "gone" THEN mainq ELSE Append(mainq, r)
      /\ UNCHANGED <<ino, pending, ctl, req, ans, start, index, consumers, log, sess, node, buf, opc, oino, ofor>>
  BY DEF Disconnect, Goto, topicVars, pipeVars
<1> HIDE DEF r
<1>3. CASE ctl = "gone"
  <2>1. buf' \in [Sessions -> Seq(Nat \cup {EOT})]
    BY <1>2 DEF OwnInv, Ranges
  <2> QED
    BY <1>0, <1>2, <1>3, <2>1, MoveKeeps DEF requestVars
<1>4. CASE ctl # "gone"
  <2>1. /\ \A q \in Procs : proc'[q] = IF q = p THEN "off" ELSE proc[q]
        /\ proc' \in [Procs -> ProcLabels]
    BY <1>0, <1>2 DEF OwnInv, Ranges, ProcLabels
  <2>2. ~Asking(p) /\ Live(p) /\ ~Opening(p)
    BY <1>0, <1>2 DEF OwnInv, Patient, Live, Pipes
  <2>3. /\ \A q : By(mainq, q)' <=> By(mainq, q) \/ q = p
        /\ \A q, c : Sent(mainq, q, c)' <=> Sent(mainq, q, c) \/ (q = p /\ c = "disconnect")
        /\ Distinct(mainq)'
    BY <1>1, <1>2, <1>4, <2>2, AppendSent DEF Shape, OwnInv, Once, Asking
  <2>4. \A q, c : (By(pending, q)' <=> By(pending, q)) /\ (Sent(pending, q, c)' <=> Sent(pending, q, c))
    BY <1>2 DEF By, Sent
  <2>5. Handling' /\ Once'
    <3>1. Distinct(pending)'
      BY <1>2 DEF OwnInv, Once, Distinct
    <3>2. \A q \in Procs : ~(By(mainq, q)' /\ By(pending, q)')
      BY <2>2, <2>3, <2>4 DEF OwnInv, Once, Asking
    <3> QED
      BY <1>2, <2>2, <2>3, <2>4, <3>1, <3>2 DEF OwnInv, Handling, Once, Handled, Asking
  <2>6. /\ \A q : Asking(q)' <=> Asking(q) \/ q = p
        /\ \A q : Leaving(q)' <=> Leaving(q) \/ q = p
        /\ \A q : Opening(q)' <=> Opening(q)
        /\ Admitting' <=> Admitting
    BY <1>2, <2>3, <2>4 DEF Asking, Leaving, Opening, Admitting, Handled
  <2>7. Patient'
    BY <2>1, <2>6 DEF OwnInv, Patient
  <2>8. \A q \in Subscribers : q \in Procs
    BY DEF Procs
  <2>9. \A q \in Subscribers : Holds(q)' => Holds(q)
    BY <1>2, <2>1, <2>2, <2>6, <2>8 DEF Holds, Live, Reading
  <2>10. Tenure'
    BY <1>2, <2>9 DEF OwnInv, Tenure, Active
  <2>11. Fresh' \subseteq Fresh
    BY <1>2, <2>1, <2>3, <2>4, <2>8 DEF Fresh
  <2>12. Enough'
    BY <1>2, <2>11, FewerFresh DEF OwnInv
  <2>13. Pipes'
    <3>1. \A q \in Procs : /\ proc'[q] \in Reading => proc[q] \in Reading
                           /\ proc'[q] \in {"check", "enter", "read", "bye"}
                                => proc[q] \in {"check", "enter", "read", "bye"}
      BY <2>1 DEF Reading
    <3> QED
      BY <1>2, <2>2, <2>6, <2>8, <3>1 DEF OwnInv, Pipes
  <2>14. Ranges'
    BY <1>2, <2>1 DEF OwnInv, Ranges
  <2> QED
    BY <2>5, <2>7, <2>10, <2>12, <2>13, <2>14 DEF OwnInv
<1> QED
  BY <1>3, <1>4

\* The reader of a pipe opens it: its writer, if it is there, is its own opener.
LEMMA OpenChannelKeeps ==
    ASSUME OwnInv, NEW p \in Subscribers, OpenChannel(p)
    PROVE  OwnInv'
<1> DEFINE i == node[NameOf[p]]
           l == IF Writers(i) # {} THEN "check" ELSE "opening"
<1>0. p \in Procs /\ NameOf[p] \in Names
  BY ConstantsAssumption DEF Procs
<1>1. /\ proc[p] = "open" /\ i \in {0} \cup Sessions
      /\ ino' = [ino EXCEPT ![p] = i]
      /\ \A q \in Procs : proc'[q] = IF q = p THEN l ELSE proc[q]
      /\ proc' \in [Procs -> ProcLabels]
      /\ opc' = [s \in Sessions |-> IF opc[s] = "block" /\ oino[s] = i THEN "opened" ELSE opc[s]]
      /\ UNCHANGED <<mainq, pending, ctl, req, ans, start, index, consumers, log, sess, node, buf, oino, ofor>>
  BY <1>0 DEF OpenChannel, Goto, ReleaseWriters, requestVars, topicVars, OwnInv, Ranges, ProcLabels,
             Reading, Pipes
<1>2. l \in {"check", "opening"}
  OBVIOUS
<1>3. l = "check" => ~Opening(p)
  <2> SUFFICES ASSUME l = "check", Opening(p) PROVE FALSE
    OBVIOUS
  <2>1. PICK s \in Sessions : opc[s] \in WriterLabels /\ oino[s] = i
    BY DEF Writers, WriterLabels
  <2>2. PICK z \in Sessions : opc[z] = "start" /\ ofor[z] = p
    BY DEF Opening
  <2>3. s = i /\ z = i
    BY <2>1, <2>2 DEF OwnInv, Pipes
  <2> QED
    BY <2>1, <2>2, <2>3 DEF WriterLabels
<1> HIDE DEF l, i
<1>4. Handling' /\ Once'
  BY <1>1 DEF OwnInv, Handling, Once, Handled, By, Distinct
<1>5. \A s \in Sessions : /\ opc'[s] = "start" <=> opc[s] = "start"
                          /\ opc'[s] \in WriterLabels <=> opc[s] \in WriterLabels
  BY <1>1 DEF WriterLabels
<1>6. /\ \A q : Opening(q)' <=> Opening(q)
      /\ \A q : (Asking(q)' <=> Asking(q)) /\ (Leaving(q)' <=> Leaving(q))
      /\ Admitting' <=> Admitting
  BY <1>1, <1>5 DEF Asking, Leaving, Opening, Admitting, Handled, By, Sent
<1>7. ~Asking(p) /\ ~Leaving(p)
  BY <1>0, <1>1 DEF OwnInv, Patient
<1>8. Patient'
  BY <1>1, <1>6, <1>7 DEF OwnInv, Patient
<1>9. \A q \in Subscribers : q \in Procs
  BY DEF Procs
<1>10. \A q \in Subscribers : Holds(q)' => Holds(q)
  BY <1>1, <1>6, <1>9 DEF Holds, Live
<1>11. Tenure'
  BY <1>1, <1>5, <1>10 DEF OwnInv, Tenure, Active
<1>12. Fresh' \subseteq Fresh
  BY <1>1, <1>2, <1>9 DEF Fresh, Sent
<1>13. Enough'
  BY <1>1, <1>12, FewerFresh DEF OwnInv
<1>14. Ranges'
  <2>1. opc' \in [Sessions -> {"none", "start", "closed"} \cup WriterLabels]
    BY <1>1 DEF OwnInv, Ranges, WriterLabels
  <2>2. ino' \in [Subscribers -> {0} \cup Sessions]
    BY <1>1 DEF OwnInv, Ranges
  <2> QED
    BY <1>1, <2>1, <2>2 DEF OwnInv, Ranges
<1>15. Pipes'
  <2>1. \A q \in Subscribers : proc'[q] \in Reading => ino'[q] = node'[NameOf[q]]
    <3> SUFFICES ASSUME NEW q \in Subscribers, proc'[q] \in Reading PROVE ino'[q] = node[NameOf[q]]
      BY <1>1
    <3>1. CASE q = p
      BY <1>1, <3>1 DEF OwnInv, Ranges, i
    <3>2. CASE q # p
      BY <1>1, <1>9, <3>2 DEF OwnInv, Ranges, Pipes
    <3> QED
      BY <3>1, <3>2
  <2>2. \A q \in Subscribers :
           proc'[q] \in {"check", "enter", "read", "bye"} \/ Leaving(q)' => ~Opening(q)'
    BY <1>1, <1>2, <1>3, <1>6, <1>7, <1>9 DEF OwnInv, Pipes
  <2> QED
    BY <1>1, <1>5, <1>6, <2>1, <2>2 DEF OwnInv, Pipes
<1> QED
  BY <1>4, <1>8, <1>11, <1>13, <1>14, <1>15 DEF OwnInv

LEMMA ClientKeeps ==
    ASSUME OwnInv, Shape, ClientStep
    PROVE  OwnInv'
<1>0. /\ Subscribers \subseteq Procs /\ Producers \subseteq Procs
      /\ buf \in [Sessions -> Seq(Nat \cup {EOT})]
  BY DEF Procs, OwnInv, Ranges
<1>1. CASE Start
  <2>1. -1 \in Offsets \cup {-1} /\ \A o \in Offsets : o \in Offsets \cup {-1}
    OBVIOUS
  <2>2. /\ \A p \in Subscribers, o \in Offsets : Request(p, "subscribe", o) => OwnInv'
        /\ \A p \in Producers : Request(p, "produce", -1) => OwnInv'
        /\ \A p \in Creators : Request(p, "create", -1) => OwnInv'
        /\ \A p \in Queriers : Request(p, "query", -1) => OwnInv'
    BY <2>1, RequestKeeps DEF Procs
  <2> QED
    BY <1>1, <2>2 DEF Start
<1>2. ASSUME NEW p \in Subscribers, Check(p) \/ BlockInRead(p) \/ ReadEof(p)
      PROVE  OwnInv'
  <2>1. PICK l \in {"check", "enter", "read", "bye", "off"} :
           /\ proc' = [proc EXCEPT ![p] = l] /\ proc[p] \in {"check", "enter", "read"}
    BY <1>2 DEF Check, BlockInRead, ReadEof, Goto
  <2>2. UNCHANGED <<ino, requestVars, sess, node, buf, opc, oino, ofor, index, consumers, log>>
    BY <1>2 DEF Check, BlockInRead, ReadEof, topicVars, pipeVars
  <2> QED
    BY <1>0, <2>1, <2>2, MoveKeeps
<1>3. ASSUME NEW p \in Subscribers, ReadMessage(p)
      PROVE  OwnInv'
  <2>1. PICK l \in {"check", "off"} :
           /\ proc' = [proc EXCEPT ![p] = l] /\ proc[p] \in {"enter", "read"}
    BY <1>3 DEF ReadMessage, Goto
  <2>2. UNCHANGED <<ino, requestVars, sess, node, opc, oino, ofor, index, consumers, log>>
    BY <1>3 DEF ReadMessage, topicVars
  <2>3. /\ buf' = [buf EXCEPT ![ino[p]] = Tail(buf[ino[p]])]
        /\ buf[ino[p]] # << >>
    BY <1>3 DEF ReadMessage
  <2>4. buf' \in [Sessions -> Seq(Nat \cup {EOT})]
    <3>1. CASE ino[p] \in Sessions
      <4>1. Tail(buf[ino[p]]) \in Seq(Nat \cup {EOT})
        BY <1>0, <2>3, <3>1
      <4> QED
        BY <1>0, <2>3, <4>1
    <3>2. CASE ino[p] \notin Sessions
      BY <1>0, <2>3, <3>2
    <3> QED
      BY <3>1, <3>2
  <2> QED
    BY <1>0, <2>1, <2>2, <2>4, MoveKeeps
<1>4. ASSUME NEW p \in Subscribers, Signal(p)
      PROVE  OwnInv'
  <2>1. CASE UNCHANGED proc
    <3>1. UNCHANGED <<ino, requestVars, sess, node, buf, opc, oino, ofor, index, consumers, log>>
      BY <1>4 DEF Signal, topicVars, pipeVars
    <3> QED
      BY <2>1, <3>1, ShrinkKeeps DEF requestVars, OwnInv, Ranges
  <2>2. CASE ~UNCHANGED proc
    <3>1. PICK l \in {"bye", "off"} :
             /\ proc' = [proc EXCEPT ![p] = l] /\ proc[p] \in {"opening", "read"}
             /\ l = "bye" => proc[p] = "read"
      BY <1>4, <2>2 DEF Signal, Goto
    <3>2. UNCHANGED <<ino, requestVars, sess, node, buf, opc, oino, ofor, index, consumers, log>>
      BY <1>4 DEF Signal, topicVars, pipeVars
    <3> QED
      BY <1>0, <3>1, <3>2, MoveKeeps
  <2> QED
    BY <2>1, <2>2
<1>5. ASSUME NEW p \in Procs, Kill(p) \/ (p \in Producers /\ EndOfInput(p))
      PROVE  OwnInv'
  <2>1. /\ proc' = [proc EXCEPT ![p] = "off"] /\ proc[p] # "idle"
        /\ UNCHANGED <<ino, requestVars, sess, node, buf, opc, oino, ofor, index, consumers, log>>
    BY <1>5 DEF Kill, EndOfInput, Goto, topicVars, pipeVars
  <2> QED
    BY <1>0, <2>1, MoveKeeps
<1>6. ASSUME NEW p \in Producers, NEW k \in Keys, Produce(p, k)
      PROVE  OwnInv'
  <2>1. /\ UNCHANGED <<proc, ino, requestVars, sess, node, buf, opc, oino, ofor, index, consumers>>
        /\ log' = [log EXCEPT ![TopicOf[p]] = Append(log[TopicOf[p]], k)]
    BY <1>6 DEF Produce, clientVars, pipeVars
  <2>2. TopicOf[p] \in Topics
    BY ConstantsAssumption DEF Procs
  <2>3. log' \in [Topics -> Seq(Keys)]
    BY <2>1, <2>2 DEF OwnInv, Ranges
  <2>4. Ranges'
    BY <2>1, <2>3 DEF OwnInv, Ranges, requestVars
  <2> QED
    BY <2>1, <2>4, ShrinkKeeps DEF requestVars
<1> QED
  BY <1>0, <1>1, <1>2, <1>3, <1>4, <1>5, <1>6, DisconnectKeeps, OpenChannelKeeps
  DEF ClientStep, SubscriberStep

-----------------------------------------------------------------------------
(* The control thread.                                                     *)

LEMMA HolderRegistered ==
    ASSUME OwnInv, NEW p \in Subscribers, Holds(p)
    PROVE  /\ TopicOf[p] \in Topics /\ NameOf[p] \in Names
           /\ NameOf[p] \in DOMAIN consumers[TopicOf[p]]
BY ConstantsAssumption DEF OwnInv, Tenure, Active, Procs

\* What is left of a request that is answered without a registration.
LEMMA AnsweredKeeps ==
    ASSUME OwnInv, Shape, Create \/ LookUp \/ Subscribe
    PROVE  OwnInv'
<1>1. /\ ctl \in {"create", "query", "produce", "subscribe"} /\ req.cmd = ctl /\ req \in Requests
      /\ ctl' = "reply" \/ (ctl = "subscribe" /\ ctl' = "store" /\ UNCHANGED ans)
      /\ ~Admitting /\ ~Admitting'
  <2>1. ctl \in {"create", "query", "produce", "subscribe"}
    BY DEF Create, LookUp, Subscribe
  <2>2. req.cmd = ctl /\ req \in Requests
    BY <2>1 DEF OwnInv, Handling, Handled
  <2>3. /\ ctl' = "reply" \/ (ctl = "subscribe" /\ ctl' = "store" /\ UNCHANGED ans)
        /\ req' = req
        /\ ctl = "subscribe" /\ ctl' = "reply" => ~ans'
    BY <2>1 DEF Create, LookUp, Subscribe, Answer
  <2> QED
    BY <2>1, <2>2, <2>3 DEF Admitting
<1>2. UNCHANGED <<proc, ino, mainq, pending, req, index, consumers, log, sess, node, buf, opc, oino, ofor>>
  BY DEF Create, LookUp, Subscribe, clientVars, topicVars, pipeVars
<1>3. Handled /\ Handled'
  BY <1>1 DEF Handled
<1>4. Handling' /\ Once'
  BY <1>1, <1>2, <1>3 DEF OwnInv, Handling, Once, By, Distinct
<1>5. \A q : /\ Asking(q)' <=> Asking(q)
             /\ Leaving(q)' <=> Leaving(q)
             /\ Opening(q)' <=> Opening(q)
  BY <1>1, <1>2, <1>3 DEF Asking, Leaving, Opening, By, Sent
<1>6. \A q : Holds(q)' => Holds(q)
  BY <1>1, <1>2, <1>5 DEF Holds, Live
<1>7. Patient' /\ Tenure'
  BY <1>2, <1>5, <1>6 DEF OwnInv, Patient, Tenure, Active
<1>8. Fresh' \subseteq Fresh
  BY <1>1, <1>2 DEF Fresh, Sent
<1>9. Enough'
  BY <1>2, <1>8, FewerFresh DEF OwnInv
<1>10. Pipes'
  BY <1>1, <1>2, <1>5 DEF OwnInv, Pipes
<1>11. Ranges'
  BY <1>1, <1>2 DEF OwnInv, Ranges, ControlLabels
<1> QED
  BY <1>4, <1>7, <1>9, <1>10, <1>11 DEF OwnInv

LEMMA DispatchKeeps ==
    ASSUME OwnInv, Shape, Dispatch
    PROVE  OwnInv'
<1>1. /\ ctl = "dispatch" /\ ~Handled /\ ~Admitting
      /\ UNCHANGED <<proc, ino, mainq, ans, index, consumers, log, sess, node, buf, opc, oino, ofor>>
  BY DEF Dispatch, Handled, Admitting, clientVars, topicVars, pipeVars
<1>2. CASE pending = << >>
  <2>1. ctl' = "top" /\ ~Handled' /\ pending' = pending
    BY <1>2 DEF Dispatch, Handled
  <2>2. Once'
    BY <1>1, <2>1 DEF OwnInv, Once, By, Distinct
  <2>3. Ranges'
    BY <1>1, <2>1 DEF OwnInv, Ranges, ControlLabels
  <2>4. /\ \A p, c : Sent(mainq, p, c)' \/ Sent(pending, p, c)' => Sent(mainq, p, c) \/ Sent(pending, p, c)
        /\ \A p : By(mainq, p)' \/ By(pending, p)' => By(mainq, p) \/ By(pending, p)
    BY <1>1, <2>1 DEF Sent, By
  <2> QED
    BY <1>1, <2>1, <2>2, <2>3, <2>4, ShrinkKeeps
<1>3. CASE pending # << >>
  <2>1. /\ req' = Head(pending) /\ pending' = Tail(pending) /\ ctl' = req'.cmd
    BY <1>3 DEF Dispatch
  <2>2. /\ \A p : By(pending, p) <=> By(pending', p) \/ req'.by = p
        /\ \A p, c : Sent(pending, p, c) <=> Sent(pending', p, c) \/ (req'.by = p /\ req'.cmd = c)
        /\ Distinct(pending) => Distinct(pending') /\ ~By(pending', req'.by)
        /\ req' \in Requests
    BY <1>3, <2>1, TailSent DEF Shape
  <2>3. mainq' = mainq
    BY <1>1
  <2>4. /\ ctl' \in {"subscribe", "produce", "create", "query", "disconnect"} /\ Handled'
        /\ req'.by \in Procs
    BY <2>1, <2>2 DEF Requests, Handled
  <2>5. Handling'
    BY <2>1, <2>2 DEF Handling
  <2>6. Once'
    <3>1. Distinct(mainq')
      BY <2>3 DEF OwnInv, Once
    <3>2. \A p \in Procs : ~(By(mainq', p) /\ By(pending', p))
      BY <2>2, <2>3 DEF OwnInv, Once
    <3>3. ~By(mainq', req'.by) /\ ~By(pending', req'.by) /\ Distinct(pending')
      BY <2>2, <2>3, <2>4 DEF OwnInv, Once
    <3> QED
      BY <3>1, <3>2, <3>3 DEF Once
  <2>7. /\ \A q : Asking(q)' <=> Asking(q)
        /\ \A q : Leaving(q)' <=> Leaving(q)
        /\ \A q : Opening(q)' <=> Opening(q)
        /\ ~Admitting'
    BY <1>1, <2>1, <2>2, <2>3, <2>4 DEF Asking, Leaving, Opening, Admitting
  <2>8. \A q : Holds(q)' => Holds(q)
    BY <1>1, <2>7 DEF Holds, Live
  <2>9. Patient' /\ Tenure'
    BY <1>1, <2>7, <2>8 DEF OwnInv, Patient, Tenure, Active
  <2>10. Fresh' \subseteq Fresh
    BY <1>1, <2>1, <2>2, <2>3, <2>4 DEF Fresh
  <2>11. Enough'
    BY <1>1, <2>10, FewerFresh DEF OwnInv
  <2>12. Pipes'
    BY <1>1, <2>4, <2>7 DEF OwnInv, Pipes
  <2>13. Ranges'
    BY <1>1, <2>4 DEF OwnInv, Ranges, ControlLabels
  <2> QED
    BY <2>5, <2>6, <2>9, <2>11, <2>12, <2>13 DEF OwnInv
<1> QED
  BY <1>2, <1>3

\* The pipe is made anew for a name that nobody holds.
LEMMA StoreMetaKeeps ==
    ASSUME OneTopicEach, Safe, Owners, Sync, OwnInv, StoreMeta
    PROVE  OwnInv'
<1> DEFINE p == req.by
           n == NameOf[p]
<1>1. /\ ctl = "store" /\ ctl' = "register" /\ sess' = sess + 1
      /\ UNCHANGED <<proc, ino, mainq, pending, req, ans, consumers, log, buf, opc, oino, ofor>>
      /\ node' = [node EXCEPT ![n] = sess + 1]
      /\ DOMAIN index' = DOMAIN index \cup {n}
  BY DEF StoreMeta, clientVars, topicVars, Put
<1>2. p \in Subscribers /\ p \in Procs /\ n \in Names
  BY <1>1, RequestFacts DEF Safe, Shape, Procs
<1>3. \A t \in Topics : n \notin DOMAIN consumers[t]
  BY <1>1, Newcomer DEF Safe
<1>4. \A q \in Subscribers : Holds(q) => NameOf[q] # n
  BY <1>3, HolderRegistered
<1>5. Handled /\ Handled' /\ ~Admitting /\ ~Admitting'
  BY <1>1 DEF Handled, Admitting
<1>6. Handling' /\ Once'
  BY <1>1, <1>5 DEF OwnInv, Handling, Once, By, Distinct
<1>7. \A q : /\ Asking(q)' <=> Asking(q)
             /\ Leaving(q)' <=> Leaving(q)
             /\ Opening(q)' <=> Opening(q)
  BY <1>1, <1>5 DEF Asking, Leaving, Opening, By, Sent
<1>8. \A q : Holds(q)' <=> Holds(q)
  BY <1>1, <1>5, <1>7 DEF Holds, Live
<1>9. Patient' /\ Tenure'
  BY <1>1, <1>7, <1>8 DEF OwnInv, Patient, Tenure, Active
<1>10. Enough' /\ sess' \in Sessions
  <2>1. Asking(p)
    BY <1>5 DEF Asking
  <2>2. p \in Fresh /\ p \notin Fresh'
    <3>1. p \in Fresh
      BY <1>1, <1>2 DEF Fresh
    <3>2. ~By(mainq, p) /\ ~By(pending, p) /\ proc[p] # "idle"
      BY <1>2, <1>5, <2>1 DEF OwnInv, Once, Patient
    <3>3. ~Sent(mainq, p, "subscribe")' /\ ~Sent(pending, p, "subscribe")'
      BY <1>1, <3>2 DEF By, Sent
    <3> QED
      BY <1>1, <3>1, <3>2, <3>3 DEF Fresh
  <2>3. Fresh' \subseteq Fresh \ {p}
    BY <1>1, <2>2 DEF Fresh, Sent
  <2>4. IsFiniteSet(Subscribers) /\ IsFiniteSet(Fresh)
    <3>1. Fresh \subseteq Subscribers /\ IsFiniteSet(Subscribers)
      BY ConstantsAssumption DEF Fresh
    <3> QED
      BY <3>1, FS_Subset
  <2>5. /\ Cardinality(Fresh \ {p}) = Cardinality(Fresh) - 1 /\ IsFiniteSet(Fresh \ {p})
        /\ Cardinality(Fresh) \in Nat
    BY <2>2, <2>4, FS_RemoveElement, FS_CardinalityType
  <2>6. Cardinality(Fresh') <= Cardinality(Fresh) - 1 /\ Cardinality(Fresh') \in Nat
    BY <2>3, <2>5, FS_Subset, FS_CardinalityType
  <2>7. Cardinality(Subscribers) \in Nat
    BY <2>4, FS_CardinalityType
  <2> QED
    BY <1>1, <2>5, <2>6, <2>7 DEF OwnInv, Enough, Sessions
<1>11. Pipes'
  <2>1. /\ node' \in [Names -> {0} \cup Sessions]
        /\ \A m \in Names : node'[m] = IF m = n THEN sess' ELSE node[m]
    BY <1>1, <1>2, <1>10 DEF OwnInv, Pipes
  <2>2. sess \in Nat /\ \A m \in Names : node[m] <= sess /\ node[m] \in Nat
    BY DEF OwnInv, Enough, Pipes, Sessions
  <2>3. \A m \in Names : node'[m] <= sess' /\ (m # n => node'[m] # sess')
    BY <1>1, <2>1, <2>2
  <2>4. \A m, k \in Names : node'[m] = node'[k] /\ node'[m] # 0 => m = k
    <3> SUFFICES ASSUME NEW m \in Names, NEW k \in Names, node'[m] = node'[k], node'[m] # 0 PROVE m = k
      OBVIOUS
    <3>1. CASE m = n \/ k = n
      BY <2>1, <2>3, <3>1
    <3>2. CASE m # n /\ k # n
      BY <2>1, <3>2 DEF OwnInv, Pipes
    <3> QED
      BY <3>1, <3>2
  <2>5. \A m \in DOMAIN index' : node'[m] # 0
    <3>1. DOMAIN index \subseteq Names
      BY PartialLemma DEF Safe, Shape
    <3> QED
      BY <1>1, <1>2, <2>1, <2>2, <3>1 DEF OwnInv, Pipes
  <2>6. \A q \in Subscribers : proc'[q] \in Reading => ino'[q] = node'[NameOf[q]]
    <3> SUFFICES ASSUME NEW q \in Subscribers, proc[q] \in Reading PROVE ino[q] = node'[NameOf[q]]
      BY <1>1
    <3>1. Holds(q)
      BY DEF Holds, Live
    <3>2. NameOf[q] \in Names /\ NameOf[q] # n
      BY <1>4, <3>1, HolderRegistered
    <3> QED
      BY <2>1, <3>2 DEF OwnInv, Pipes
  <2>7. \A s \in Sessions : opc'[s] = "start" => node'[NameOf[ofor'[s]]] = s
    <3> SUFFICES ASSUME NEW s \in Sessions, opc[s] = "start" PROVE node'[NameOf[ofor[s]]] = s
      BY <1>1
    <3>1. ofor[s] \in Subscribers /\ Holds(ofor[s])
      BY DEF OwnInv, Tenure, Holds, Opening
    <3>2. NameOf[ofor[s]] \in Names /\ NameOf[ofor[s]] # n
      BY <1>4, <3>1, HolderRegistered
    <3> QED
      BY <2>1, <3>2 DEF OwnInv, Pipes
  <2>8. node'[NameOf[req'.by]] = sess'
    BY <1>1, <1>2, <2>1
  <2> HIDE DEF n, p
  <2> QED
    BY <1>1, <1>5, <1>7, <2>1, <2>3, <2>4, <2>5, <2>6, <2>7, <2>8 DEF OwnInv, Pipes
<1>12. Ranges'
  BY <1>1 DEF OwnInv, Ranges, ControlLabels
<1> QED
  BY <1>6, <1>9, <1>10, <1>11, <1>12 DEF OwnInv

LEMMA RegisterKeeps ==
    ASSUME OneTopicEach, Safe, Owners, Sync, OwnInv, Register
    PROVE  OwnInv'
<1> DEFINE p == req.by
           n == NameOf[p]
           t == TopicOf[p]
<1>1. /\ ctl = "register" /\ ctl' = "reply" /\ ans'
      /\ UNCHANGED <<proc, ino, mainq, pending, req, index, log, sess, node, buf, opc, oino, ofor>>
  BY DEF Register, Answer, clientVars, pipeVars
<1>2. p \in Subscribers /\ p \in Procs /\ n \in Names /\ t \in Topics /\ req.cmd = "subscribe"
  BY <1>1, RequestFacts DEF Safe, Shape, Procs
<1>3. \A u \in Topics : n \notin DOMAIN consumers[u]
  BY <1>1, Newcomer DEF Safe
<1>4. \A u \in Topics : /\ DOMAIN consumers[u] \subseteq DOMAIN consumers'[u]
                        /\ u = t => n \in DOMAIN consumers'[u]
  BY <1>2 DEF Register, Put, Safe, Shape
<1>5. \A q \in Subscribers : Holds(q) => NameOf[q] # n
  BY <1>3, HolderRegistered
<1>6. Handled /\ Handled' /\ Admitting'
  BY <1>1, <1>2 DEF Handled, Admitting
<1>7. Handling' /\ Once'
  BY <1>1, <1>6 DEF OwnInv, Handling, Once, By, Distinct
<1>8. \A q : /\ Asking(q)' <=> Asking(q)
             /\ Leaving(q)' <=> Leaving(q)
             /\ Opening(q)' <=> Opening(q)
  BY <1>1, <1>6 DEF Asking, Leaving, Opening, By, Sent
<1>9. \A q : Holds(q)' => Holds(q) \/ q = p
  BY <1>1, <1>8 DEF Holds, Live
<1>10. Patient'
  BY <1>1, <1>8 DEF OwnInv, Patient
<1>11. Tenure'
  <2>1. \A q \in Subscribers : Holds(q)' => Active(TopicOf[q], NameOf[q])'
    <3> SUFFICES ASSUME NEW q \in Subscribers, Holds(q)'
                 PROVE  NameOf[q] \in DOMAIN consumers'[TopicOf[q]]
      BY DEF Active
    <3>1. CASE q = p
      BY <1>2, <1>4, <3>1
    <3>2. CASE q # p
      BY <1>4, <1>9, <3>2, HolderRegistered
    <3> QED
      BY <3>1, <3>2
  <2>2. \A q, r \in Subscribers : Holds(q)' /\ Holds(r)' /\ NameOf[q] = NameOf[r] => q = r
    BY <1>5, <1>9 DEF OwnInv, Tenure
  <2> QED
    BY <1>1, <2>1, <2>2 DEF OwnInv, Tenure
<1>12. Enough'
  <2>1. Fresh' \subseteq Fresh
    BY <1>1 DEF Fresh, Sent
  <2> QED
    BY <1>1, <2>1, FewerFresh DEF OwnInv
<1>13. Pipes'
  BY <1>1, <1>8 DEF OwnInv, Pipes
<1>14. Ranges'
  BY <1>1 DEF OwnInv, Ranges, ControlLabels
<1> QED
  BY <1>7, <1>10, <1>11, <1>12, <1>13, <1>14 DEF OwnInv

\* The answer: from here on the subscriber lives and its opener runs.
LEMMA ReplyKeeps ==
    ASSUME Safe, OwnInv, Reply
    PROVE  OwnInv'
<1> DEFINE p == req.by
           ok == ans /\ req.cmd = "subscribe"
           l == IF ok THEN "open" ELSE IF ans /\ req.cmd = "produce" THEN "stream" ELSE "off"
<1>1. /\ ctl = "reply" /\ ctl' = "dispatch" /\ proc[p] = "await"
      /\ UNCHANGED <<ino, mainq, pending, index, consumers, log, sess, node, buf, oino>>
      /\ Handled /\ ~Handled' /\ ~Admitting' /\ (Admitting <=> ok)
  BY DEF Reply, Handled, Admitting, topicVars
<1>2. req \in Requests /\ p \in Procs /\ (ok => p \in Subscribers)
  BY <1>1 DEF OwnInv, Handling, Requests
<1>3. /\ \A q \in Procs : proc'[q] = IF q = p THEN l ELSE proc[q]
      /\ proc' \in [Procs -> ProcLabels]
  BY <1>2 DEF Reply, Goto, OwnInv, Ranges, ProcLabels
<1>4. ok => Holds(p) /\ sess \in Sessions /\ node[NameOf[p]] = sess
  <2> SUFFICES ASSUME ok PROVE Holds(p) /\ sess \in Sessions /\ node[NameOf[p]] = sess
    OBVIOUS
  <2>1. Admitting /\ p \in Subscribers /\ Holds(p)
    BY <1>1, <1>2 DEF Holds
  <2>2. node[NameOf[p]] = sess
    BY <2>1 DEF OwnInv, Pipes
  <2>3. NameOf[p] \in DOMAIN index /\ NameOf[p] \in Names
    BY <2>1, HolderRegistered DEF Safe, Indexed
  <2> QED
    BY <2>1, <2>2, <2>3 DEF OwnInv, Pipes
<1>5. \A s \in Sessions : IF ok /\ s = sess THEN opc'[s] = "start" /\ ofor'[s] = p
                          ELSE opc'[s] = opc[s] /\ ofor'[s] = ofor[s]
  BY DEF Reply, OwnInv, Ranges
<1>6. /\ opc' \in [Sessions -> {"none", "start", "closed"} \cup WriterLabels]
      /\ ofor' \in [Sessions -> Procs \cup {"none"}]
  BY <1>2 DEF Reply, OwnInv, Ranges
<1> HIDE DEF ok, l, p
<1>7. /\ ~By(mainq, p) /\ ~By(pending, p)
      /\ \A q, c : /\ By(mainq, q)' <=> By(mainq, q)
                   /\ By(pending, q)' <=> By(pending, q)
                   /\ Sent(mainq, q, c)' <=> Sent(mainq, q, c)
                   /\ Sent(pending, q, c)' <=> Sent(pending, q, c)
  BY <1>1 DEF OwnInv, Once, By, Sent, p
<1>8. \A q : Asking(q)' => Asking(q) /\ q # p
  <2> SUFFICES ASSUME NEW q, Asking(q)' PROVE Asking(q) /\ q # p
    OBVIOUS
  <2>1. By(mainq', q) \/ By(pending', q)
    BY <1>1 DEF Asking
  <2>2. By(mainq, q) \/ By(pending, q)
    BY <1>1, <2>1 DEF By
  <2> QED
    BY <1>7, <2>2 DEF Asking
<1>8a. \A q : Leaving(q)' => Leaving(q) /\ q # p
  <2> SUFFICES ASSUME NEW q, Leaving(q)' PROVE Leaving(q) /\ q # p
    OBVIOUS
  <2>1. Sent(mainq', q, "disconnect") \/ Sent(pending', q, "disconnect")
    BY <1>1 DEF Leaving
  <2>2. Sent(mainq, q, "disconnect") \/ Sent(pending, q, "disconnect")
    BY <1>1, <2>1 DEF Sent
  <2>3. By(mainq, q) \/ By(pending, q)
    BY <2>2, SentBy
  <2> QED
    BY <1>7, <2>2, <2>3 DEF Leaving
<1>9. \A q : Opening(q)' => Opening(q) \/ (ok /\ q = p)
  BY <1>5 DEF Opening
<1>10. Handling' /\ Once'
  <2>1. Distinct(mainq)' /\ Distinct(pending)'
    BY <1>1 DEF OwnInv, Once, Distinct
  <2> QED
    BY <1>1, <1>7, <2>1 DEF OwnInv, Once, Handling
<1>11. Patient'
  BY <1>3, <1>8, <1>8a DEF OwnInv, Patient
<1>12. \A q \in Subscribers : q \in Procs
  BY DEF Procs
<1>13. l \notin {"idle", "bye"} \cup Reading /\ (l = "open" => ok)
  BY DEF l, Reading
<1>14. \A q \in Subscribers : Holds(q)' => Holds(q)
  BY <1>1, <1>3, <1>4, <1>8, <1>8a, <1>9, <1>12, <1>13 DEF Holds, Live
<1>15. Tenure'
  <2>1. \A s \in Sessions : opc'[s] = "start" => ofor'[s] \in Subscribers
    BY <1>2, <1>5 DEF OwnInv, Tenure, ok, p
  <2> QED
    BY <1>1, <1>14, <2>1 DEF OwnInv, Tenure, Active
<1>16. Enough'
  <2>1. Fresh' \subseteq Fresh
    BY <1>1, <1>3, <1>7, <1>12, <1>13 DEF Fresh
  <2> QED
    BY <1>1, <2>1, FewerFresh DEF OwnInv
<1>17. Pipes'
  <2>1. \A q \in Subscribers : proc'[q] \in Reading => proc[q] \in Reading
    BY <1>3, <1>12, <1>13
  <2>2. \A s \in Sessions : /\ opc'[s] = "start" => node[NameOf[ofor'[s]]] = s
                            /\ opc'[s] \in WriterLabels => oino[s] = s
    BY <1>4, <1>5 DEF OwnInv, Pipes, WriterLabels
  <2>3. \A q \in Subscribers :
           proc'[q] \in {"check", "enter", "read", "bye"} \/ Leaving(q)' => ~Opening(q)'
    <3> SUFFICES ASSUME NEW q \in Subscribers,
                        proc'[q] \in {"check", "enter", "read", "bye"} \/ Leaving(q)'
                 PROVE  ~Opening(q)'
      OBVIOUS
    <3>1. q # p
      BY <1>3, <1>8, <1>8a, <1>12, <1>13 DEF Reading
    <3> QED
      BY <1>3, <1>8, <1>8a, <1>9, <1>12, <3>1 DEF OwnInv, Pipes
  <2> QED
    BY <1>1, <2>1, <2>2, <2>3 DEF OwnInv, Pipes
<1>18. Ranges'
  BY <1>1, <1>3, <1>6 DEF OwnInv, Ranges, ControlLabels
<1> QED
  BY <1>10, <1>11, <1>15, <1>16, <1>17, <1>18 DEF OwnInv

\* Who leaves is the only one who held the name.
LEMMA UnregisterKeeps ==
    ASSUME OwnInv, Safe, Unregister
    PROVE  OwnInv'
<1> DEFINE p == req.by
           n == NameOf[p]
<1>1. /\ ctl = "disconnect" /\ ctl' = "dispatch" /\ Handled /\ ~Handled' /\ ~Admitting /\ ~Admitting'
      /\ UNCHANGED <<proc, ino, mainq, pending, ans, index, log, sess, node, buf, oino, ofor>>
  BY DEF Unregister, Handled, Admitting, clientVars
<1>2. p \in Subscribers /\ p \in Procs
  BY <1>1 DEF OwnInv, Handling, Requests, Procs
<1>3. \A u \in Topics : DOMAIN consumers[u] \ {n} \subseteq DOMAIN consumers'[u]
  <2>1. consumers \in [Topics -> Partial(Slot)]
    BY DEF Safe, Shape
  <2>2. \/ UNCHANGED consumers
        \/ consumers' = [consumers EXCEPT ![index[n].topic] = Drop(consumers[index[n].topic], n)]
    BY DEF Unregister
  <2> HIDE DEF n
  <2> QED
    BY <2>1, <2>2 DEF Drop
<1>4. /\ opc' \in [Sessions -> {"none", "start", "closed"} \cup WriterLabels]
      /\ \A s \in Sessions : opc'[s] = opc[s] \/ opc'[s] = "closed"
  BY DEF Unregister, OwnInv, Ranges
<1>5. \A q : Opening(q)' => Opening(q)
  BY <1>1, <1>4 DEF Opening
<1>6. /\ ~By(mainq, p) /\ ~By(pending, p)
      /\ \A q, c : /\ By(mainq, q)' <=> By(mainq, q)
                   /\ By(pending, q)' <=> By(pending, q)
                   /\ Sent(mainq, q, c)' <=> Sent(mainq, q, c)
                   /\ Sent(pending, q, c)' <=> Sent(pending, q, c)
  BY <1>1 DEF OwnInv, Once, By, Sent
<1>7. /\ Leaving(p) /\ proc[p] = "off" /\ ~Opening(p)
      /\ \A q : Asking(q)' => Asking(q)
      /\ \A q : Leaving(q)' => Leaving(q) /\ q # p
  <2>1. Leaving(p)
    BY <1>1 DEF Leaving
  <2>2. \A q : Asking(q)' => Asking(q)
    BY <1>1, <1>6 DEF Asking
  <2>3. \A q : Leaving(q)' => Leaving(q) /\ q # p
    BY <1>1, <1>6, SentBy DEF Leaving
  <2> QED
    BY <1>2, <2>1, <2>2, <2>3 DEF OwnInv, Patient, Pipes
<1>8. \A q : Holds(q)' => Holds(q) /\ q # p
  BY <1>1, <1>5, <1>7 DEF Holds, Live, Reading
<1>9. Handling' /\ Once'
  <2>1. Distinct(mainq)' /\ Distinct(pending)'
    BY <1>1 DEF OwnInv, Once, Distinct
  <2> QED
    BY <1>1, <1>6, <2>1 DEF OwnInv, Once, Handling
<1>10. Patient'
  BY <1>1, <1>7 DEF OwnInv, Patient
<1>11. Tenure'
  <2>1. \A q \in Subscribers : Holds(q)' => Active(TopicOf[q], NameOf[q])'
    <3> SUFFICES ASSUME NEW q \in Subscribers, Holds(q)'
                 PROVE  NameOf[q] \in DOMAIN consumers'[TopicOf[q]]
      BY DEF Active
    <3>1. Holds(p) /\ Holds(q) /\ q # p
      BY <1>7, <1>8 DEF Holds
    <3>2. NameOf[q] # n
      BY <1>2, <3>1 DEF OwnInv, Tenure
    <3> QED
      BY <1>3, <3>1, <3>2, HolderRegistered
  <2> QED
    BY <1>1, <1>4, <1>8, <2>1 DEF OwnInv, Tenure
<1>12. Enough'
  <2>1. Fresh' \subseteq Fresh
    BY <1>1, <1>6 DEF Fresh
  <2> QED
    BY <1>1, <2>1, FewerFresh DEF OwnInv
<1>13. Pipes'
  BY <1>1, <1>4, <1>5, <1>7 DEF OwnInv, Pipes, WriterLabels
<1>14. Ranges'
  BY <1>1, <1>4 DEF OwnInv, Ranges, ControlLabels
<1> QED
  BY <1>9, <1>10, <1>11, <1>12, <1>13, <1>14 DEF OwnInv

-----------------------------------------------------------------------------
(* Openers, workers and shutdown.                                          *)

\* An opener opens the pipe of its own SUBSCRIBE: the readers it lets go are
\* its subscriber.
LEMMA OpenForWritingKeeps ==
    ASSUME OwnInv, NEW s \in Sessions, OpenForWriting(s)
    PROVE  OwnInv'
<1> DEFINE i == node[NameOf[ofor[s]]]
           l == IF Readers(i) # {} THEN "opened" ELSE "block"
<1>1. /\ opc[s] = "start" /\ i = s /\ ofor[s] \in Subscribers
      /\ oino' = [oino EXCEPT ![s] = i]
      /\ opc' = [opc EXCEPT ![s] = l]
      /\ proc' = [p \in Procs |-> IF p \in Subscribers /\ proc[p] = "opening" /\ ino[p] = i
                                  THEN "check" ELSE proc[p]]
      /\ UNCHANGED <<ino, mainq, pending, ctl, req, ans, start, index, consumers, log, sess, node, buf, ofor>>
  BY DEF OpenForWriting, ReleaseReaders, OwnInv, Pipes, Tenure, requestVars, topicVars
<1>2. l \in {"opened", "block"}
  OBVIOUS
<1> HIDE DEF l, i
<1>3. \A q \in Procs : \/ proc'[q] = proc[q]
                       \/ q \in Subscribers /\ proc[q] = "opening" /\ proc'[q] = "check" /\ ino[q] = s
  BY <1>1
<1>4. \A z \in Sessions : \/ z # s /\ opc'[z] = opc[z] /\ oino'[z] = oino[z]
                          \/ z = s /\ opc'[z] = l /\ oino'[z] = s
  BY <1>1 DEF OwnInv, Ranges
<1>5. /\ \A q : Opening(q)' => Opening(q)
      /\ \A q : (Asking(q)' <=> Asking(q)) /\ (Leaving(q)' <=> Leaving(q))
      /\ Admitting' <=> Admitting
  BY <1>1, <1>2, <1>4 DEF Asking, Leaving, Opening, Admitting, Handled, By, Sent
<1>6. Handling' /\ Once'
  BY <1>1 DEF OwnInv, Handling, Once, Handled, By, Distinct
<1>7. Patient'
  BY <1>3, <1>5 DEF OwnInv, Patient
<1>8. \A q \in Subscribers : q \in Procs
  BY DEF Procs
<1>9. \A q \in Subscribers : Holds(q)' => Holds(q)
  BY <1>1, <1>3, <1>5, <1>8 DEF Holds, Live, Reading
<1>10. Tenure'
  BY <1>1, <1>2, <1>4, <1>9 DEF OwnInv, Tenure, Active
<1>11. Enough'
  <2>1. Fresh' \subseteq Fresh
    BY <1>1, <1>3, <1>8 DEF Fresh, Sent
  <2> QED
    BY <1>1, <2>1, FewerFresh DEF OwnInv
<1>12. Ranges'
  <2>1. opc' \in [Sessions -> {"none", "start", "closed"} \cup WriterLabels]
    BY <1>1, <1>2 DEF OwnInv, Ranges, WriterLabels
  <2>2. oino' \in [Sessions -> {0} \cup Sessions]
    BY <1>1 DEF OwnInv, Ranges
  <2>3. proc' \in [Procs -> ProcLabels]
    BY <1>1 DEF OwnInv, Ranges, ProcLabels, Reading
  <2> QED
    BY <1>1, <2>1, <2>2, <2>3 DEF OwnInv, Ranges
<1>13. Pipes'
  <2>1. \A q \in Subscribers : proc'[q] \in Reading => proc[q] \in Reading
    BY <1>3, <1>8 DEF Reading
  <2>2. \A z \in Sessions : /\ opc'[z] = "start" => node[NameOf[ofor[z]]] = z
                            /\ opc'[z] \in WriterLabels => oino'[z] = z
    BY <1>2, <1>4 DEF OwnInv, Pipes
  <2>3. \A q \in Subscribers :
           proc'[q] \in {"check", "enter", "read", "bye"} \/ Leaving(q)' => ~Opening(q)'
    <3> SUFFICES ASSUME NEW q \in Subscribers, Opening(q)',
                        proc'[q] \in {"check", "enter", "read", "bye"} \/ Leaving(q)'
                 PROVE  FALSE
      OBVIOUS
    <3>1. ~(proc[q] \in {"check", "enter", "read", "bye"} \/ Leaving(q))
      BY <1>5 DEF OwnInv, Pipes
    <3>2. proc[q] = "opening" /\ ino[q] = s
      BY <1>3, <1>5, <1>8, <3>1
    <3>3. PICK z \in Sessions : opc'[z] = "start" /\ ofor[z] = q
      BY <1>1 DEF Opening
    <3>4. z # s /\ opc[z] = "start"
      BY <1>2, <1>4, <3>3
    <3>5. node[NameOf[q]] = z /\ node[NameOf[q]] = s
      BY <3>2, <3>3, <3>4 DEF OwnInv, Pipes, Reading
    <3> QED
      BY <3>4, <3>5
  <2> QED
    BY <1>1, <1>5, <2>1, <2>2, <2>3 DEF OwnInv, Pipes
<1> QED
  BY <1>6, <1>7, <1>10, <1>11, <1>12, <1>13 DEF OwnInv

LEMMA OpenerKeeps ==
    ASSUME OwnInv, Shape, NEW s \in Sessions, OpenerStep(s)
    PROVE  OwnInv'
<1>1. CASE OpenForWriting(s)
  BY <1>1, OpenForWritingKeeps
<1>2. CASE Verify(s) \/ Attach(s)
  <2>1. UNCHANGED <<proc, ino, sess, node, oino, ofor, index, mainq, pending, ctl, req, ans, log, buf>>
    BY <1>2 DEF Verify, Attach, clientVars, requestVars, topicVars
  <2>2. PICK l \in {"checked", "closed", "attached"} : opc' = [opc EXCEPT ![s] = l]
    BY <1>2 DEF Verify, Attach
  <2>3. opc[s] \in WriterLabels
    BY <1>2 DEF Verify, Attach, WriterLabels
  <2>4. \A z \in Sessions : \/ opc'[z] = opc[z] \/ opc'[z] = "closed"
                            \/ opc[z] \in WriterLabels /\ opc'[z] \in WriterLabels
    BY <2>2, <2>3 DEF OwnInv, Ranges, WriterLabels
  <2>5. Ranges'
    <3>1. opc' \in [Sessions -> {"none", "start", "closed"} \cup WriterLabels]
      BY <2>2 DEF OwnInv, Ranges, WriterLabels
    <3> QED
      BY <2>1, <3>1 DEF OwnInv, Ranges
  <2>6. \A t \in Topics : DOMAIN consumers'[t] = DOMAIN consumers[t]
    <3>1. consumers \in [Topics -> Partial(Slot)]
      BY DEF Shape
    <3>2. \/ consumers' = consumers
          \/ \E t, n : SetFd(t, n, s)
      BY <1>2 DEF Verify, Attach, topicVars
    <3> QED
      BY <3>1, <3>2, DomainLemma DEF SetFd
  <2> QED
    BY <2>1, <2>4, <2>5, <2>6, ShrinkKeeps
<1> QED
  BY <1>1, <1>2 DEF OpenerStep

\* A worker visits, delivers and commits, and closes the pipes of the gone.
LEMMA WorkerKeeps ==
    ASSUME OwnInv, Safe, NEW t \in Topics, WorkerStep(t)
    PROVE  OwnInv'
<1>1. UNCHANGED <<proc, ino, sess, node, oino, ofor, mainq, pending, ctl, req, ans, log>>
  BY DEF WorkerStep, Wake, Visit, Deliver, PersistGet, PersistSet, SendSentinel, clientVars,
         requestVars, pipeVars
<1>2. consumers \in [Topics -> Partial(Slot)] /\ index \in Partial(Entry)
  BY DEF Safe, Shape
<1>3. DOMAIN index' = DOMAIN index
  <2>1. CASE PersistSet(t)
    <3>1. wcur[t] \in DOMAIN index
      BY <2>1 DEF PersistSet, Safe, Iteration, IteratorValid, Indexed
    <3> QED
      BY <2>1, <3>1 DEF PersistSet, Put
  <2>2. CASE UNCHANGED index
    BY <2>2
  <2> QED
    BY <2>1, <2>2 DEF WorkerStep, Wake, Visit, Deliver, PersistGet, SendSentinel
<1>4. \A u \in Topics : DOMAIN consumers'[u] = DOMAIN consumers[u]
  <2>1. \/ consumers' = consumers
        \/ \E n : SetFd(t, n, 0)
        \/ \E n : consumers' = [consumers EXCEPT ![t][n].offset = @ + 1]
    BY DEF WorkerStep, Wake, Visit, Deliver, PersistGet, PersistSet, SendSentinel
  <2> QED
    BY <1>2, <2>1, DomainLemma DEF SetFd
<1>5. opc' = opc \/ \E s : opc' = [opc EXCEPT ![s] = "closed"]
  BY DEF WorkerStep, Wake, Visit, Deliver, PersistGet, PersistSet, SendSentinel, pipeVars
<1>6. buf' \in [Sessions -> Seq(Nat \cup {EOT})]
  <2>1. \/ buf' = buf
        \/ \E i, m : m \in Nat \cup {EOT} /\ buf' = [buf EXCEPT ![i] = Append(@, m)]
    <3>1. CASE Deliver(t)
      <4>1. wcur[t] \in DOMAIN consumers[t]
        BY <3>1 DEF Deliver, Safe, Iteration, IteratorValid
      <4>2. consumers[t][wcur[t]] \in Slot
        BY <1>2, <4>1, SlotLemma
      <4>3. consumers[t][wcur[t]].offset \in Nat
        BY <4>2 DEF Slot
      <4> QED
        BY <3>1, <4>3 DEF Deliver
    <3>2. CASE SendSentinel(t)
      BY <3>2 DEF SendSentinel
    <3>3. CASE Wake(t) \/ Visit(t) \/ PersistGet(t) \/ PersistSet(t)
      BY <3>3 DEF Wake, Visit, PersistGet, PersistSet, pipeVars
    <3> QED
      BY <3>1, <3>2, <3>3 DEF WorkerStep
  <2>2. buf \in [Sessions -> Seq(Nat \cup {EOT})]
    BY DEF OwnInv, Ranges
  <2>3. ASSUME NEW i, NEW m \in Nat \cup {EOT}, buf' = [buf EXCEPT ![i] = Append(@, m)]
        PROVE  buf' \in [Sessions -> Seq(Nat \cup {EOT})]
    <3>1. ASSUME NEW j \in Sessions PROVE Append(buf[j], m) \in Seq(Nat \cup {EOT})
      <4>1. buf[j] \in Seq(Nat \cup {EOT})
        BY <2>2
      <4> QED
        BY <4>1
    <3> QED
      BY <2>2, <2>3, <3>1
  <2> QED
    BY <2>1, <2>2, <2>3
<1>7. /\ opc' \in [Sessions -> {"none", "start", "closed"} \cup WriterLabels]
      /\ \A s \in Sessions : opc'[s] = opc[s] \/ opc'[s] = "closed"
  BY <1>5 DEF OwnInv, Ranges
<1>8. Ranges'
  BY <1>1, <1>6, <1>7 DEF OwnInv, Ranges
<1> QED
  BY <1>1, <1>3, <1>4, <1>7, <1>8, ShrinkKeeps

\* The control thread between two requests, and the end of the server.
LEMMA IdleKeeps ==
    ASSUME OwnInv,
           LoopTop \/ Poll \/ StopTopic \/ DestroyTopics \/ Sigterm \/ Exit \/ UNCHANGED vars
    PROVE  OwnInv'
<1>1. /\ UNCHANGED <<proc, ino, sess, node, oino, ofor, index, consumers, log, buf>>
      /\ UNCHANGED opc
           \/ opc' = [s \in Sessions |-> IF opc[s] = "none" THEN "none" ELSE "closed"]
  BY DEF LoopTop, Poll, StopTopic, DestroyTopics, Sigterm, Exit, vars, clientVars, topicVars, pipeVars
<1>2. /\ opc' \in [Sessions -> {"none", "start", "closed"} \cup WriterLabels]
      /\ \A s \in Sessions : opc'[s] = opc[s] \/ opc'[s] = "closed"
  BY <1>1 DEF OwnInv, Ranges
<1>3. \/ UNCHANGED <<mainq, pending, ctl, req, ans>>
      \/ /\ ctl' \in {"top", "stop", "poll", "dispatch", "destroyed", "gone", "cut"}
         /\ \/ UNCHANGED <<mainq, pending>>
            \/ mainq' = << >> /\ pending' \in {mainq, << >>}
  BY DEF LoopTop, Poll, StopTopic, DestroyTopics, Sigterm, Exit, vars, requestVars
<1>4. Ranges'
  BY <1>1, <1>2, <1>3 DEF OwnInv, Ranges, ControlLabels
<1>5. CASE UNCHANGED <<mainq, pending, ctl, req, ans>>
  BY <1>1, <1>2, <1>4, <1>5, ShrinkKeeps
<1>6. CASE ~UNCHANGED <<mainq, pending, ctl, req, ans>>
  <2>1. ~Handled'
    BY <1>3, <1>6 DEF Handled
  <2>2. /\ Distinct(mainq') /\ Distinct(pending')
        /\ \A p \in Procs : ~(By(mainq', p) /\ By(pending', p))
        /\ \A p : By(mainq', p) \/ By(pending', p) => By(mainq, p) \/ By(pending, p)
        /\ \A p, c : Sent(mainq', p, c) \/ Sent(pending', p, c)
                        => Sent(mainq, p, c) \/ Sent(pending, p, c)
    <3>1. CASE mainq' = mainq /\ pending' = pending
      BY <3>1 DEF OwnInv, Once
    <3>2. CASE mainq' = << >> /\ pending' = mainq
      BY <3>2, SentBy DEF OwnInv, Once
    <3>3. CASE mainq' = << >> /\ pending' = << >>
      BY <3>3, SentBy
    <3> QED
      BY <1>3, <1>6, <3>1, <3>2, <3>3
  <2>3. Once'
    BY <2>1, <2>2 DEF OwnInv, Once, By, Distinct
  <2>4. /\ \A p, c : Sent(mainq, p, c)' \/ Sent(pending, p, c)'
                        => Sent(mainq, p, c) \/ Sent(pending, p, c)
        /\ \A p : By(mainq, p)' \/ By(pending, p)' => By(mainq, p) \/ By(pending, p)
    BY <2>2 DEF Sent, By
  <2> QED
    BY <1>1, <1>2, <1>4, <2>1, <2>3, <2>4, ShrinkKeeps
<1> QED
  BY <1>5, <1>6

-----------------------------------------------------------------------------
(* The whole server.                                                       *)

LEMMA ControlKeeps ==
    ASSUME OneTopicEach, IndexInv, OwnInv, ControlStep
    PROVE  OwnInv'
<1>1. Safe /\ Shape /\ Owners /\ Sync
  BY DEF IndexInv, Safe
<1>2. CASE LoopTop \/ Poll \/ StopTopic \/ DestroyTopics
  BY <1>2, IdleKeeps
<1>3. CASE Dispatch
  BY <1>1, <1>3, DispatchKeeps
<1>4. CASE Create \/ LookUp \/ Subscribe
  BY <1>1, <1>4, AnsweredKeeps
<1>5. CASE StoreMeta
  BY <1>1, <1>5, StoreMetaKeeps
<1>6. CASE Register
  BY <1>1, <1>6, RegisterKeeps
<1>7. CASE Reply
  BY <1>1, <1>7, ReplyKeeps
<1>8. CASE Unregister
  BY <1>1, <1>8, UnregisterKeeps
<1> QED
  BY <1>2, <1>3, <1>4, <1>5, <1>6, <1>7, <1>8 DEF ControlStep

LEMMA NextOwn ==
    ASSUME OneTopicEach, IndexInv, OwnInv, [Next]_vars
    PROVE  OwnInv'
<1>1. Safe /\ Shape
  BY DEF IndexInv, Safe
<1>2. CASE ClientStep
  BY <1>1, <1>2, ClientKeeps
<1>3. CASE ControlStep
  BY <1>3, ControlKeeps
<1>4. ASSUME NEW s \in Sessions, OpenerStep(s)
      PROVE  OwnInv'
  BY <1>1, <1>4, OpenerKeeps
<1>5. ASSUME NEW t \in Topics, WorkerStep(t)
      PROVE  OwnInv'
  BY <1>1, <1>5, WorkerKeeps
<1>6. CASE Sigterm \/ Exit \/ UNCHANGED vars
  BY <1>6, IdleKeeps
<1> QED
  BY <1>2, <1>3, <1>4, <1>5, <1>6 DEF Next, ClientStep

LEMMA InitOwn == Init => OwnInv
<1> SUFFICES ASSUME Init PROVE OwnInv
  OBVIOUS
<1>1. Handling /\ Once /\ Patient
  <2>1. \A p : ~Asking(p) /\ ~Leaving(p)
    BY SentBy DEF Init, Asking, Handled
  <2> QED
    BY <2>1, SentBy DEF Init, Handling, Handled, Once, Patient
<1>2. \A p \in Subscribers : ~Holds(p)
  <2>1. \A p : ~Leaving(p) /\ ~Opening(p)
    BY SentBy DEF Init, Leaving, Opening
  <2> QED
    BY <2>1 DEF Init, Holds, Live, Reading, Admitting, Procs
<1>3. Tenure
  BY <1>2 DEF Init, Tenure
<1>4. Enough
  <2>1. Fresh = Subscribers /\ IsFiniteSet(Subscribers)
    BY ConstantsAssumption DEF Init, Fresh, Procs
  <2>2. Cardinality(Subscribers) \in Nat
    BY <2>1, FS_CardinalityType
  <2> QED
    BY <2>1, <2>2 DEF Init, Enough
<1>5. Pipes
  BY DEF Init, Pipes, Admitting, Opening, WriterLabels, Reading, Procs, Empty
<1>6. Ranges
  BY DEF Init, Ranges, ProcLabels, ControlLabels
<1> QED
  BY <1>1, <1>3, <1>4, <1>5, <1>6 DEF OwnInv

\* Who reads a pipe holds the name it was made for, and a name has one holder.
LEMMA OnePipeEach ==
    ASSUME IndexInv, OwnInv
    PROVE  NeverShared
<1>1. ASSUME NEW p \in Subscribers, NEW q \in Subscribers,
             proc[p] \in Reading, proc[q] \in Reading, ino[p] = ino[q]
      PROVE  p = q
  <2>1. Holds(p) /\ Holds(q)
    BY <1>1 DEF Holds, Live
  <2>2. NameOf[p] \in DOMAIN index /\ NameOf[p] \in Names /\ NameOf[q] \in Names
    BY <2>1, HolderRegistered, ConstantsAssumption DEF IndexInv, Safe, Indexed
  <2>3. node[NameOf[p]] # 0 /\ node[NameOf[p]] = node[NameOf[q]]
    BY <1>1, <2>2 DEF OwnInv, Pipes
  <2>4. NameOf[p] = NameOf[q]
    BY <2>2, <2>3 DEF OwnInv, Pipes
  <2> QED
    BY <2>1, <2>4 DEF OwnInv, Tenure
<1>2. ASSUME NEW i \in Sessions
      PROVE  Cardinality(Writers(i)) <= 1
  <2>1. Writers(i) \subseteq {i}
    BY DEF OwnInv, Pipes, Writers, WriterLabels
  <2>2. IsFiniteSet({i}) /\ Cardinality({i}) = 1
    BY FS_Singleton
  <2>3. Cardinality(Writers(i)) <= Cardinality({i})
    BY <2>1, <2>2, FS_Subset
  <2> QED
    BY <2>2, <2>3
<1> QED
  BY <1>1, <1>2 DEF NeverShared

LEMMA EveryType ==
    ASSUME IndexInv, OwnInv
    PROVE  TypeOK
<1>1. /\ index \in Partial(Entry) /\ consumers \in [Topics -> Partial(Slot)]
      /\ start \in Nat /\ topics \subseteq Topics /\ wpc \in [Topics -> WorkerLabels]
  BY DEF IndexInv, Safe, Shape
<1>2. \A n \in DOMAIN index : n \in Names /\ index[n] \in Meta
  BY <1>1, PartialLemma DEF Entry, Meta
<1>3. \A t \in Topics : /\ DOMAIN consumers[t] \subseteq Names
                        /\ \A n \in DOMAIN consumers[t] : consumers[t][n] \in Consumer
  BY <1>1, SlotLemma, PartialLemma DEF Slot, Consumer
<1>4. /\ \A t \in Topics : \A o \in DOMAIN log[t] : log[t][o] \in Keys
      /\ \A i \in Sessions : \A j \in DOMAIN buf[i] : buf[i][j] \in Nat \cup {EOT}
  <2>1. ASSUME NEW t \in Topics, NEW o \in DOMAIN log[t]
        PROVE  log[t][o] \in Keys
    <3>1. log[t] \in Seq(Keys)
      BY DEF OwnInv, Ranges
    <3> QED
      BY <2>1, <3>1
  <2>2. ASSUME NEW i \in Sessions, NEW j \in DOMAIN buf[i]
        PROVE  buf[i][j] \in Nat \cup {EOT}
    <3>1. buf[i] \in Seq(Nat \cup {EOT})
      BY DEF OwnInv, Ranges
    <3> QED
      BY <2>2, <3>1
  <2> QED
    BY <2>1, <2>2
<1>5. /\ \A p \in Procs : proc[p] \in {"idle", "await", "open", "bye", "stream", "off"} \cup Reading
      /\ ino \in [Subscribers -> {0} \cup Sessions]
      /\ ctl \in ControlLabels
  BY DEF OwnInv, Ranges, ProcLabels
<1>6. sess \in Nat /\ node \in [Names -> {0} \cup Sessions]
  BY DEF OwnInv, Enough, Pipes
<1> QED
  BY <1>1, <1>2, <1>3, <1>4, <1>5, <1>6 DEF TypeOK

\* However openers, workers, the control thread, signals and kills interleave,
\* a pipe has one reader and one writer and a name one live subscriber of its
\* topic: a client_id whose former owner is still to be unregistered is
\* refused, and an opener, which opens the pipe by its name, never gets the
\* pipe of another SUBSCRIBE (server.cpp, consumer_opener_thread and
\* handle_subscribe).
THEOREM NamesOwned ==
    ASSUME OneTopicEach
    PROVE  Spec => []WellOwned
<1>1. Init => IndexInv /\ OwnInv
  BY InitSafe, InitSync, InitOwn DEF IndexInv
<1>2. IndexInv /\ OwnInv /\ [Next]_vars => (IndexInv /\ OwnInv)'
  BY NextSafe, NextSync, NextOwn DEF IndexInv
<1>3. IndexInv /\ OwnInv => WellOwned
  <2> SUFFICES ASSUME IndexInv, OwnInv PROVE OneReaderPerName
    BY OnePipeEach, EveryType DEF WellOwned
  <2>1. \A p \in Subscribers : proc[p] \in {"open"} \cup Reading => Holds(p)
    BY DEF Holds, Live
  <2> QED
    BY <2>1 DEF OneReaderPerName, OwnInv, Tenure
<1> QED
  BY <1>1, <1>2, <1>3, PTL DEF Spec


-----------------------------------------------------------------------------
(* Exactly once: what a subscriber prints, and has still to read, is what  *)
(* the worker went through since the subscription began, less what its     *)
(* prefix does not match; and who comes back under a name gets nothing a   *)
(* second time.                                                            *)

\* A subscriber is served from the moment its answer is on its way until it
\* stops reading; a pipe is silent before the sentinel is written to it.
Served(p) == \/ proc[p] \in {"open"} \cup Reading
             \/ Admitting /\ req.by = p /\ proc[p] = "await"
Silent(i) == \A j \in 1..Len(buf[i]) : buf[i][j] # EOT

\* The pipe a consumer's descriptor stands for is the one that was made for
\* a subscription of its name, and its opener has attached it.
Wired ==
    /\ \A s \in Sessions : s > sess => opc[s] = "none"
    /\ ctl = "register" \/ Admitting => sess \in Sessions /\ opc[sess] = "none"
    /\ \A s \in Sessions : opc[s] # "none" =>
          /\ ofor[s] \in Subscribers
          /\ \A m \in Names : node[m] = s => NameOf[ofor[s]] = m
    /\ \A t \in Topics : \A n \in DOMAIN consumers[t] : \A s \in Sessions :
          consumers[t][n].fd = s => /\ opc[s] = "attached" \/ (Down /\ opc[s] = "closed")
                                    /\ oino[s] = s /\ NameOf[ofor[s]] = n /\ Silent(s)

\* Nothing is in a pipe before somebody can write to it, and nothing comes
\* after the sentinel.
Buffers ==
    /\ out \in [Subscribers -> Seq(Nat)]
    /\ \A i \in Sessions : opc[i] \in {"none", "start", "block"} => buf[i] = <<>>
    /\ \A i \in Sessions : ~Silent(i) => opc[i] = "closed"
    /\ \A p \in Subscribers : Served(p) /\ proc[p] \notin Reading => buf[node[NameOf[p]]] = <<>>
    /\ \A p \in Subscribers : proc[p] \in {"idle", "await", "open", "opening"} => out[p] = <<>>

\* The consumers a worker has before it are connected and behind.
Round(t) ==
    /\ wpc[t] \in {"loop", "write", "get", "set"} =>
          \A n \in wtodo[t] : consumers[t][n].fd # 0 /\ consumers[t][n].offset < Len(log[t])
    /\ wpc[t] = "eot" => \A n \in wtodo[t] : consumers[t][n].fd # 0
    /\ wpc[t] \in {"write", "get", "set"} =>
          wcur[t] \notin wtodo[t] /\ consumers[t][wcur[t]].fd # 0
    /\ wpc[t] = "write" => consumers[t][wcur[t]].offset < Len(log[t])
    /\ \A n \in DOMAIN consumers[t] :
          /\ consumers[t][n].from <= consumers[t][n].offset
          /\ consumers[t][n].from < consumers[t][n].offset =>
                consumers[t][n].offset <= Len(log[t])
Rounds == \A t \in Topics : Round(t)

-----------------------------------------------------------------------------
(* The fields of a consumer.                                               *)

\* A descriptor is written: the other fields, and the other consumers, stay.
LEMMA FdWritten ==
    ASSUME consumers \in [Topics -> Partial(Slot)], NEW t, NEW n, NEW s,
           consumers' = [consumers EXCEPT ![t][n].fd = s]
    PROVE  \A u \in Topics :
              /\ DOMAIN consumers'[u] = DOMAIN consumers[u]
              /\ \A m \in DOMAIN consumers[u] :
                    /\ consumers'[u][m].offset = consumers[u][m].offset
                    /\ consumers'[u][m].from = consumers[u][m].from
                    /\ consumers'[u][m].wants = consumers[u][m].wants
                    /\ consumers'[u][m].fd = IF u = t /\ m = n THEN s ELSE consumers[u][m].fd
<1> SUFFICES ASSUME NEW u \in Topics
             PROVE  /\ DOMAIN consumers'[u] = DOMAIN consumers[u]
                    /\ \A m \in DOMAIN consumers[u] :
                          /\ consumers'[u][m].offset = consumers[u][m].offset
                          /\ consumers'[u][m].from = consumers[u][m].from
                          /\ consumers'[u][m].wants = consumers[u][m].wants
                          /\ consumers'[u][m].fd = IF u = t /\ m = n THEN s ELSE consumers[u][m].fd
  OBVIOUS
<1>1. \A m \in DOMAIN consumers[u] : consumers[u][m] \in Slot
  BY PartialLemma
<1>2. DOMAIN consumers'[u] = DOMAIN consumers[u]
  OBVIOUS
<1>3. \A m \in DOMAIN consumers[u] :
         consumers'[u][m] = IF u = t /\ m = n THEN [consumers[u][m] EXCEPT !.fd = s]
                                              ELSE consumers[u][m]
  OBVIOUS
<1> QED
  BY <1>1, <1>2, <1>3 DEF Slot

\* The worker goes on to the next message of one consumer.
LEMMA OffsetAdvanced ==
    ASSUME consumers \in [Topics -> Partial(Slot)], NEW t, NEW n,
           consumers' = [consumers EXCEPT ![t][n].offset = @ + 1]
    PROVE  \A u \in Topics :
              /\ DOMAIN consumers'[u] = DOMAIN consumers[u]
              /\ \A m \in DOMAIN consumers[u] :
                    /\ consumers'[u][m].fd = consumers[u][m].fd
                    /\ consumers'[u][m].from = consumers[u][m].from
                    /\ consumers'[u][m].wants = consumers[u][m].wants
                    /\ consumers'[u][m].offset = IF u = t /\ m = n THEN consumers[u][m].offset + 1
                                                 ELSE consumers[u][m].offset
<1> SUFFICES ASSUME NEW u \in Topics
             PROVE  /\ DOMAIN consumers'[u] = DOMAIN consumers[u]
                    /\ \A m \in DOMAIN consumers[u] :
                          /\ consumers'[u][m].fd = consumers[u][m].fd
                          /\ consumers'[u][m].from = consumers[u][m].from
                          /\ consumers'[u][m].wants = consumers[u][m].wants
                          /\ consumers'[u][m].offset = IF u = t /\ m = n
                                                       THEN consumers[u][m].offset + 1
                                                       ELSE consumers[u][m].offset
  OBVIOUS
<1>1. \A m \in DOMAIN consumers[u] : consumers[u][m] \in Slot
  BY PartialLemma
<1>2. DOMAIN consumers'[u] = DOMAIN consumers[u]
  OBVIOUS
<1>3. \A m \in DOMAIN consumers[u] :
         consumers'[u][m] = IF u = t /\ m = n THEN [consumers[u][m] EXCEPT !.offset = @ + 1]
                                              ELSE consumers[u][m]
  OBVIOUS
<1> QED
  BY <1>1, <1>2, <1>3 DEF Slot

\* What the fields are.
LEMMA FieldTypes ==
    ASSUME consumers \in [Topics -> Partial(Slot)]
    PROVE  \A t \in Topics : \A n \in DOMAIN consumers[t] :
              /\ consumers[t][n].offset \in Nat /\ consumers[t][n].from \in Nat
              /\ consumers[t][n].fd \in {0} \cup Sessions /\ consumers[t][n].wants \in SUBSET Keys
<1> SUFFICES ASSUME NEW t \in Topics, NEW n \in DOMAIN consumers[t]
             PROVE  /\ consumers[t][n].offset \in Nat /\ consumers[t][n].from \in Nat
                    /\ consumers[t][n].fd \in {0} \cup Sessions
                    /\ consumers[t][n].wants \in SUBSET Keys
  OBVIOUS
<1>1. consumers[t][n] \in Slot
  BY PartialLemma
<1> QED
  BY <1>1 DEF Slot

-----------------------------------------------------------------------------
(* The worker's rounds.                                                    *)

\* A topic whose worker holds no lock may lose, get and change consumers.
LEMMA FreeRound ==
    ASSUME Shape, NEW t \in Topics, Round(t), MuFree(t), UNCHANGED <<wpc, log>>,
           \A n \in DOMAIN consumers'[t] :
              \/ /\ n \in DOMAIN consumers[t]
                 /\ consumers'[t][n].offset = consumers[t][n].offset
                 /\ consumers'[t][n].from = consumers[t][n].from
              \/ consumers'[t][n].offset = consumers'[t][n].from /\ consumers'[t][n].from \in Nat
    PROVE  Round(t)'
BY DEF Round, MuFree

LEMMA ControlRounds ==
    ASSUME Safe, Rounds, ControlStep
    PROVE  Rounds'
<1> USE DEF Safe, Shape
<1>1. CASE Create
  <2>1. /\ UNCHANGED <<consumers, log, wtodo, wcur>>
        /\ \A t \in Topics : wpc'[t] \in {wpc[t], "wait"}
    BY <1>1 DEF Create
  <2> QED
    BY <2>1 DEF Rounds, Round
<1>2. CASE Register
  <2> DEFINE n == NameOf[req.by]
             c == [offset |-> start, from |-> start, fd |-> 0, wants |-> PrefixOf[req.by]]
  <2>0. PICK t \in Topics : t = TopicOf[req.by]
    BY <1>2, RequestFacts DEF Register
  <2>1. /\ MuFree(t) /\ consumers' = [consumers EXCEPT ![t] = Put(@, n, c)]
        /\ UNCHANGED <<wpc, wtodo, wcur, log>> /\ start \in Nat
    BY <1>2, <2>0 DEF Register
  <2>2. \A u \in Topics \ {t} : consumers'[u] = consumers[u]
    BY <2>1
  <2>3. consumers'[t] = Put(consumers[t], n, c)
    BY <2>1
  <2>4. c.offset = start /\ c.from = start
    OBVIOUS
  <2> HIDE DEF c, n
  <2>5. \A m \in DOMAIN consumers'[t] :
           \/ m \in DOMAIN consumers[t] /\ consumers'[t][m] = consumers[t][m]
           \/ consumers'[t][m] = c
    BY <2>3 DEF Put
  <2>6. \A m \in DOMAIN consumers'[t] :
           \/ /\ m \in DOMAIN consumers[t]
              /\ consumers'[t][m].offset = consumers[t][m].offset
              /\ consumers'[t][m].from = consumers[t][m].from
           \/ /\ consumers'[t][m].offset = consumers'[t][m].from
              /\ consumers'[t][m].from \in Nat
    BY <2>1, <2>4, <2>5
  <2>7. Round(t)
    BY <2>1 DEF Rounds
  <2>8. Round(t)'
    BY <2>1, <2>6, <2>7, FreeRound
  <2>9. \A u \in Topics \ {t} : Round(u)'
    BY <2>1, <2>2 DEF Rounds, Round
  <2>10. \A u \in Topics : Round(u)'
    BY <2>8, <2>9
  <2> QED
    BY <2>10 DEF Rounds
<1>3. CASE Unregister
  <2>1. UNCHANGED <<wpc, wtodo, wcur, log>>
    BY <1>3 DEF Unregister
  <2>2. \A u \in Topics : /\ DOMAIN consumers'[u] \subseteq DOMAIN consumers[u]
                          /\ \A m \in DOMAIN consumers'[u] : consumers'[u][m] = consumers[u][m]
    BY <1>3, RemovalLemma
  <2>3. \A u \in Topics : MuFree(u) \/ consumers'[u] = consumers[u]
    BY <1>3 DEF Unregister
  <2>4. ASSUME NEW u \in Topics PROVE Round(u)'
    <3>1. CASE MuFree(u)
      BY <2>1, <2>2, <3>1, FreeRound DEF Rounds
    <3>2. CASE consumers'[u] = consumers[u]
      BY <2>1, <3>2 DEF Rounds, Round
    <3> QED
      BY <2>3, <3>1, <3>2
  <2> QED
    BY <2>4 DEF Rounds
<1>4. CASE UNCHANGED <<consumers, log, wpc, wtodo, wcur>>
  BY <1>4 DEF Rounds, Round
<1> QED
  BY <1>1, <1>2, <1>3, <1>4
  DEF ControlStep, LoopTop, Poll, Dispatch, LookUp, Subscribe, StoreMeta, Reply, StopTopic,
      DestroyTopics, topicVars

LEMMA WorkerRounds ==
    ASSUME Safe, Rounds, Ranges, NEW t \in Topics, WorkerStep(t)
    PROVE  Rounds'
<1> USE DEF WorkerGoto
<1>0. /\ consumers \in [Topics -> Partial(Slot)] /\ wpc \in [Topics -> WorkerLabels]
      /\ wtodo \in [Topics -> SUBSET Names] /\ wcur \in [Topics -> Names \cup {"none"}]
      /\ log \in [Topics -> Seq(Keys)] /\ UNCHANGED log /\ Len(log[t]) \in Nat
  <2>1. log \in [Topics -> Seq(Keys)]
    BY DEF Ranges
  <2>2. UNCHANGED log
    BY DEF WorkerStep, Wake, Visit, Deliver, PersistGet, PersistSet, SendSentinel
  <2>3. Len(log[t]) \in Nat
    BY <2>1
  <2> QED
    BY <2>1, <2>2, <2>3 DEF Safe, Shape
<1>1. \A u \in Topics \ {t} : /\ wpc'[u] = wpc[u] /\ wtodo'[u] = wtodo[u] /\ wcur'[u] = wcur[u]
                             /\ consumers'[u] = consumers[u]
  BY <1>0 DEF WorkerStep, Wake, Visit, Deliver, PersistGet, PersistSet, SendSentinel, SetFd
<1>2. Round(t) /\ \A u \in Topics \ {t} : Round(u)'
  BY <1>0, <1>1 DEF Rounds, Round
<1>3. wtodo[t] \subseteq DOMAIN consumers[t]
  BY DEF Safe, Iteration, IteratorValid
<1>4. CASE Wake(t)
  <2>1. /\ UNCHANGED <<consumers, wcur>>
        /\ \/ wpc'[t] = "eot" /\ wtodo'[t] = Connected(t)
           \/ wpc'[t] = "loop" /\ wtodo'[t] = Backlog(t)
    BY <1>0, <1>4 DEF Wake
  <2> QED
    BY <1>0, <1>2, <2>1 DEF Rounds, Round, Connected, Backlog
<1>5. CASE Visit(t)
  <2>1. /\ UNCHANGED consumers
        /\ \/ wpc'[t] = "wait"
           \/ /\ wpc'[t] = "write" /\ wcur'[t] \in wtodo[t]
              /\ wtodo'[t] = wtodo[t] \ {wcur'[t]}
        /\ wpc[t] = "loop"
    BY <1>0, <1>5 DEF Visit
  <2> QED
    BY <1>0, <1>2, <2>1 DEF Rounds, Round
<1>6. CASE Deliver(t)
  <2> DEFINE n == wcur[t]
  <2>1. wpc[t] = "write" /\ UNCHANGED <<wtodo, wcur>> /\ n \in DOMAIN consumers[t]
    BY <1>6 DEF Deliver, Safe, Iteration, IteratorValid
  <2>2. \/ wpc'[t] = "loop" /\ consumers' = [consumers EXCEPT ![t][n].fd = 0]
        \/ wpc'[t] = "get" /\ consumers' = [consumers EXCEPT ![t][n].offset = @ + 1]
    BY <1>0, <1>6 DEF Deliver, SetFd
  <2>3. n \notin wtodo[t] /\ consumers[t][n].fd # 0 /\ consumers[t][n].offset < Len(log[t])
    BY <1>2, <2>1 DEF Round
  <2>4. \A m \in DOMAIN consumers[t] : consumers[t][m].offset \in Nat /\ consumers[t][m].from \in Nat
    BY <1>0, FieldTypes
  <2> HIDE DEF n
  <2>5. CASE wpc'[t] = "loop" /\ consumers' = [consumers EXCEPT ![t][n].fd = 0]
    <3>1. Round(t)'
      BY <1>0, <1>2, <1>3, <2>1, <2>3, <2>4, <2>5, FdWritten DEF Round, n
    <3> QED
      BY <1>2, <3>1 DEF Rounds
  <2>6. CASE wpc'[t] = "get" /\ consumers' = [consumers EXCEPT ![t][n].offset = @ + 1]
    <3>a. /\ DOMAIN consumers'[t] = DOMAIN consumers[t]
          /\ \A m \in DOMAIN consumers[t] :
                /\ consumers'[t][m].fd = consumers[t][m].fd
                /\ consumers'[t][m].from = consumers[t][m].from
                /\ m # n => consumers'[t][m].offset = consumers[t][m].offset
          /\ consumers'[t][n].offset = consumers[t][n].offset + 1
      BY <1>0, <2>1, <2>6, OffsetAdvanced
    <3>b. /\ wtodo[t] \subseteq DOMAIN consumers[t]
          /\ \A m \in wtodo[t] : consumers[t][m].fd # 0 /\ consumers[t][m].offset < Len(log[t])
          /\ \A m \in DOMAIN consumers[t] :
                /\ consumers[t][m].from <= consumers[t][m].offset
                /\ consumers[t][m].from < consumers[t][m].offset =>
                      consumers[t][m].offset <= Len(log[t])
      BY <1>2, <1>3, <2>1 DEF Round
    <3>c. \A m \in wtodo[t] : consumers'[t][m].fd # 0 /\ consumers'[t][m].offset < Len(log[t])
      BY <2>3, <3>a, <3>b
    <3>d. \A m \in DOMAIN consumers[t] :
             /\ consumers'[t][m].from <= consumers'[t][m].offset
             /\ consumers'[t][m].from < consumers'[t][m].offset =>
                   consumers'[t][m].offset <= Len(log[t])
      <4> TAKE m \in DOMAIN consumers[t]
      <4>1. CASE m = n
        <5>1. /\ consumers'[t][m].from = consumers[t][m].from
              /\ consumers'[t][m].offset = consumers[t][m].offset + 1
          BY <3>a, <4>1
        <5>2. /\ consumers[t][m].offset \in Nat /\ consumers[t][m].from \in Nat /\ Len(log[t]) \in Nat
              /\ consumers[t][m].from <= consumers[t][m].offset
              /\ consumers[t][m].offset < Len(log[t])
          BY <1>0, <2>3, <2>4, <3>b, <4>1
        <5> QED
          BY <5>1, <5>2
      <4>2. CASE m # n
        BY <3>a, <3>b, <4>2
      <4> QED
        BY <4>1, <4>2
    <3>1. Round(t)'
      BY <1>0, <2>1, <2>3, <2>6, <3>a, <3>c, <3>d DEF Round, n
    <3> QED
      BY <1>2, <3>1 DEF Rounds
  <2> QED
    BY <2>2, <2>5, <2>6
<1>7. CASE PersistGet(t) \/ PersistSet(t)
  <2>1. /\ UNCHANGED <<consumers, wtodo, wcur>>
        /\ \/ wpc[t] = "get" /\ wpc'[t] = "set"
           \/ /\ wpc[t] = "set"
              /\ wpc'[t] = IF consumers[t][wcur[t]].offset < Len(log[t]) THEN "write" ELSE "loop"
    BY <1>0, <1>7 DEF PersistGet, PersistSet
  <2> QED
    BY <1>0, <1>2, <2>1 DEF Rounds, Round
<1>8. CASE SendSentinel(t)
  <2>1. wpc[t] = "eot" /\ UNCHANGED wcur
    BY <1>8 DEF SendSentinel
  <2>2. CASE wpc'[t] = "exited" /\ UNCHANGED consumers
    BY <1>0, <1>2, <2>1, <2>2 DEF Rounds, Round
  <2>3. CASE \E n \in wtodo[t] : /\ consumers' = [consumers EXCEPT ![t][n].fd = 0]
                                 /\ wtodo'[t] = wtodo[t] \ {n} /\ wpc' = wpc
    <3>1. PICK n \in wtodo[t] : /\ consumers' = [consumers EXCEPT ![t][n].fd = 0]
                                /\ wtodo'[t] = wtodo[t] \ {n} /\ wpc' = wpc
      BY <2>3
    <3>2. Round(t)'
      BY <1>0, <1>2, <1>3, <2>1, <3>1, FdWritten DEF Round
    <3> QED
      BY <1>2, <3>2 DEF Rounds
  <2>4. \/ wpc'[t] = "exited" /\ UNCHANGED consumers
        \/ \E n \in wtodo[t] : /\ consumers' = [consumers EXCEPT ![t][n].fd = 0]
                                /\ wtodo'[t] = wtodo[t] \ {n} /\ wpc' = wpc
    BY <1>0, <1>8 DEF SendSentinel, SetFd
  <2> QED
    BY <2>2, <2>3, <2>4
<1> QED
  BY <1>4, <1>5, <1>6, <1>7, <1>8 DEF WorkerStep

LEMMA NextRounds ==
    ASSUME Safe, Rounds, Ranges, [Next]_vars
    PROVE  Rounds'
<1>1. CASE UNCHANGED <<consumers, log, wpc, wtodo, wcur>>
  BY <1>1 DEF Rounds, Round
<1>2. ASSUME NEW p \in Producers, NEW k \in Keys, Produce(p, k)
      PROVE  Rounds'
  <2>1. UNCHANGED <<consumers, wpc, wtodo, wcur>> /\ TopicOf[p] \in Topics
    BY <1>2, ConstantsAssumption DEF Produce, Procs
  <2>2. \A u \in Topics : Len(log'[u]) >= Len(log[u]) /\ Len(log[u]) \in Nat /\ Len(log'[u]) \in Nat
    <3>1. \A u \in Topics : log[u] \in Seq(Keys)
      BY DEF Ranges
    <3>2. log' = [log EXCEPT ![TopicOf[p]] = Append(@, k)] /\ log \in [Topics -> Seq(Keys)]
      BY <1>2 DEF Produce, Ranges
    <3>3. \A u \in Topics : log'[u] = log[u] \/ log'[u] = Append(log[u], k)
      BY <3>2
    <3> QED
      BY <3>1, <3>3
  <2>3. \A u \in Topics : \A n \in DOMAIN consumers[u] :
           consumers[u][n].offset \in Nat /\ consumers[u][n].from \in Nat
    BY FieldTypes DEF Safe, Shape
  <2>4. \A u \in Topics : /\ wtodo[u] \subseteq DOMAIN consumers[u]
                          /\ wpc[u] = "write" => wcur[u] \in DOMAIN consumers[u]
    BY DEF Safe, Iteration, IteratorValid
  <2> QED
    BY <2>1, <2>2, <2>3, <2>4 DEF Rounds, Round
<1>3. ASSUME NEW s \in Sessions, Attach(s)
      PROVE  Rounds'
  <2>1. UNCHANGED <<log, wpc, wtodo, wcur>>
    BY <1>3 DEF Attach
  <2>2. CASE UNCHANGED consumers
    BY <2>1, <2>2 DEF Rounds, Round
  <2>3. CASE \E t, n : MuFree(t) /\ consumers' = [consumers EXCEPT ![t][n].fd = s]
    <3>1. PICK t, n : MuFree(t) /\ consumers' = [consumers EXCEPT ![t][n].fd = s]
      BY <2>3
    <3>2. consumers \in [Topics -> Partial(Slot)]
      BY DEF Safe, Shape
    <3>3. \A u \in Topics \ {t} : consumers'[u] = consumers[u]
      BY <3>1, <3>2
    <3>4. \A u \in Topics \ {t} : Round(u)'
      BY <2>1, <3>3 DEF Rounds, Round
    <3>5. t \in Topics => Round(t)'
      BY <2>1, <3>1, <3>2, FdWritten, FreeRound DEF Rounds, Safe
    <3> QED
      BY <3>4, <3>5 DEF Rounds
  <2> QED
    BY <1>3, <2>2, <2>3 DEF Attach, SetFd
<1>4. CASE Exit
  <2>1. UNCHANGED <<consumers, log>> /\ \A t \in Topics : wpc'[t] = "exited"
    BY <1>4 DEF Exit
  <2> QED
    BY <2>1 DEF Rounds, Round
<1>5. CASE ControlStep
  BY <1>5, ControlRounds
<1>6. ASSUME NEW t \in Topics, WorkerStep(t)
      PROVE  Rounds'
  BY <1>6, WorkerRounds
<1>7. CASE Start \/ (\E p \in Subscribers : SubscriberStep(p) \/ Signal(p)) \/ (\E p \in Procs : Kill(p))
           \/ (\E p \in Producers : EndOfInput(p)) \/ Sigterm \/ UNCHANGED vars
  BY <1>1, <1>7, ZenonT(30) DEF Start, Request, SubscriberStep, OpenChannel, Check, BlockInRead, ReadMessage,
     ReadEof, Disconnect, Signal, Kill, EndOfInput, Sigterm, vars, topicVars
<1>8. ASSUME NEW s \in Sessions, OpenerStep(s)
      PROVE  Rounds'
  BY <1>1, <1>3, <1>8 DEF OpenerStep, OpenForWriting, Verify, topicVars
<1> QED
  BY <1>2, <1>4, <1>5, <1>6, <1>7, <1>8 DEF Next

-----------------------------------------------------------------------------
(* The pipes.                                                              *)

Before == {"idle", "await", "open", "opening"}

\* Who is served has a pipe, registered under the name; nobody else reads it.
LEMMA PipeOf ==
    ASSUME IndexInv, OwnInv, NEW p \in Subscribers, Served(p)
    PROVE  /\ Holds(p) /\ p \in Procs /\ TopicOf[p] \in Topics /\ NameOf[p] \in Names
           /\ NameOf[p] \in DOMAIN consumers[TopicOf[p]]
           /\ node[NameOf[p]] \in Sessions
           /\ proc[p] \in Reading => ino[p] = node[NameOf[p]]
           /\ \A q \in Subscribers : q \in Readers(node[NameOf[p]]) => q = p
<1>1. Holds(p) /\ p \in Procs
  BY DEF Served, Holds, Live, Procs
<1>2. /\ TopicOf[p] \in Topics /\ NameOf[p] \in Names
      /\ NameOf[p] \in DOMAIN consumers[TopicOf[p]]
  BY <1>1, HolderRegistered
<1>3. NameOf[p] \in DOMAIN index
  BY <1>2 DEF IndexInv, Safe, Indexed
<1>4. node[NameOf[p]] \in Sessions
  BY <1>2, <1>3 DEF OwnInv, Pipes
<1>5. ASSUME NEW q \in Subscribers, q \in Readers(node[NameOf[p]])
      PROVE  q = p
  <2>1. Holds(q) /\ NameOf[q] \in Names /\ node[NameOf[q]] = node[NameOf[p]]
    BY <1>5, ConstantsAssumption DEF Readers, Holds, Live, OwnInv, Pipes
  <2>2. NameOf[q] = NameOf[p] /\ Holds(p)
    <3>1. node[NameOf[p]] # 0
      BY <1>3 DEF OwnInv, Pipes
    <3> QED
      BY <1>1, <1>2, <2>1, <3>1 DEF OwnInv, Pipes
  <2> QED
    BY <2>1, <2>2 DEF OwnInv, Tenure
<1> QED
  BY <1>1, <1>2, <1>4, <1>5 DEF OwnInv, Pipes

LEMMA OneConsumerPerPipe ==
    ASSUME OneTopicEach, Owners, Wired, NEW s \in Sessions,
           NEW t \in Topics, NEW n \in DOMAIN consumers[t], consumers[t][n].fd = s,
           NEW u \in Topics, NEW m \in DOMAIN consumers[u], consumers[u][m].fd = s
    PROVE  t = u /\ n = m
<1>1. n = m
  BY DEF Wired
<1>2. Owned(n, t) /\ Owned(m, u)
  BY DEF Owners
<1> QED
  BY <1>1, <1>2, OwnedOnce

\* Steps that leave the pipes and who is attached to them alone, but for an
\* opener that gets on or gives up.
LEMMA QuietWires ==
    ASSUME Wired, Buffers, UNCHANGED <<out, consumers, node, sess, ofor, oino, buf>>,
           Down => Down',
           ctl' = "register" \/ Admitting' => ctl = "register" \/ Admitting,
           \A p \in Subscribers : /\ Served(p)' /\ proc'[p] \notin Reading
                                        => Served(p) /\ proc[p] \notin Reading
                                  /\ proc'[p] \in Before => proc[p] \in Before,
           \A s \in Sessions :
              \/ opc'[s] = opc[s]
              \/ opc[s] \in {"block", "opened"} /\ opc'[s] \in {"opened", "checked", "closed"}
              \/ Down' /\ opc[s] # "none" /\ opc'[s] = "closed"
    PROVE  Wired' /\ Buffers'
<1>1. \A s : Silent(s)' <=> Silent(s)
  BY DEF Silent
<1>2. Wired'
  BY <1>1 DEF Wired
<1>3. Buffers'
  BY <1>1 DEF Buffers, Before
<1> QED
  BY <1>2, <1>3

\* A process moves on in its loop, or ends.
LEMMA MoveWires ==
    ASSUME OwnInv, Wired, Buffers, NEW p \in Procs, NEW l \in {"check", "enter", "read", "bye", "off"},
           proc' = [proc EXCEPT ![p] = l],
           UNCHANGED <<out, ctl, req, ans, consumers, pipeVars>>
    PROVE  Wired' /\ Buffers'
<1>1. \A q \in Procs : proc'[q] = IF q = p THEN l ELSE proc[q]
  BY DEF OwnInv, Ranges
<1>2. \A q \in Subscribers : q \in Procs
  BY DEF Procs
<1>3. \A q \in Subscribers : /\ Served(q)' /\ proc'[q] \notin Reading
                                    => Served(q) /\ proc[q] \notin Reading
                             /\ proc'[q] \in Before => proc[q] \in Before
  BY <1>1, <1>2 DEF Served, Admitting, Reading, Before
<1> QED
  BY <1>3, QuietWires DEF pipeVars, Down, Admitting

\* A message is read.
LEMMA ReadWires ==
    ASSUME IndexInv, OwnInv, Wired, Buffers, NEW p \in Subscribers, ReadMessage(p)
    PROVE  Wired' /\ Buffers'
<1> DEFINE i == ino[p]
<1>1. /\ proc[p] \in {"enter", "read"} /\ buf[i] # <<>>
      /\ buf' = [buf EXCEPT ![i] = Tail(@)]
      /\ UNCHANGED <<ctl, req, ans, consumers, node, sess, ofor, oino, opc>>
  BY DEF ReadMessage, topicVars, requestVars
<1>2. /\ proc' \in [Procs -> ProcLabels] /\ proc'[p] \in {"check", "off"}
      /\ \A q \in Procs \ {p} : proc'[q] = proc[q]
  BY DEF ReadMessage, Goto, OwnInv, Ranges, ProcLabels, Reading, Procs
<1>3. buf \in [Sessions -> Seq(Nat \cup {EOT})] /\ i \in {0} \cup Sessions
  BY DEF OwnInv, Ranges
<1>4. \A z \in Sessions : /\ Silent(z) => Silent(z)'
                          /\ buf[z] = <<>> => buf'[z] = <<>>
  <2> SUFFICES ASSUME NEW z \in Sessions
               PROVE  /\ Silent(z) => Silent(z)'
                      /\ buf[z] = <<>> => buf'[z] = <<>>
    OBVIOUS
  <2>1. CASE z = i
    <3>1. buf[z] \in Seq(Nat \cup {EOT}) /\ buf'[z] = Tail(buf[z]) /\ buf[z] # <<>>
      BY <1>1, <1>3, <2>1
    <3>2. /\ Len(buf'[z]) = Len(buf[z]) - 1 /\ Len(buf[z]) \in Nat
          /\ \A j \in 1..Len(buf'[z]) : buf'[z][j] = buf[z][j + 1]
      BY <3>1
    <3>3. \A j \in 1..Len(buf'[z]) : j + 1 \in 1..Len(buf[z])
      BY <3>2
    <3> QED
      BY <3>1, <3>2, <3>3 DEF Silent
  <2>2. CASE z # i
    BY <1>1, <1>3, <2>2 DEF Silent
  <2> QED
    BY <2>1, <2>2
<1>5. \A q \in Subscribers : /\ Served(q)' /\ proc'[q] \notin Reading
                                    => Served(q) /\ proc[q] \notin Reading
                             /\ proc'[q] \in Before => proc[q] \in Before /\ q # p
  BY <1>1, <1>2 DEF Served, Admitting, Reading, Before, Procs
<1>6. /\ out' \in [Subscribers -> Seq(Nat)]
      /\ \A q \in Subscribers \ {p} : out'[q] = out[q]
  <2>1. CASE Head(buf[i]) = EOT
    BY <2>1 DEF ReadMessage, Buffers
  <2>2. CASE Head(buf[i]) # EOT
    <3>1. out' = [out EXCEPT ![p] = Append(@, Head(buf[i]))] /\ out \in [Subscribers -> Seq(Nat)]
      BY <2>2 DEF ReadMessage, Buffers
    <3>2. i \in Sessions => Head(buf[i]) \in Nat
      BY <1>1, <1>3, <2>2
    <3>3. i \in Sessions
      BY <1>1, PipeOf DEF Served, Reading
    <3> QED
      BY <3>1, <3>2, <3>3
  <2> QED
    BY <2>1, <2>2
<1>7. Wired'
  BY <1>1, <1>4 DEF Wired, Down, Admitting
<1>8. \A q \in Subscribers : Served(q)' /\ proc'[q] \notin Reading => buf'[node[NameOf[q]]] = <<>>
  BY <1>1, <1>3, <1>4, <1>5 DEF Buffers
<1>9. Buffers'
  BY <1>1, <1>4, <1>5, <1>6, <1>8 DEF Buffers, Before
<1> QED
  BY <1>7, <1>9

LEMMA ClientWires ==
    ASSUME IndexInv, OwnInv, Wired, Buffers, ClientStep
    PROVE  Wired' /\ Buffers'
<1>0. Subscribers \subseteq Procs /\ Producers \subseteq Procs
  BY DEF Procs
<1>1. ASSUME NEW p \in Procs, NEW cmd, NEW o, Request(p, cmd, o)
      PROVE  Wired' /\ Buffers'
  <2>1. /\ proc[p] = "idle" /\ proc' = [proc EXCEPT ![p] = "await"]
        /\ UNCHANGED <<out, ctl, req, ans, consumers, node, sess, ofor, oino, buf, opc>>
    BY <1>1 DEF Request, Goto, topicVars, pipeVars
  <2>2. \A q \in Procs : proc'[q] = IF q = p THEN "await" ELSE proc[q]
    BY <2>1 DEF OwnInv, Ranges
  <2>3. ~(Admitting /\ req.by = p)
    BY <2>1 DEF OwnInv, Patient, Asking, Handled, Admitting
  <2>4. \A q \in Subscribers : /\ Served(q)' /\ proc'[q] \notin Reading
                                      => Served(q) /\ proc[q] \notin Reading
                               /\ proc'[q] \in Before => proc[q] \in Before
    BY <1>0, <2>1, <2>2, <2>3 DEF Served, Admitting, Reading, Before
  <2> QED
    BY <2>1, <2>4, QuietWires DEF Down, Admitting
<1>2. CASE Start
  BY <1>1, <1>2 DEF Start, Procs
<1>3. ASSUME NEW p \in Procs,
             \/ p \in Subscribers /\ (Check(p) \/ BlockInRead(p) \/ ReadEof(p) \/ Disconnect(p))
             \/ p \in Subscribers /\ Signal(p) /\ ~UNCHANGED proc
             \/ Kill(p) \/ (p \in Producers /\ EndOfInput(p))
      PROVE  Wired' /\ Buffers'
  <2>1. UNCHANGED <<out, ctl, req, ans, consumers, pipeVars>>
    BY <1>3 DEF Check, BlockInRead, ReadEof, Disconnect, Signal, Kill, EndOfInput, requestVars, topicVars
  <2>2. \E l \in {"check", "enter", "read", "bye", "off"} : proc' = [proc EXCEPT ![p] = l]
    BY <1>3 DEF Check, BlockInRead, ReadEof, Disconnect, Signal, Kill, EndOfInput, Goto
  <2> QED
    BY <2>1, <2>2, MoveWires
<1>4. ASSUME UNCHANGED <<proc, out, ctl, req, ans, consumers, pipeVars>>
      PROVE  Wired' /\ Buffers'
  <2>1. \A q \in Subscribers : Served(q)' <=> Served(q)
    BY <1>4 DEF Served, Admitting
  <2> QED
    BY <1>4, <2>1, QuietWires DEF pipeVars, Down, Admitting
<1>5. ASSUME NEW p \in Subscribers, OpenChannel(p)
      PROVE  Wired' /\ Buffers'
  <2>1. /\ proc[p] = "open"
        /\ \E l \in {"check", "opening"} : proc' = [proc EXCEPT ![p] = l]
        /\ \A s \in Sessions : opc'[s] = opc[s] \/ (opc[s] = "block" /\ opc'[s] = "opened")
        /\ UNCHANGED <<out, ctl, req, ans, consumers, node, sess, ofor, oino, buf>>
    BY <1>5 DEF OpenChannel, Goto, ReleaseWriters, requestVars, topicVars
  <2>2. \A q \in Procs : \/ q # p /\ proc'[q] = proc[q]
                         \/ q = p /\ proc'[q] \in {"check", "opening"} /\ proc[q] = "open"
    BY <2>1 DEF OwnInv, Ranges
  <2>3. \A q \in Subscribers : /\ Served(q)' /\ proc'[q] \notin Reading
                                      => Served(q) /\ proc[q] \notin Reading
                               /\ proc'[q] \in Before => proc[q] \in Before
    BY <1>0, <2>1, <2>2 DEF Served, Admitting, Reading, Before
  <2> QED
    BY <2>1, <2>3, QuietWires DEF Down, Admitting
<1>6. ASSUME NEW p \in Producers, NEW k \in Keys, Produce(p, k)
      PROVE  Wired' /\ Buffers'
  BY <1>4, <1>6 DEF Produce, clientVars, requestVars
<1>7. ASSUME NEW p \in Subscribers, Signal(p), UNCHANGED proc
      PROVE  Wired' /\ Buffers'
  BY <1>4, <1>7 DEF Signal, requestVars, topicVars
<1> QED
  BY <1>0, <1>2, <1>3, <1>5, <1>6, <1>7, ReadWires DEF ClientStep, SubscriberStep

\* The control thread between two requests and before the answer, and the end
\* of the server.
LEMMA IdleAdmits ==
    ASSUME IndexInv, OwnInv,
           \/ LoopTop \/ Poll \/ Dispatch \/ Create \/ LookUp \/ Subscribe
           \/ StopTopic \/ DestroyTopics \/ Sigterm \/ Exit \/ UNCHANGED vars
    PROVE  (ctl' # "register" /\ ~Admitting') \/ UNCHANGED <<ctl, req, ans>>
<1>1. CASE Dispatch
  <2>1. pending # <<>> => Head(pending) \in Requests
    BY DEF IndexInv, Safe, Shape
  <2> QED
    BY <1>1, <2>1 DEF Dispatch, Requests, Admitting
<1>2. CASE Create \/ LookUp \/ Subscribe
  <2>1. ctl \in {"create", "query", "produce", "subscribe"}
    BY <1>2 DEF Create, LookUp, Subscribe
  <2>2. req.cmd = ctl
    BY <2>1 DEF OwnInv, Handling, Handled
  <2>3. ctl' \in {"reply", "store"} /\ req' = req
        /\ (ctl = "subscribe" /\ ctl' = "reply" => ~ans')
    BY <1>2, <2>1 DEF Create, LookUp, Subscribe, Answer
  <2> QED
    BY <2>1, <2>2, <2>3 DEF Admitting
<1>3. CASE LoopTop \/ Poll \/ StopTopic \/ DestroyTopics \/ Sigterm \/ Exit \/ UNCHANGED vars
  BY <1>3 DEF LoopTop, Poll, StopTopic, DestroyTopics, Sigterm, Exit, Admitting, vars, requestVars
<1> QED
  BY <1>1, <1>2, <1>3

LEMMA IdleWires ==
    ASSUME IndexInv, OwnInv, Wired, Buffers,
           \/ LoopTop \/ Poll \/ Dispatch \/ Create \/ LookUp \/ Subscribe
           \/ StopTopic \/ DestroyTopics \/ Sigterm \/ Exit \/ UNCHANGED vars
    PROVE  Wired' /\ Buffers'
<1>1. /\ UNCHANGED <<proc, out, consumers, node, sess, ofor, oino, buf>>
      /\ \A s \in Sessions : \/ opc'[s] = opc[s]
                             \/ Down' /\ opc[s] # "none" /\ opc'[s] = "closed"
      /\ Down => Down'
  BY DEF LoopTop, Poll, Dispatch, Create, LookUp, Subscribe, StopTopic, DestroyTopics, Sigterm,
         Exit, vars, clientVars, requestVars, topicVars, pipeVars, Answer, Down
<1>2. (ctl' # "register" /\ ~Admitting') \/ UNCHANGED <<ctl, req, ans>>
  BY IdleAdmits
<1>3. \A q \in Subscribers : Served(q)' => Served(q)
  BY <1>1, <1>2 DEF Served, Admitting
<1> QED
  BY <1>1, <1>2, <1>3, QuietWires DEF Admitting

LEMMA StoreMetaWires ==
    ASSUME OneTopicEach, IndexInv, OwnInv, OwnInv', Wired, Buffers, StoreMeta
    PROVE  Wired' /\ Buffers'
<1>1. /\ ctl = "store" /\ ctl' = "register" /\ sess' = sess + 1 /\ sess \in Nat
      /\ node' = [node EXCEPT ![NameOf[req.by]] = sess + 1]
      /\ UNCHANGED <<proc, out, req, consumers, ofor, oino, buf, opc>>
  BY DEF StoreMeta, clientVars, topicVars, OwnInv, Enough
<1>2. sess' \in Sessions
  <2>1. IsFiniteSet(Fresh') /\ Cardinality(Subscribers) \in Nat
    <3>1. Fresh' \subseteq Subscribers
      BY DEF Fresh
    <3> QED
      BY <3>1, ConstantsAssumption, FS_Subset, FS_CardinalityType
  <2>2. Cardinality(Fresh') \in Nat
    BY <2>1, FS_CardinalityType
  <2>3. sess' + Cardinality(Fresh') <= Cardinality(Subscribers)
    BY DEF OwnInv, Enough
  <2> QED
    BY <1>1, <2>1, <2>2, <2>3 DEF Sessions
<1>3. req.by \in Subscribers /\ NameOf[req.by] \in Names
  BY <1>1, RequestFacts DEF IndexInv, Safe, Shape
<1>4. \A m \in Names : node'[m] = IF m = NameOf[req.by] THEN sess + 1 ELSE node[m]
  BY <1>1, <1>3 DEF OwnInv, Pipes
<1>5. \A s \in Sessions : Silent(s)' <=> Silent(s)
  BY <1>1 DEF Silent
<1>6. Wired'
  <2>1. \A s \in Sessions : s > sess' => s > sess
    BY <1>1 DEF Sessions
  <2>2. opc'[sess'] = "none"
    BY <1>1, <1>2 DEF Wired, Sessions
  <2>3. \A s \in Sessions : opc'[s] # "none" =>
           /\ ofor'[s] \in Subscribers
           /\ \A m \in Names : node'[m] = s => NameOf[ofor'[s]] = m
    <3>1. \A s \in Sessions : opc[s] # "none" => s # sess + 1
      BY <1>1, <2>2
    <3> QED
      BY <1>1, <1>4, <3>1 DEF Wired
  <2> QED
    BY <1>1, <1>2, <1>5, <2>1, <2>2, <2>3 DEF Wired, Down
<1>7. \A q \in Subscribers : Served(q)' => Served(q) /\ NameOf[q] # NameOf[req.by]
  <2> SUFFICES ASSUME NEW q \in Subscribers, Served(q)'
               PROVE  Served(q) /\ NameOf[q] # NameOf[req.by]
    OBVIOUS
  <2>1. Served(q)
    BY <1>1 DEF Served, Admitting
  <2>2. TopicOf[q] \in Topics /\ NameOf[q] \in DOMAIN consumers[TopicOf[q]]
    BY <2>1, PipeOf
  <2> QED
    BY <1>1, <2>1, <2>2, Newcomer DEF IndexInv, Safe
<1>8. \A q \in Subscribers : Served(q)' /\ proc'[q] \notin Reading => buf'[node'[NameOf[q]]] = <<>>
  BY <1>1, <1>4, <1>7, ConstantsAssumption DEF Buffers
<1>9. Buffers'
  BY <1>1, <1>5, <1>8 DEF Buffers
<1> QED
  BY <1>6, <1>9

LEMMA RegisterWires ==
    ASSUME IndexInv, OwnInv, OwnInv', Wired, Buffers, Register
    PROVE  Wired' /\ Buffers'
<1>1. /\ ctl = "register" /\ ctl' = "reply" /\ ans'
      /\ UNCHANGED <<proc, out, req, node, sess, ofor, oino, buf, opc>>
  BY DEF Register, Answer, clientVars, pipeVars
<1>2. \A t \in Topics : \A m \in DOMAIN consumers'[t] :
         \/ m \in DOMAIN consumers[t] /\ consumers'[t][m].fd = consumers[t][m].fd
         \/ consumers'[t][m].fd = 0
  BY DEF Register, Put, IndexInv, Safe, Shape
<1>3. \A s \in Sessions : Silent(s)' <=> Silent(s)
  BY <1>1 DEF Silent
<1>4. \A s \in Sessions : s # 0
  BY DEF Sessions
<1>5. Wired'
  BY <1>1, <1>2, <1>3, <1>4 DEF Wired, Down, Admitting
<1>6. \A q \in Subscribers : Served(q)' => Served(q) \/ q = req.by
  BY <1>1 DEF Served, Admitting
<1>7. buf[node[NameOf[req.by]]] = <<>>
  BY <1>1 DEF Wired, Buffers, OwnInv, Pipes
<1>8. Buffers'
  BY <1>1, <1>3, <1>6, <1>7 DEF Buffers
<1> QED
  BY <1>5, <1>8

LEMMA ReplyWires ==
    ASSUME IndexInv, OwnInv, Wired, Buffers, Reply
    PROVE  Wired' /\ Buffers'
<1>1. /\ ctl = "reply" /\ ctl' = "dispatch" /\ proc[req.by] = "await" /\ req.by \in Procs
      /\ UNCHANGED <<out, consumers, node, sess, oino, buf>>
  BY DEF Reply, topicVars, OwnInv, Handling, Handled, Requests
<1>2. CASE ~Admitting
  <2>1. UNCHANGED <<opc, ofor>> /\ \E l \in {"stream", "off"} : proc' = [proc EXCEPT ![req.by] = l]
    BY <1>1, <1>2 DEF Reply, Admitting, Goto
  <2>2. \A q \in Procs : proc'[q] = proc[q] \/ proc'[q] \in {"stream", "off"}
    BY <2>1 DEF OwnInv, Ranges
  <2>3. \A q \in Subscribers : /\ Served(q)' => Served(q) /\ proc'[q] = proc[q]
                               /\ proc'[q] \in Before => proc[q] \in Before
    BY <1>1, <2>2 DEF Served, Admitting, Reading, Before, Procs
  <2> QED
    BY <1>1, <2>1, <2>3, QuietWires DEF Down, Admitting
<1>3. CASE Admitting
  <2>1. /\ sess \in Sessions /\ opc[sess] = "none" /\ node[NameOf[req.by]] = sess
        /\ opc' = [opc EXCEPT ![sess] = "start"] /\ ofor' = [ofor EXCEPT ![sess] = req.by]
        /\ proc' = [proc EXCEPT ![req.by] = "open"]
    BY <1>1, <1>3 DEF Reply, Admitting, Goto, Wired, OwnInv, Pipes
  <2>2. req.by \in Subscribers
    BY <1>1, <1>3 DEF Admitting, OwnInv, Handling, Handled, Requests
  <2>3. /\ \A s \in Sessions : IF s = sess THEN opc'[s] = "start" /\ ofor'[s] = req.by
                                           ELSE opc'[s] = opc[s] /\ ofor'[s] = ofor[s]
        /\ \A q \in Procs : proc'[q] = IF q = req.by THEN "open" ELSE proc[q]
    BY <2>1 DEF OwnInv, Ranges
  <2>4. \A s \in Sessions : Silent(s)' <=> Silent(s)
    BY <1>1 DEF Silent
  <2>5. \A t \in Topics : \A n \in DOMAIN consumers[t] : consumers[t][n].fd # sess
    BY <1>1, <2>1 DEF Wired, Down
  <2>6. \A m \in Names : node[m] = sess => NameOf[req.by] = m
    BY <2>1, <2>2, ConstantsAssumption DEF OwnInv, Pipes, Sessions
  <2>7. Wired'
    <3>1. \A s \in Sessions : s > sess' => opc'[s] = "none"
      BY <1>1, <2>1, <2>3 DEF Wired, OwnInv, Enough, Sessions
    <3> QED
      BY <1>1, <2>2, <2>3, <2>4, <2>5, <2>6, <3>1 DEF Wired, Down, Admitting
  <2>8. \A q \in Subscribers : /\ Served(q)' => Served(q)
                               /\ proc'[q] \notin Reading => proc[q] \notin Reading
                               /\ proc'[q] \in Before => proc[q] \in Before
    BY <1>1, <1>3, <2>3 DEF Served, Admitting, Reading, Before, Procs
  <2>9. Buffers'
    BY <1>1, <2>1, <2>3, <2>4, <2>8 DEF Buffers, Before
  <2> QED
    BY <2>7, <2>9
<1> QED
  BY <1>2, <1>3

\* A pipe is let go of: its consumer has no descriptor any more, or is gone.
LEMMA UnplugWires ==
    ASSUME Wired, NEW s \in Sessions, ~Down,
           \A t \in Topics : \A n \in DOMAIN consumers'[t] :
              /\ n \in DOMAIN consumers[t]
              /\ consumers'[t][n].fd \in {consumers[t][n].fd, 0} \ {s},
           opc' = [opc EXCEPT ![s] = "closed"],
           opc \in [Sessions -> {"none", "start", "closed"} \cup WriterLabels],
           opc[s] = "attached",
           UNCHANGED <<node, sess, ofor, oino>>,
           ctl' = "register" \/ Admitting' => ctl = "register" \/ Admitting,
           \A z \in Sessions \ {s} : buf'[z] = buf[z]
    PROVE  Wired'
<1>1. \A z \in Sessions : opc'[z] = IF z = s THEN "closed" ELSE opc[z]
  OBVIOUS
<1>2. \A z \in Sessions \ {s} : Silent(z)' <=> Silent(z)
  BY DEF Silent
<1>3. \A z \in Sessions : z # 0
  BY DEF Sessions
<1> QED
  BY <1>1, <1>2, <1>3 DEF Wired, Down

LEMMA UnregisterWires ==
    ASSUME OneTopicEach, IndexInv, OwnInv, Wired, Buffers, Unregister
    PROVE  Wired' /\ Buffers'
<1>1. /\ UNCHANGED <<proc, out, node, sess, ofor, oino, buf>>
      /\ ctl = "disconnect" /\ ctl' = "dispatch"
  BY DEF Unregister, clientVars
<1>2. \A q \in Subscribers : Served(q)' => Served(q)
  BY <1>1 DEF Served, Admitting
<1>3. CASE UNCHANGED <<consumers, opc>>
  BY <1>1, <1>2, <1>3, QuietWires DEF Down, Admitting
<1>4. CASE ~UNCHANGED <<consumers, opc>>
  <2>1. PICK t, n : /\ n \in DOMAIN index /\ t = index[n].topic /\ Active(t, n)
                    /\ consumers' = [consumers EXCEPT ![t] = Drop(consumers[t], n)]
                    /\ opc' = IF consumers[t][n].fd = 0 THEN opc
                              ELSE [opc EXCEPT ![consumers[t][n].fd] = "closed"]
    BY <1>4 DEF Unregister
  <2>2. consumers \in [Topics -> Partial(Slot)] /\ index \in Partial(Entry)
    BY DEF IndexInv, Safe, Shape
  <2>3. t \in Topics /\ n \in DOMAIN consumers[t]
    <3>1. index[n] \in Entry
      BY <2>1, <2>2, PartialLemma
    <3> QED
      BY <2>1, <3>1 DEF Entry, Active
  <2>4. consumers[t][n].fd \in {0} \cup Sessions
    BY <2>2, <2>3, FieldTypes
  <2>5. \A u \in Topics : \A m \in DOMAIN consumers'[u] :
           /\ m \in DOMAIN consumers[u] /\ consumers'[u][m] = consumers[u][m]
           /\ ~(u = t /\ m = n)
    <3>1. /\ DOMAIN Drop(consumers[t], n) = DOMAIN consumers[t] \ {n}
          /\ \A m \in DOMAIN consumers[t] \ {n} : Drop(consumers[t], n)[m] = consumers[t][m]
      BY DEF Drop
    <3>2. consumers'[t] = Drop(consumers[t], n) /\ \A u \in Topics \ {t} : consumers'[u] = consumers[u]
      BY <2>1, <2>2, <2>3
    <3> QED
      BY <3>1, <3>2
  <2>6. CASE consumers[t][n].fd = 0
    <3>1. Wired'
      <4>1. \A z \in Sessions : Silent(z)' <=> Silent(z)
        BY <1>1 DEF Silent
      <4> QED
        BY <1>1, <2>1, <2>5, <2>6, <4>1 DEF Wired, Down, Admitting
    <3>2. Buffers'
      BY <1>1, <1>2, <2>1, <2>6 DEF Buffers, Silent
    <3> QED
      BY <3>1, <3>2
  <2>7. CASE consumers[t][n].fd # 0
    <3>1. PICK s \in Sessions : s = consumers[t][n].fd
      BY <2>4, <2>7
    <3>2. opc[s] = "attached" /\ opc' = [opc EXCEPT ![s] = "closed"]
      BY <1>1, <2>1, <2>3, <2>7, <3>1 DEF Wired, Down
    <3>3. \A u \in Topics : \A m \in DOMAIN consumers'[u] : consumers'[u][m].fd # s
      BY <2>3, <2>5, <3>1, OneConsumerPerPipe DEF IndexInv
    <3>4. \A u \in Topics : \A m \in DOMAIN consumers'[u] :
             /\ m \in DOMAIN consumers[u]
             /\ consumers'[u][m].fd \in {consumers[u][m].fd, 0} \ {s}
      BY <2>5, <3>3
    <3>5. /\ ~Down /\ ctl' # "register" /\ ~Admitting'
          /\ opc \in [Sessions -> {"none", "start", "closed"} \cup WriterLabels]
      BY <1>1 DEF Down, Admitting, OwnInv, Ranges
    <3>6. Wired'
      BY <1>1, <3>2, <3>4, <3>5, UnplugWires
    <3>7. Buffers'
      BY <1>1, <1>2, <3>2 DEF Buffers, Silent, OwnInv, Ranges
    <3> QED
      BY <3>6, <3>7
  <2> QED
    BY <2>6, <2>7
<1> QED
  BY <1>3, <1>4

LEMMA OpenerWires ==
    ASSUME OneTopicEach, IndexInv, OwnInv, Wired, Buffers, NEW s \in Sessions, OpenerStep(s)
    PROVE  Wired' /\ Buffers'
<1>1. /\ UNCHANGED <<out, sess, node, buf, ofor, ctl, req, ans>>
  BY DEF OpenerStep, OpenForWriting, Verify, Attach, clientVars, requestVars
<1>2. CASE OpenForWriting(s)
  <2>1. /\ opc[s] = "start" /\ UNCHANGED consumers
        /\ oino' = [oino EXCEPT ![s] = node[NameOf[ofor[s]]]]
        /\ \A z \in Sessions \ {s} : opc'[z] = opc[z]
        /\ opc'[s] \in {"opened", "block"}
        /\ \A q \in Procs : proc'[q] = proc[q] \/ (proc[q] = "opening" /\ proc'[q] = "check")
    BY <1>2 DEF OpenForWriting, ReleaseReaders, topicVars, OwnInv, Ranges
  <2>2. \A z \in Sessions \ {s} : oino'[z] = oino[z]
    BY <2>1 DEF OwnInv, Ranges
  <2>3. \A z \in Sessions : Silent(z)' <=> Silent(z)
    BY <1>1 DEF Silent
  <2>4. \A t \in Topics : \A n \in DOMAIN consumers[t] : consumers[t][n].fd # s
    BY <2>1 DEF Wired
  <2>5. Wired'
    BY <1>1, <2>1, <2>2, <2>3, <2>4 DEF Wired, Down, Admitting
  <2>6. \A q \in Subscribers : /\ Served(q)' /\ proc'[q] \notin Reading
                                      => Served(q) /\ proc[q] \notin Reading
                               /\ proc'[q] \in Before => proc[q] \in Before
    BY <1>1, <2>1 DEF Served, Admitting, Reading, Before, Procs
  <2>7. Buffers'
    BY <1>1, <2>1, <2>3, <2>6 DEF Buffers, Before
  <2> QED
    BY <2>5, <2>7
<1>3. CASE Verify(s) \/ (Attach(s) /\ UNCHANGED consumers)
  <2>1. /\ UNCHANGED <<proc, consumers, oino>>
        /\ \A z \in Sessions : \/ opc'[z] = opc[z]
                               \/ z = s /\ opc[z] = "opened" /\ opc'[z] \in {"checked", "closed"}
                               \/ z = s /\ opc[z] = "checked" /\ opc'[z] \in {"attached", "closed"}
    BY <1>3 DEF Verify, Attach, clientVars, topicVars, OwnInv, Ranges
  <2>2. \A z \in Sessions : Silent(z)' <=> Silent(z)
    BY <1>1 DEF Silent
  <2>3. Wired'
    BY <1>1, <2>1, <2>2 DEF Wired, Down, Admitting
  <2>4. Buffers'
    BY <1>1, <2>1, <2>2 DEF Buffers, Served, Admitting
  <2> QED
    BY <2>3, <2>4
<1>4. CASE Attach(s) /\ ~UNCHANGED consumers
  <2>1. PICK t, n : /\ t = TopicOf[ofor[s]] /\ n = NameOf[ofor[s]]
                    /\ consumers' = [consumers EXCEPT ![t][n].fd = s]
                    /\ opc[s] = "checked" /\ opc' = [opc EXCEPT ![s] = "attached"]
                    /\ UNCHANGED <<proc, oino>>
    BY <1>4 DEF Attach, SetFd, clientVars
  <2>2. \A z \in Sessions : opc'[z] = IF z = s THEN "attached" ELSE opc[z]
    BY <2>1 DEF OwnInv, Ranges
  <2>3. \A z \in Sessions : Silent(z)' <=> Silent(z)
    BY <1>1 DEF Silent
  <2>4. \A u \in Topics : /\ DOMAIN consumers'[u] = DOMAIN consumers[u]
                          /\ \A m \in DOMAIN consumers[u] :
                                consumers'[u][m].fd = IF u = t /\ m = n THEN s ELSE consumers[u][m].fd
    <3>1. consumers \in [Topics -> Partial(Slot)] /\ consumers' = [consumers EXCEPT ![t][n].fd = s]
      BY <2>1 DEF IndexInv, Safe, Shape
    <3>2. \A u \in Topics :
             /\ DOMAIN consumers'[u] = DOMAIN consumers[u]
             /\ \A m \in DOMAIN consumers[u] :
                   /\ consumers'[u][m].offset = consumers[u][m].offset
                   /\ consumers'[u][m].from = consumers[u][m].from
                   /\ consumers'[u][m].wants = consumers[u][m].wants
                   /\ consumers'[u][m].fd = IF u = t /\ m = n THEN s ELSE consumers[u][m].fd
      BY <3>1, FdWritten
    <3> QED
      BY <3>2
  <2>5. oino[s] = s /\ Silent(s)
    BY <2>1 DEF OwnInv, Pipes, WriterLabels, Buffers
  <2>6. Wired'
    BY <1>1, <2>1, <2>2, <2>3, <2>4, <2>5, SMTT(40) DEF Wired, Down, Admitting
  <2>7. Buffers'
    BY <1>1, <2>1, <2>2, <2>3 DEF Buffers, Served, Admitting
  <2> QED
    BY <2>6, <2>7
<1> QED
  BY <1>2, <1>3, <1>4 DEF OpenerStep

\* Writing to a pipe somebody reads.
LEMMA WrittenBuffers ==
    ASSUME IndexInv, OwnInv, Wired, Buffers, NEW s \in Sessions, Readers(s) # {},
           opc[s] = "attached", NEW m \in Nat \cup {EOT}, m = EOT => opc'[s] = "closed",
           buf' = [buf EXCEPT ![s] = Append(@, m)],
           opc'[s] \in {"attached", "closed"}, \A z \in Sessions \ {s} : opc'[z] = opc[z],
           UNCHANGED <<proc, out, ctl, req, ans, node>>
    PROVE  Buffers'
<1>1. buf[s] \in Seq(Nat \cup {EOT}) /\ buf'[s] = Append(buf[s], m)
      /\ \A z \in Sessions \ {s} : buf'[z] = buf[z]
  BY DEF OwnInv, Ranges
<1>2. /\ Len(buf'[s]) = Len(buf[s]) + 1 /\ Len(buf[s]) \in Nat /\ buf'[s][Len(buf'[s])] = m
      /\ \A j \in 1..Len(buf[s]) : buf'[s][j] = buf[s][j]
  BY <1>1
<1>3. m # EOT /\ Silent(s) => Silent(s)'
  <2>1. \A j \in 1..Len(buf'[s]) : j \in 1..Len(buf[s]) \/ j = Len(buf'[s])
    BY <1>2
  <2> QED
    BY <1>2, <2>1 DEF Silent
<1>4. \A z \in Sessions \ {s} : Silent(z)' <=> Silent(z)
  BY <1>1 DEF Silent
<1>5. PICK q \in Subscribers : q \in Readers(s) /\ proc[q] \in Reading
  BY DEF Readers
<1>6. \A p \in Subscribers : Served(p) /\ proc[p] \notin Reading => node[NameOf[p]] # s
  BY <1>5, PipeOf
<1>7. \A p \in Subscribers : Served(p)' <=> Served(p)
  BY DEF Served, Admitting
<1>8. \A p \in Subscribers : Served(p)' /\ proc'[p] \notin Reading => buf'[node'[NameOf[p]]] = <<>>
  <2> SUFFICES ASSUME NEW p \in Subscribers, Served(p)', proc'[p] \notin Reading
               PROVE  buf'[node'[NameOf[p]]] = <<>>
    OBVIOUS
  <2>1. Served(p) /\ proc[p] \notin Reading
    BY <1>7
  <2>2. node[NameOf[p]] \in Sessions \ {s}
    BY <1>6, <2>1, PipeOf
  <2>3. buf[node[NameOf[p]]] = <<>>
    BY <2>1 DEF Buffers
  <2> QED
    BY <1>1, <2>2, <2>3
<1>9. /\ \A i \in Sessions : opc'[i] \in {"none", "start", "block"} => buf'[i] = <<>>
      /\ \A i \in Sessions : ~Silent(i)' => opc'[i] = "closed"
  BY <1>1, <1>3, <1>4 DEF Buffers
<1> QED
  BY <1>8, <1>9 DEF Buffers

\* What the worker writes, or lets go of.
LEMMA WorkerWires ==
    ASSUME OneTopicEach, IndexInv, OwnInv, Rounds, Wired, Buffers, NEW t \in Topics, WorkerStep(t)
    PROVE  Wired' /\ Buffers'
<1>1. /\ UNCHANGED <<proc, out, ctl, req, ans, sess, node, ofor, oino>>
      /\ consumers \in [Topics -> Partial(Slot)]
      /\ opc \in [Sessions -> {"none", "start", "closed"} \cup WriterLabels]
      /\ buf \in [Sessions -> Seq(Nat \cup {EOT})]
  BY DEF WorkerStep, Wake, Visit, Deliver, PersistGet, PersistSet, SendSentinel, clientVars,
         requestVars, pipeVars, IndexInv, Safe, Shape, OwnInv, Ranges
<1>2. ~Down \/ wpc[t] = "exited"
  BY DEF IndexInv, Sync
<1>3. \A p \in Subscribers : Served(p)' <=> Served(p)
  BY <1>1 DEF Served, Admitting
<1>4. CASE UNCHANGED <<consumers, buf, opc>>
  BY <1>1, <1>3, <1>4, QuietWires DEF Down, Admitting
<1>5. ASSUME NEW n \in DOMAIN consumers[t], NEW s \in Sessions, s = consumers[t][n].fd, ~Down
      PROVE  /\ opc[s] = "attached" /\ oino[s] = s /\ Silent(s)
             /\ consumers' = [consumers EXCEPT ![t][n].fd = 0] =>
                   \A u \in Topics : \A m \in DOMAIN consumers'[u] :
                      /\ m \in DOMAIN consumers[u]
                      /\ consumers'[u][m].fd \in {consumers[u][m].fd, 0} \ {s}
  <2>1. opc[s] = "attached" /\ oino[s] = s /\ Silent(s)
    BY <1>5 DEF Wired
  <2>2. ASSUME consumers' = [consumers EXCEPT ![t][n].fd = 0],
               NEW u \in Topics, NEW m \in DOMAIN consumers'[u]
        PROVE  /\ m \in DOMAIN consumers[u]
               /\ consumers'[u][m].fd \in {consumers[u][m].fd, 0} \ {s}
    <3>1. /\ DOMAIN consumers'[u] = DOMAIN consumers[u]
          /\ \A k \in DOMAIN consumers[u] :
                consumers'[u][k].fd = IF u = t /\ k = n THEN 0 ELSE consumers[u][k].fd
      BY <1>1, <2>2, FdWritten
    <3>2. consumers[u][m].fd = s => u = t /\ m = n
      BY <1>5, <2>2, <3>1, OneConsumerPerPipe DEF IndexInv
    <3> QED
      BY <2>2, <3>1, <3>2 DEF Sessions
  <2> QED
    BY <2>1, <2>2
<1>6. ctl' = "register" \/ Admitting' => ctl = "register" \/ Admitting
  BY <1>1 DEF Admitting
<1>7. CASE Deliver(t)
  <2>1. /\ wpc[t] = "write" /\ ~Down
        /\ wcur[t] \in DOMAIN consumers[t] /\ consumers[t][wcur[t]].fd # 0
    BY <1>2, <1>7 DEF Deliver, IndexInv, Safe, Iteration, IteratorValid, Rounds, Round
  <2>2. PICK n \in DOMAIN consumers[t] : n = wcur[t]
    BY <2>1
  <2>3. /\ consumers[t][n].fd \in Sessions /\ consumers[t][n].offset \in Nat
    BY <1>1, <2>1, <2>2, FieldTypes
  <2>4. PICK s \in Sessions : s = consumers[t][n].fd
    BY <2>3
  <2>5. opc[s] = "attached" /\ oino[s] = s /\ Silent(s)
    BY <1>5, <2>1, <2>4
  <2>6. \/ /\ consumers' = [consumers EXCEPT ![t][n].fd = 0]
           /\ opc' = [opc EXCEPT ![s] = "closed"] /\ UNCHANGED buf
        \/ /\ consumers' = [consumers EXCEPT ![t][n].offset = @ + 1] /\ UNCHANGED opc
           /\ \/ UNCHANGED buf
              \/ /\ Readers(s) # {}
                 /\ buf' = [buf EXCEPT ![s] = Append(@, consumers[t][n].offset)]
    BY <1>7, <2>2, <2>4, <2>5 DEF Deliver, SetFd
  <2>7. CASE /\ consumers' = [consumers EXCEPT ![t][n].fd = 0]
             /\ opc' = [opc EXCEPT ![s] = "closed"] /\ UNCHANGED buf
    <3>1. \A u \in Topics : \A m \in DOMAIN consumers'[u] :
             /\ m \in DOMAIN consumers[u]
             /\ consumers'[u][m].fd \in {consumers[u][m].fd, 0} \ {s}
      BY <1>5, <2>1, <2>4, <2>7
    <3>2. Wired'
      BY <1>1, <1>6, <2>1, <2>5, <2>7, <3>1, UnplugWires
    <3>3. Buffers'
      BY <1>1, <1>3, <2>7 DEF Buffers, Silent
    <3> QED
      BY <3>2, <3>3
  <2>8. CASE /\ consumers' = [consumers EXCEPT ![t][n].offset = @ + 1] /\ UNCHANGED opc
             /\ \/ UNCHANGED buf
                \/ /\ Readers(s) # {}
                   /\ buf' = [buf EXCEPT ![s] = Append(@, consumers[t][n].offset)]
    <3>1. \A u \in Topics : /\ DOMAIN consumers'[u] = DOMAIN consumers[u]
                            /\ \A m \in DOMAIN consumers[u] :
                                  consumers'[u][m].fd = consumers[u][m].fd
      BY <1>1, <2>8, OffsetAdvanced
    <3>2. Buffers'
      <4>1. CASE UNCHANGED buf
        BY <1>1, <1>3, <2>8, <4>1 DEF Buffers, Silent
      <4>2. CASE buf' # buf
        <5>1. consumers[t][n].offset # EOT /\ consumers[t][n].offset \in Nat \cup {EOT}
          BY <2>3 DEF EOT
        <5> QED
          BY <1>1, <2>5, <2>8, <4>2, <5>1, WrittenBuffers
      <4> QED
        BY <4>1, <4>2
    <3>3. \A z \in Sessions : opc[z] = "attached" => Silent(z)'
      BY <1>1, <2>8, <3>2 DEF Buffers
    <3>4. Wired'
      BY <1>1, <2>1, <2>8, <3>1, <3>3 DEF Wired, Down, Admitting
    <3> QED
      BY <3>2, <3>4
  <2> QED
    BY <2>6, <2>7, <2>8
<1>8. CASE SendSentinel(t) /\ ~UNCHANGED <<consumers, buf, opc>>
  <2>1. /\ wpc[t] = "eot" /\ ~Down
    BY <1>2, <1>8 DEF SendSentinel
  <2>2. PICK n \in wtodo[t] :
           /\ buf' = IF Readers(oino[consumers[t][n].fd]) = {} THEN buf
                     ELSE [buf EXCEPT ![oino[consumers[t][n].fd]] = Append(@, EOT)]
           /\ SetFd(t, n, 0) /\ opc' = [opc EXCEPT ![consumers[t][n].fd] = "closed"]
    BY <1>8 DEF SendSentinel
  <2>3. n \in DOMAIN consumers[t] /\ consumers[t][n].fd # 0
    BY <2>1 DEF IndexInv, Safe, Iteration, IteratorValid, Rounds, Round
  <2>4. PICK s \in Sessions : s = consumers[t][n].fd
    BY <1>1, <2>3, FieldTypes
  <2>5. opc[s] = "attached" /\ oino[s] = s
    BY <1>5, <2>1, <2>3, <2>4
  <2>6. /\ consumers' = [consumers EXCEPT ![t][n].fd = 0]
        /\ opc' = [opc EXCEPT ![s] = "closed"]
        /\ buf' = IF Readers(s) = {} THEN buf ELSE [buf EXCEPT ![s] = Append(@, EOT)]
    BY <2>2, <2>4, <2>5 DEF SetFd
  <2>7. /\ opc'[s] = "closed" /\ \A z \in Sessions \ {s} : opc'[z] = opc[z]
        /\ \A z \in Sessions \ {s} : buf'[z] = buf[z]
    BY <1>1, <2>6
  <2>8. Wired'
    <3>1. \A u \in Topics : \A m \in DOMAIN consumers'[u] :
             /\ m \in DOMAIN consumers[u]
             /\ consumers'[u][m].fd \in {consumers[u][m].fd, 0} \ {s}
      BY <1>5, <2>1, <2>3, <2>4, <2>6
    <3> QED
      BY <1>1, <1>6, <2>1, <2>5, <2>6, <2>7, <3>1, UnplugWires
  <2>9. Buffers'
    <3>1. CASE UNCHANGED buf
      BY <1>1, <1>3, <2>7, <3>1 DEF Buffers, Silent
    <3>2. CASE buf' # buf
      BY <1>1, <2>5, <2>6, <2>7, <3>2, WrittenBuffers
    <3> QED
      BY <3>1, <3>2
  <2> QED
    BY <2>8, <2>9
<1>9. CASE Wake(t) \/ Visit(t) \/ PersistGet(t) \/ PersistSet(t)
  BY <1>4, <1>9 DEF Wake, Visit, PersistGet, PersistSet, pipeVars
<1> QED
  BY <1>4, <1>7, <1>8, <1>9 DEF WorkerStep

LEMMA NextWires ==
    ASSUME OneTopicEach, IndexInv, OwnInv, OwnInv', Rounds, Wired, Buffers, [Next]_vars
    PROVE  Wired' /\ Buffers'
<1>1. CASE ClientStep
  BY <1>1, ClientWires
<1>2. CASE ControlStep
  BY <1>2, IdleWires, StoreMetaWires, RegisterWires, ReplyWires, UnregisterWires DEF ControlStep
<1>3. ASSUME NEW s \in Sessions, OpenerStep(s)
      PROVE  Wired' /\ Buffers'
  BY <1>3, OpenerWires
<1>4. ASSUME NEW t \in Topics, WorkerStep(t)
      PROVE  Wired' /\ Buffers'
  BY <1>4, WorkerWires
<1>5. CASE Sigterm \/ Exit \/ UNCHANGED vars
  BY <1>5, IdleWires
<1> QED
  BY <1>1, <1>2, <1>3, <1>4, <1>5 DEF Next, ClientStep

-----------------------------------------------------------------------------
(* What has been delivered.                                                *)

Bytes == Nat \cup {EOT}
Contents(s) == {s[j] : j \in 1..Len(s)}
Rising(s) == \A j, k \in 1..Len(s) : j < k => s[j] < s[k]

\* What a subscriber has printed and has still to read is what its consumer
\* wants of the log, between the offset it began with and the one it is at.
Due(p) == out[p] \o buf[node[NameOf[p]]]
ItsConsumer(p) == consumers[TopicOf[p]][NameOf[p]]
Exact(p) ==
    /\ ItsConsumer(p).wants = PrefixOf[p]
    /\ Silent(node[NameOf[p]]) =>
          /\ Contents(Due(p)) = Wanted(p, ItsConsumer(p).from, ItsConsumer(p).offset)
          /\ Rising(Due(p))
Exactly == \A p \in Subscribers : Served(p) => Exact(p)

LEMMA EmptyContents == Contents(<<>>) = {} /\ Rising(<<>>)
BY DEF Contents, Rising

\* A message that is read leaves the pipe and is printed.
LEMMA ReadOn ==
    ASSUME NEW a \in Seq(Bytes), NEW b \in Seq(Bytes), b # <<>>
    PROVE  Append(a, Head(b)) \o Tail(b) = a \o b
<1>1. Head(b) \in Bytes /\ Tail(b) \in Seq(Bytes)
  BY HeadTailProperties
<1>2. Append(a, Head(b)) \in Seq(Bytes)
  BY <1>1
<1>3. Append(a, Head(b)) \o Tail(b) \in Seq(Bytes) /\ a \o b \in Seq(Bytes)
  BY <1>1, <1>2
<1>4. Len(Append(a, Head(b)) \o Tail(b)) = Len(a \o b)
  BY <1>1, <1>2
<1>5. \A j \in 1..Len(a \o b) : (Append(a, Head(b)) \o Tail(b))[j] = (a \o b)[j]
  BY <1>1, <1>2
<1> QED
  BY <1>3, <1>4, <1>5, SeqEqual

\* A message that is written comes after everything else.
LEMMA WriteOn ==
    ASSUME NEW a \in Seq(Bytes), NEW b \in Seq(Bytes), NEW x \in Bytes
    PROVE  a \o Append(b, x) = Append(a \o b, x)
<1>1. Append(b, x) \in Seq(Bytes) /\ a \o b \in Seq(Bytes)
  OBVIOUS
<1>2. a \o Append(b, x) \in Seq(Bytes) /\ Append(a \o b, x) \in Seq(Bytes)
  BY <1>1
<1>3. Len(a \o Append(b, x)) = Len(Append(a \o b, x))
  BY <1>1
<1>4. \A j \in 1..Len(a \o Append(b, x)) : (a \o Append(b, x))[j] = Append(a \o b, x)[j]
  BY <1>1
<1> QED
  BY <1>2, <1>3, <1>4, SeqEqual

LEMMA AppendContents ==
    ASSUME NEW s \in Seq(Bytes), NEW x \in Bytes
    PROVE  /\ Contents(Append(s, x)) = Contents(s) \cup {x}
           /\ Rising(s) /\ (\A y \in Contents(s) : y < x) => Rising(Append(s, x))
<1>1. /\ Len(s) \in Nat /\ Len(Append(s, x)) = Len(s) + 1
      /\ \A j \in 1..Len(s) : Append(s, x)[j] = s[j]
      /\ Append(s, x)[Len(s) + 1] = x
  OBVIOUS
<1>2. \A j : j \in 1..(Len(s) + 1) <=> j \in 1..Len(s) \/ j = Len(s) + 1
  BY <1>1
<1> HIDE DEF Bytes
<1>3. Contents(Append(s, x)) = Contents(s) \cup {x}
  BY <1>1, <1>2 DEF Contents
<1>4. ASSUME Rising(s), \A y \in Contents(s) : y < x
      PROVE  Rising(Append(s, x))
  <2>1. \A j \in 1..Len(s) : s[j] < x
    BY <1>4 DEF Contents
  <2> QED
    BY <1>1, <1>4, <2>1 DEF Rising
<1> QED
  BY <1>3, <1>4

LEMMA TailContents ==
    ASSUME NEW b \in Seq(Bytes), b # <<>>
    PROVE  Contents(b) = {Head(b)} \cup Contents(Tail(b))
<1>1. /\ Len(b) \in Nat \ {0} /\ Len(Tail(b)) = Len(b) - 1 /\ Head(b) = b[1]
      /\ \A j \in 1..Len(Tail(b)) : Tail(b)[j] = b[j + 1]
  OBVIOUS
<1>2. /\ 1 \in 1..Len(b)
      /\ \A j \in 1..Len(Tail(b)) : j + 1 \in 1..Len(b)
  BY <1>1
<1>3. ASSUME NEW j \in 1..Len(b) PROVE b[j] \in {Head(b)} \cup Contents(Tail(b))
  <2>1. CASE j = 1
    BY <1>1, <2>1
  <2>2. CASE j # 1
    <3>1. j - 1 \in 1..Len(Tail(b)) /\ (j - 1) + 1 = j
      BY <1>1, <2>2
    <3>2. Tail(b)[j - 1] = b[j]
      BY <1>1, <3>1
    <3> QED
      BY <3>1, <3>2 DEF Contents
  <2> QED
    BY <2>1, <2>2
<1>4. Contents(Tail(b)) \subseteq Contents(b) /\ Head(b) \in Contents(b)
  BY <1>1, <1>2 DEF Contents
<1>5. Contents(b) \subseteq {Head(b)} \cup Contents(Tail(b))
  BY <1>3 DEF Contents
<1> QED
  BY <1>4, <1>5

\* Only a registration makes somebody served.
LEMMA ServedStays ==
    ASSUME IndexInv, OwnInv, [Next]_vars, ~Register
    PROVE  \A p \in Subscribers : Served(p)' => Served(p)
<1> DEFINE Stays == \A p \in Subscribers : Served(p)' => Served(p)
<1>0. Subscribers \subseteq Procs /\ Producers \subseteq Procs /\ proc \in [Procs -> ProcLabels]
  BY DEF Procs, OwnInv, Ranges
<1>1. ASSUME UNCHANGED proc, Admitting' => Admitting /\ req' = req
      PROVE  Stays
  BY <1>1 DEF Served
<1>2. ASSUME NEW p \in Procs, NEW l \in {"check", "enter", "read", "opening", "bye", "off", "stream"},
             proc' = [proc EXCEPT ![p] = l], l \in Reading => proc[p] \in {"open"} \cup Reading,
             Admitting' => Admitting /\ req' = req
      PROVE  Stays
  <2>1. \A q \in Procs : proc'[q] = IF q = p THEN l ELSE proc[q]
    BY <1>0, <1>2
  <2>2. l \notin {"open", "await"}
    OBVIOUS
  <2> QED
    BY <1>0, <1>2, <2>1, <2>2 DEF Served, Reading
<1>3. ASSUME NEW p \in Procs, NEW cmd, NEW o, Request(p, cmd, o)
      PROVE  Stays
  <2>1. /\ proc[p] = "idle" /\ UNCHANGED <<ctl, req, ans>>
        /\ \A q \in Procs : proc'[q] = IF q = p THEN "await" ELSE proc[q]
    BY <1>0, <1>3 DEF Request, Goto
  <2>2. ~(Admitting /\ req.by = p)
    BY <2>1 DEF OwnInv, Patient, Asking, Handled, Admitting
  <2> QED
    BY <1>0, <2>1, <2>2 DEF Served, Admitting, Reading
<1>4. CASE ClientStep
  <2>1. UNCHANGED <<ctl, req, ans>>
    <3>1. CASE Start
      BY <3>1 DEF Start, Request
    <3>2. CASE ~Start
      BY <1>4, <3>2 DEF ClientStep, SubscriberStep, OpenChannel, Check, BlockInRead, ReadMessage,
         ReadEof, Disconnect, Signal, Kill, Produce, EndOfInput, requestVars
    <3> QED
      BY <3>1, <3>2
  <2>2. CASE Start
    BY <1>3, <2>2 DEF Start, Procs
  <2>3. CASE UNCHANGED proc
    BY <1>1, <2>1, <2>3 DEF Admitting
  <2>4. CASE ~Start /\ proc' # proc
    <3>1. \E p \in Procs : \E l \in {"check", "enter", "read", "opening", "bye", "off", "stream"} :
             proc' = [proc EXCEPT ![p] = l] /\ (l \in Reading => proc[p] \in {"open"} \cup Reading)
      BY <1>0, <1>4, <2>4 DEF ClientStep, SubscriberStep, OpenChannel, Check, BlockInRead, ReadMessage,
         ReadEof, Disconnect, Signal, Kill, Produce, EndOfInput, Goto, clientVars, Reading
    <3> QED
      BY <1>2, <2>1, <3>1 DEF Admitting
  <2> QED
    BY <2>2, <2>3, <2>4
<1>5. CASE Reply
  <2>1. /\ ~Admitting' /\ proc[req.by] = "await" /\ req.by \in Procs
        /\ \A q \in Procs : proc'[q] = IF q # req.by THEN proc[q]
                                       ELSE IF Admitting THEN "open"
                                       ELSE proc'[req.by]
        /\ ~Admitting => proc'[req.by] \in {"stream", "off"}
    BY <1>0, <1>5 DEF Reply, Admitting, Goto, OwnInv, Handling, Handled, Requests
  <2> QED
    BY <1>0, <2>1 DEF Served, Reading
<1>6. ASSUME NEW s \in Sessions, OpenerStep(s)
      PROVE  Stays
  <2>1. UNCHANGED <<ctl, req, ans>>
    BY <1>6 DEF OpenerStep, OpenForWriting, Verify, Attach, requestVars
  <2>2. \A q \in Procs : proc'[q] = proc[q] \/ (proc[q] = "opening" /\ proc'[q] = "check")
    BY <1>6 DEF OpenerStep, OpenForWriting, Verify, Attach, ReleaseReaders, clientVars
  <2> QED
    BY <1>0, <2>1, <2>2 DEF Served, Admitting, Reading
<1>7. ASSUME NEW t \in Topics, WorkerStep(t)
      PROVE  Stays
  <2>1. UNCHANGED <<proc, ctl, req, ans>>
    BY <1>7 DEF WorkerStep, Wake, Visit, Deliver, PersistGet, PersistSet, SendSentinel, clientVars,
       requestVars
  <2> QED
    BY <1>1, <2>1 DEF Admitting
<1>8. CASE StoreMeta \/ Unregister
  <2>1. UNCHANGED proc /\ ctl' # "reply"
    BY <1>8 DEF StoreMeta, Unregister, clientVars
  <2> QED
    BY <1>1, <2>1 DEF Admitting
<1>9. CASE \/ LoopTop \/ Poll \/ Dispatch \/ Create \/ LookUp \/ Subscribe
           \/ StopTopic \/ DestroyTopics \/ Sigterm \/ Exit \/ UNCHANGED vars
  <2>1. UNCHANGED proc
    BY <1>9 DEF LoopTop, Poll, Dispatch, Create, LookUp, Subscribe, StopTopic, DestroyTopics, Sigterm,
       Exit, vars, clientVars
  <2>2. ~Admitting' \/ UNCHANGED <<ctl, req, ans>>
    BY <1>9, IdleAdmits
  <2> QED
    BY <1>1, <2>1, <2>2 DEF Admitting
<1> QED
  BY <1>4, <1>5, <1>6, <1>7, <1>8, <1>9 DEF Next, ClientStep, ControlStep

LEMMA ExactKept ==
    ASSUME NEW p \in Subscribers, Exact(p), UNCHANGED log,
           ItsConsumer(p)'.wants = ItsConsumer(p).wants,
           ItsConsumer(p)'.from = ItsConsumer(p).from,
           ItsConsumer(p)'.offset = ItsConsumer(p).offset,
           Silent(node[NameOf[p]])' => Silent(node[NameOf[p]]) /\ Due(p)' = Due(p)
    PROVE  Exact(p)'
BY DEF Exact, Wanted, Contents, Rising

\* Whatever leaves the messages and the offsets alone.
LEMMA ExactStays ==
    ASSUME IndexInv, OwnInv, Exactly, UNCHANGED <<out, buf, node, log>>,
           \A p \in Subscribers : Served(p)' => Served(p),
           \/ UNCHANGED consumers
           \/ Unregister /\ OwnInv' /\ IndexInv'
           \/ \E t, n, s : consumers' = [consumers EXCEPT ![t][n].fd = s]
    PROVE  Exactly'
<1> SUFFICES ASSUME NEW p \in Subscribers, Served(p)' PROVE Exact(p)'
  BY DEF Exactly
<1>1. Served(p) /\ Exact(p)
  BY DEF Exactly
<1>2. Silent(node[NameOf[p]])' => Silent(node[NameOf[p]]) /\ Due(p)' = Due(p)
  BY DEF Silent, Due
<1>3. TopicOf[p] \in Topics /\ NameOf[p] \in DOMAIN consumers[TopicOf[p]]
  BY <1>1, PipeOf
<1>4. consumers \in [Topics -> Partial(Slot)]
  BY DEF IndexInv, Safe, Shape
<1>5. CASE UNCHANGED consumers
  BY <1>1, <1>2, <1>5, ExactKept DEF ItsConsumer
<1>6. CASE Unregister /\ OwnInv' /\ IndexInv'
  <2>1. Holds(p)'
    BY DEF Served, Holds, Live
  <2>2. NameOf[p] \in DOMAIN consumers'[TopicOf[p]]
    BY <1>6, <2>1 DEF OwnInv, Tenure, Active
  <2>3. ItsConsumer(p)' = ItsConsumer(p)
    BY <1>3, <1>4, <1>6, <2>2, RemovalLemma DEF ItsConsumer
  <2> QED
    BY <1>1, <1>2, <2>3, ExactKept
<1>7. CASE \E t, n, s : consumers' = [consumers EXCEPT ![t][n].fd = s]
  <2>1. PICK t, n, s : consumers' = [consumers EXCEPT ![t][n].fd = s]
    BY <1>7
  <2>2. /\ ItsConsumer(p)'.wants = ItsConsumer(p).wants
        /\ ItsConsumer(p)'.from = ItsConsumer(p).from
        /\ ItsConsumer(p)'.offset = ItsConsumer(p).offset
    BY <1>3, <1>4, <2>1, FdWritten DEF ItsConsumer
  <2> QED
    BY <1>1, <1>2, <2>2, ExactKept
<1> QED
  BY <1>5, <1>6, <1>7

\* What is produced comes after everything that has been delivered.
LEMMA ProduceExact ==
    ASSUME IndexInv, OwnInv, Rounds, Exactly, NEW q \in Producers, NEW k \in Keys, Produce(q, k)
    PROVE  Exactly'
<1>1. /\ UNCHANGED <<out, buf, node, consumers, proc, ctl, ans, req>>
      /\ log' = [log EXCEPT ![TopicOf[q]] = Append(@, k)] /\ log \in [Topics -> Seq(Keys)]
  BY DEF Produce, clientVars, requestVars, pipeVars, OwnInv, Ranges
<1> SUFFICES ASSUME NEW p \in Subscribers, Served(p)' PROVE Exact(p)'
  BY DEF Exactly
<1>2. Served(p) /\ Exact(p)
  BY <1>1 DEF Exactly, Served, Admitting
<1>3. TopicOf[p] \in Topics /\ NameOf[p] \in DOMAIN consumers[TopicOf[p]]
  BY <1>2, PipeOf
<1> DEFINE c == ItsConsumer(p)
           l == log[TopicOf[p]]
<1>4. /\ c.from \in Nat /\ c.offset \in Nat
      /\ c.from <= c.offset /\ (c.from < c.offset => c.offset <= Len(l))
  BY <1>3, FieldTypes DEF IndexInv, Safe, Shape, Rounds, Round, ItsConsumer
<1>5. l \in Seq(Keys) /\ (l' = l \/ l' = Append(l, k))
  BY <1>1, <1>3
<1>6. \A o \in c.from..(c.offset - 1) : l'[o + 1] = l[o + 1]
  <2> SUFFICES ASSUME NEW o \in c.from..(c.offset - 1) PROVE l'[o + 1] = l[o + 1]
    OBVIOUS
  <2>1. o + 1 \in 1..Len(l)
    BY <1>4, <1>5
  <2> QED
    BY <1>5, <2>1
<1>7. c' = c
  BY <1>1 DEF ItsConsumer
<1>8. Wanted(p, c.from, c.offset)' = Wanted(p, c.from, c.offset)
  BY <1>6, <1>7 DEF Wanted
<1>9. /\ Due(p)' = Due(p)
      /\ Silent(node[NameOf[p]])' <=> Silent(node[NameOf[p]])
  BY <1>1 DEF Due, Silent
<1>10. /\ Contents(Due(p))' = Contents(Due(p))
       /\ Rising(Due(p))' <=> Rising(Due(p))
  BY <1>9 DEF Contents, Rising
<1> QED
  BY <1>2, <1>7, <1>8, <1>9, <1>10 DEF Exact

LEMMA ReadExact ==
    ASSUME IndexInv, OwnInv, Buffers, Exactly, NEW q \in Subscribers, ReadMessage(q)
    PROVE  Exactly'
<1> DEFINE i == ino[q]
<1>1. /\ proc[q] \in {"enter", "read"} /\ buf[i] # <<>>
      /\ buf' = [buf EXCEPT ![i] = Tail(@)]
      /\ UNCHANGED <<ctl, req, ans, consumers, node, log>>
  BY DEF ReadMessage, topicVars, requestVars
<1>2. q \in Readers(i) /\ i = node[NameOf[q]] /\ i \in Sessions /\ Served(q)
  BY <1>1, PipeOf DEF Served, Reading, Readers
<1>3. /\ buf[i] \in Seq(Bytes) /\ buf'[i] = Tail(buf[i])
      /\ \A z \in Sessions \ {i} : buf'[z] = buf[z]
  BY <1>1, <1>2 DEF OwnInv, Ranges, Bytes
<1>4. /\ \A p \in Subscribers \ {q} : out'[p] = out[p] /\ proc'[p] = proc[p]
      /\ Head(buf[i]) = EOT => proc'[q] = "off"
      /\ Head(buf[i]) # EOT => out'[q] = Append(out[q], Head(buf[i]))
  BY DEF ReadMessage, Goto, OwnInv, Ranges, Buffers, Procs
<1> SUFFICES ASSUME NEW p \in Subscribers, Served(p)' PROVE Exact(p)'
  BY DEF Exactly
<1>5. ItsConsumer(p)' = ItsConsumer(p) /\ UNCHANGED log
  BY <1>1 DEF ItsConsumer
<1>6. CASE p = q
  <2>1. Head(buf[i]) # EOT
    BY <1>1, <1>4, <1>6 DEF Served, Reading, Admitting
  <2>2. out[q] \in Seq(Bytes)
    <3>1. out[q] \in Seq(Nat) /\ Nat \subseteq Bytes
      BY DEF Buffers, Bytes
    <3> QED
      BY <3>1, SeqMonotonic
  <2>3. Append(out[q], Head(buf[i])) \o Tail(buf[i]) = out[q] \o buf[i]
    BY <1>1, <1>3, <2>2, ReadOn
  <2>4. Due(p)' = Due(p)
    BY <1>1, <1>2, <1>3, <1>4, <1>6, <2>1, <2>3 DEF Due
  <2>5. Silent(i)' => Silent(i)
    <3>1. Contents(buf[i]) = {Head(buf[i])} \cup Contents(Tail(buf[i]))
      BY <1>1, <1>3, TailContents
    <3>2. EOT \notin Contents(Tail(buf[i])) => EOT \notin Contents(buf[i])
      BY <2>1, <3>1
    <3>3. Silent(i)' => EOT \notin Contents(Tail(buf[i]))
      <4>1. i' = i
        BY DEF ReadMessage
      <4> QED
        BY <1>3, <4>1 DEF Silent, Contents
    <3>4. EOT \notin Contents(buf[i]) => Silent(i)
      BY DEF Silent, Contents
    <3> QED
      BY <3>2, <3>3, <3>4
  <2>6. Silent(node[NameOf[p]])' => Silent(node[NameOf[p]])
    <3>1. i' = i /\ node' = node
      BY <1>1 DEF ReadMessage
    <3> QED
      BY <1>2, <1>6, <2>5, <3>1 DEF Silent
  <2> QED
    BY <1>2, <1>5, <1>6, <2>4, <2>6, ExactKept DEF Exactly
<1>7. CASE p # q
  <2>1. Served(p)
    BY <1>1, <1>4, <1>7 DEF Served, Admitting
  <2>2. node[NameOf[p]] \in Sessions \ {i}
    BY <1>2, <1>7, <2>1, PipeOf
  <2>3. buf'[node[NameOf[p]]] = buf[node[NameOf[p]]] /\ out'[p] = out[p] /\ node' = node
    BY <1>1, <1>3, <1>4, <1>7, <2>2
  <2> QED
    BY <1>5, <2>1, <2>3, ExactKept DEF Exactly, Due, Silent
<1> QED
  BY <1>6, <1>7

\* A SUBSCRIBE makes the pipe of its name anew, which nobody else uses ...
LEMMA StoreMetaExact ==
    ASSUME OneTopicEach, IndexInv, OwnInv, Exactly, StoreMeta
    PROVE  Exactly'
<1>1. /\ ctl = "store" /\ ctl' = "register"
      /\ UNCHANGED <<proc, out, req, consumers, buf, log>>
      /\ node' = [node EXCEPT ![NameOf[req.by]] = sess + 1]
  BY DEF StoreMeta, clientVars, topicVars
<1> SUFFICES ASSUME NEW p \in Subscribers, Served(p)' PROVE Exact(p)'
  BY DEF Exactly
<1>2. Served(p)
  BY <1>1 DEF Served, Admitting
<1>3. NameOf[p] # NameOf[req.by] /\ NameOf[p] \in Names
  BY <1>1, <1>2, PipeOf, Newcomer DEF IndexInv, Safe
<1>4. node'[NameOf[p]] = node[NameOf[p]]
  BY <1>1, <1>3 DEF OwnInv, Pipes
<1>5. ItsConsumer(p)' = ItsConsumer(p)
  BY <1>1 DEF ItsConsumer
<1>6. Silent(node[NameOf[p]])' => Silent(node[NameOf[p]]) /\ Due(p)' = Due(p)
  BY <1>1, <1>4 DEF Silent, Due
<1> QED
  BY <1>1, <1>2, <1>5, <1>6, ExactKept DEF Exactly

\* ... and whose subscription begins with nothing delivered.
LEMMA RegisterExact ==
    ASSUME OneTopicEach, IndexInv, OwnInv, Wired, Buffers, Exactly, Register
    PROVE  Exactly'
<1> DEFINE c == [offset |-> start, from |-> start, fd |-> 0, wants |-> PrefixOf[req.by]]
<1>1. /\ ctl = "register" /\ req \in Requests /\ req.cmd = "subscribe"
      /\ UNCHANGED <<proc, out, req, node, buf, log>>
      /\ consumers' = [consumers EXCEPT ![TopicOf[req.by]] = Put(@, NameOf[req.by], c)]
      /\ consumers \in [Topics -> Partial(Slot)]
  BY DEF Register, clientVars, pipeVars, IndexInv, Safe, Shape
<1>2. c.offset = start /\ c.from = start /\ c.wants = PrefixOf[req.by] /\ start \in Nat
  BY DEF IndexInv, Safe, Shape
<1> HIDE DEF c
<1>3. /\ req.by \in Subscribers /\ TopicOf[req.by] \in Topics
      /\ consumers'[TopicOf[req.by]] = Put(consumers[TopicOf[req.by]], NameOf[req.by], c)
      /\ \A u \in Topics \ {TopicOf[req.by]} : consumers'[u] = consumers[u]
  BY <1>1, RequestFacts
<1> SUFFICES ASSUME NEW p \in Subscribers, Served(p)' PROVE Exact(p)'
  BY DEF Exactly
<1>4. CASE Served(p)
  <2>1. /\ TopicOf[p] \in Topics /\ NameOf[p] \in DOMAIN consumers[TopicOf[p]]
        /\ NameOf[p] # NameOf[req.by]
    BY <1>1, <1>4, PipeOf, Newcomer DEF IndexInv, Safe
  <2>2. ItsConsumer(p)' = ItsConsumer(p)
    BY <1>3, <2>1 DEF ItsConsumer, Put
  <2>3. Silent(node[NameOf[p]])' => Silent(node[NameOf[p]]) /\ Due(p)' = Due(p)
    BY <1>1 DEF Silent, Due
  <2> QED
    BY <1>1, <1>4, <2>2, <2>3, ExactKept DEF Exactly
<1>5. CASE ~Served(p)
  <2>1. p = req.by /\ proc[p] = "await"
    BY <1>1, <1>5 DEF Served
  <2>2. out'[p] = <<>> /\ buf'[node'[NameOf[p]]] = <<>>
    BY <1>1, <1>3, <2>1 DEF Buffers, Wired, OwnInv, Pipes
  <2>3. Due(p)' = <<>>
    <3>1. <<>> \o <<>> = <<>>
      BY ConcatEmptySeq, EmptySeq
    <3> QED
      BY <2>2, <3>1 DEF Due
  <2>4. ItsConsumer(p)' = c
    BY <1>3, <2>1 DEF ItsConsumer, Put
  <2>5. Wanted(p, ItsConsumer(p).from, ItsConsumer(p).offset)' = {}
    BY <1>2, <2>4 DEF Wanted
  <2> QED
    BY <1>2, <2>1, <2>3, <2>4, <2>5, EmptyContents DEF Exact, Contents, Rising
<1> QED
  BY <1>4, <1>5

\* The worker goes through one message more of one consumer's: the subscriber
\* that holds the consumer's name is the only one that reads the pipe.
LEMMA Advance ==
    ASSUME OneTopicEach, IndexInv, OwnInv, Rounds, Wired, NEW t \in Topics, Deliver(t), wpc'[t] = "get"
    PROVE  \E n \in DOMAIN consumers[t], s \in Sessions, o \in Nat :
              /\ o = consumers[t][n].offset /\ consumers[t][n].from <= o /\ Silent(s)
              /\ UNCHANGED <<clientVars, ctl, req, ans, node, log, index>>
              /\ consumers' = [consumers EXCEPT ![t][n].offset = @ + 1]
              /\ IF log[t][o + 1] \in consumers[t][n].wants
                 THEN Readers(s) # {} /\ buf' = [buf EXCEPT ![s] = Append(@, o)]
                 ELSE UNCHANGED buf
              /\ \A q \in Readers(s) : NameOf[q] = n
<1>1. PICK n \in DOMAIN consumers[t] : n = wcur[t]
  BY DEF Deliver, IndexInv, Safe, Iteration, IteratorValid
<1>2. /\ consumers[t][n].fd # 0 /\ ~Down /\ consumers[t][n].from <= consumers[t][n].offset
      /\ consumers \in [Topics -> Partial(Slot)]
  BY <1>1 DEF Deliver, Rounds, Round, IndexInv, Safe, Shape, Sync
<1>3. PICK s \in Sessions, o \in Nat : s = consumers[t][n].fd /\ o = consumers[t][n].offset
  BY <1>2, FieldTypes
<1>4. oino[s] = s /\ NameOf[ofor[s]] = n /\ Silent(s) /\ opc[s] = "attached"
  BY <1>2, <1>3 DEF Wired
<1>5. ~WorkerGoto(t, "loop")
  BY DEF WorkerGoto, IndexInv, Safe, Shape
<1>6. /\ consumers' = [consumers EXCEPT ![t][n].offset = @ + 1]
      /\ IF log[t][o + 1] \in consumers[t][n].wants
         THEN Readers(s) # {} /\ buf' = [buf EXCEPT ![s] = Append(@, o)]
         ELSE UNCHANGED buf
  BY <1>1, <1>3, <1>4, <1>5 DEF Deliver
<1>7. UNCHANGED <<clientVars, ctl, req, ans, node, log, index>>
  BY DEF Deliver, requestVars
<1>8. ASSUME NEW q \in Readers(s) PROVE NameOf[q] = n
  <2>1. q \in Subscribers /\ proc[q] \in Reading /\ ino[q] = s
    BY <1>8 DEF Readers
  <2>2. node[NameOf[q]] = s /\ NameOf[q] \in Names
    BY <2>1, PipeOf DEF Served
  <2> QED
    BY <1>4, <2>2 DEF Wired
<1> QED
  BY <1>2, <1>3, <1>4, <1>6, <1>7, <1>8

LEMMA AdvanceExact ==
    ASSUME OneTopicEach, IndexInv, OwnInv, Rounds, Wired, Exactly, Buffers,
           NEW t \in Topics, Deliver(t), wpc'[t] = "get"
    PROVE  Exactly'
<1>1. PICK n \in DOMAIN consumers[t], s \in Sessions, hi \in Nat :
         /\ hi = consumers[t][n].offset /\ consumers[t][n].from <= hi /\ Silent(s)
         /\ UNCHANGED <<clientVars, ctl, req, ans, node, log, index>>
         /\ consumers' = [consumers EXCEPT ![t][n].offset = @ + 1]
         /\ IF log[t][hi + 1] \in consumers[t][n].wants
            THEN Readers(s) # {} /\ buf' = [buf EXCEPT ![s] = Append(@, hi)]
            ELSE UNCHANGED buf
         /\ \A q \in Readers(s) : NameOf[q] = n
  BY Advance
<1>2. PICK lo \in Nat : lo = consumers[t][n].from
  BY FieldTypes DEF IndexInv, Safe, Shape
<1>3. UNCHANGED <<proc, out>> /\ consumers \in [Topics -> Partial(Slot)]
  BY <1>1 DEF clientVars, IndexInv, Safe, Shape
<1> DEFINE match == log[t][hi + 1] \in consumers[t][n].wants
<1>4. /\ match => Readers(s) # {} /\ buf' = [buf EXCEPT ![s] = Append(@, hi)]
      /\ ~match => UNCHANGED buf
  BY <1>1
<1>5. \A u \in Topics :
         /\ DOMAIN consumers'[u] = DOMAIN consumers[u]
         /\ \A m \in DOMAIN consumers[u] :
               /\ consumers'[u][m].fd = consumers[u][m].fd
               /\ consumers'[u][m].from = consumers[u][m].from
               /\ consumers'[u][m].wants = consumers[u][m].wants
               /\ consumers'[u][m].offset = IF u = t /\ m = n THEN consumers[u][m].offset + 1
                                            ELSE consumers[u][m].offset
  BY <1>1, <1>3, OffsetAdvanced
<1> SUFFICES ASSUME NEW p \in Subscribers, Served(p)' PROVE Exact(p)'
  BY DEF Exactly
<1>6. Served(p) /\ Exact(p)
  BY <1>1, <1>3 DEF Served, Admitting, Exactly
<1>7. /\ TopicOf[p] \in Topics /\ NameOf[p] \in DOMAIN consumers[TopicOf[p]] /\ NameOf[p] \in Names
      /\ node[NameOf[p]] \in Sessions
  BY <1>6, PipeOf
<1>8. NameOf[p] = n => TopicOf[p] = t
  BY <1>7, OwnedOnce DEF IndexInv, Owners
<1>9. match => \E q \in Subscribers : node[NameOf[q]] = s /\ NameOf[q] = n
  <2> SUFFICES ASSUME match PROVE \E q \in Subscribers : node[NameOf[q]] = s /\ NameOf[q] = n
    OBVIOUS
  <2>1. PICK q \in Subscribers : q \in Readers(s) /\ proc[q] \in Reading /\ ino[q] = s
    BY <1>4 DEF Readers
  <2>2. node[NameOf[q]] = s
    BY <2>1, PipeOf DEF Served
  <2> QED
    BY <1>1, <2>1, <2>2
<1>10. out[p] \in Seq(Bytes) /\ buf[node[NameOf[p]]] \in Seq(Bytes)
  <2>1. out[p] \in Seq(Nat) /\ Nat \subseteq Bytes
    BY DEF Buffers, Bytes
  <2> QED
    BY <1>7, <2>1, SeqMonotonic DEF OwnInv, Ranges, Bytes
<1>11. CASE NameOf[p] # n
  <2>1. match => node[NameOf[p]] # s
    BY <1>7, <1>9, <1>11, ConstantsAssumption DEF OwnInv, Pipes, Sessions
  <2>2. buf'[node[NameOf[p]]] = buf[node[NameOf[p]]]
    BY <1>4, <1>7, <2>1 DEF OwnInv, Ranges
  <2>3. Silent(node[NameOf[p]])' => Silent(node[NameOf[p]]) /\ Due(p)' = Due(p)
    BY <1>1, <1>3, <2>2 DEF Silent, Due
  <2>4. /\ ItsConsumer(p)'.wants = ItsConsumer(p).wants
        /\ ItsConsumer(p)'.from = ItsConsumer(p).from
        /\ ItsConsumer(p)'.offset = ItsConsumer(p).offset
    BY <1>5, <1>7, <1>11 DEF ItsConsumer
  <2> QED
    BY <1>1, <1>6, <2>3, <2>4, ExactKept
<1>12. CASE NameOf[p] = n
  <2>1. /\ ItsConsumer(p) = consumers[t][n] /\ consumers[t][n].wants = PrefixOf[p]
        /\ TopicOf[p] = t
    BY <1>6, <1>8, <1>12 DEF ItsConsumer, Exact
  <2>2. /\ ItsConsumer(p)'.wants = PrefixOf[p]
        /\ ItsConsumer(p)'.from = lo
        /\ ItsConsumer(p)'.offset = hi + 1
    BY <1>1, <1>2, <1>5, <1>12, <2>1 DEF ItsConsumer
  <2>3. Wanted(p, ItsConsumer(p).from, ItsConsumer(p).offset)'
           = Wanted(p, lo, hi) \cup (IF match THEN {hi} ELSE {})
    <3>1. Wanted(p, ItsConsumer(p).from, ItsConsumer(p).offset)' = Wanted(p, lo, hi + 1)
      BY <1>1, <2>2 DEF Wanted
    <3>2. \A o : o \in lo..((hi + 1) - 1) <=> o \in lo..(hi - 1) \/ o = hi
      BY <1>1, <1>2
    <3>3. match <=> log[TopicOf[p]][hi + 1] \in PrefixOf[p]
      BY <2>1
    <3> HIDE DEF match
    <3> QED
      BY <3>1, <3>2, <3>3 DEF Wanted
  <2>4. \A o \in Wanted(p, lo, hi) : o < hi
    BY DEF Wanted
  <2>5. CASE match
    <3>1. node[NameOf[p]] = s
      BY <1>9, <1>12, <2>5
    <3>2. buf'[s] = Append(buf[s], hi) /\ hi \in Bytes
      BY <1>4, <2>5 DEF OwnInv, Ranges, Bytes
    <3>3. Due(p)' = Append(Due(p), hi) /\ Due(p) \in Seq(Bytes)
      <4>1. out[p] \o Append(buf[s], hi) = Append(out[p] \o buf[s], hi)
        BY <1>10, <3>1, <3>2, WriteOn
      <4> QED
        BY <1>1, <1>3, <1>10, <3>1, <3>2, <4>1 DEF Due
    <3>4. Contents(Due(p)) = Wanted(p, lo, hi) /\ Rising(Due(p))
      BY <1>1, <1>2, <1>6, <2>1, <3>1 DEF Exact
    <3>5. /\ Contents(Append(Due(p), hi)) = Contents(Due(p)) \cup {hi}
          /\ Rising(Append(Due(p), hi))
      BY <2>4, <3>2, <3>3, <3>4, AppendContents
    <3>6. /\ Contents(Due(p))' = Wanted(p, ItsConsumer(p).from, ItsConsumer(p).offset)'
          /\ Rising(Due(p))'
      <4>1. /\ Contents(Due(p))' = Contents(Append(Due(p), hi))
            /\ Rising(Due(p))' <=> Rising(Append(Due(p), hi))
        BY <3>3 DEF Contents, Rising
      <4> QED
        BY <2>3, <2>5, <3>4, <3>5, <4>1
    <3> QED
      BY <2>2, <3>6 DEF Exact
  <2>6. CASE ~match
    <3>1. /\ Due(p)' = Due(p) /\ (Silent(node[NameOf[p]])' <=> Silent(node[NameOf[p]]))
      BY <1>1, <1>3, <1>4, <2>6 DEF Due, Silent
    <3>2. /\ Contents(Due(p))' = Contents(Due(p))
          /\ Rising(Due(p))' <=> Rising(Due(p))
      BY <3>1 DEF Contents, Rising
    <3>3. Wanted(p, ItsConsumer(p).from, ItsConsumer(p).offset)
             = Wanted(p, ItsConsumer(p).from, ItsConsumer(p).offset)'
      BY <1>1, <1>2, <2>1, <2>3, <2>6
    <3> QED
      BY <1>6, <2>2, <2>1, <3>1, <3>2, <3>3 DEF Exact
  <2> QED
    BY <2>5, <2>6
<1> QED
  BY <1>11, <1>12

\* After the sentinel a pipe is silent no more, and nothing is said of it.
LEMMA SentinelExact ==
    ASSUME IndexInv, OwnInv, Rounds, Wired, Exactly, NEW t \in Topics, SendSentinel(t)
    PROVE  Exactly'
<1>1. UNCHANGED <<proc, ctl, req, ans, out, node, log>> /\ wpc[t] = "eot"
  BY DEF SendSentinel, clientVars, requestVars
<1>2. \A p \in Subscribers : Served(p)' => Served(p)
  BY <1>1 DEF Served, Admitting
<1>3. CASE UNCHANGED <<consumers, buf>>
  BY <1>1, <1>2, <1>3, ExactStays
<1>4. CASE ~UNCHANGED <<consumers, buf>>
  <2>1. PICK n, s : /\ buf' = IF Readers(oino[s]) = {} THEN buf
                              ELSE [buf EXCEPT ![oino[s]] = Append(@, EOT)]
                    /\ consumers' = [consumers EXCEPT ![t][n].fd = 0]
    BY <1>4 DEF SendSentinel, SetFd
  <2> SUFFICES ASSUME NEW p \in Subscribers, Served(p)' PROVE Exact(p)'
    BY DEF Exactly
  <2>2. Served(p) /\ Exact(p)
    BY <1>2 DEF Exactly
  <2>3. /\ TopicOf[p] \in Topics /\ NameOf[p] \in DOMAIN consumers[TopicOf[p]]
        /\ node[NameOf[p]] \in Sessions
    BY <2>2, PipeOf
  <2>4. /\ ItsConsumer(p)'.wants = ItsConsumer(p).wants
        /\ ItsConsumer(p)'.from = ItsConsumer(p).from
        /\ ItsConsumer(p)'.offset = ItsConsumer(p).offset
    BY <2>1, <2>3, FdWritten DEF ItsConsumer, IndexInv, Safe, Shape
  <2>5. PICK z \in Sessions : z = node[NameOf[p]]
    BY <2>3
  <2>6. buf[z] \in Seq(Nat \cup {EOT})
    BY DEF OwnInv, Ranges
  <2>7. buf'[z] = buf[z] \/ buf'[z] = Append(buf[z], EOT)
    BY <2>1 DEF OwnInv, Ranges
  <2>8. CASE buf'[z] = buf[z]
    <3>1. Silent(node[NameOf[p]])' => Silent(node[NameOf[p]]) /\ Due(p)' = Due(p)
      BY <1>1, <2>5, <2>8 DEF Silent, Due
    <3> QED
      BY <1>1, <2>2, <2>4, <3>1, ExactKept
  <2>9. CASE buf'[z] = Append(buf[z], EOT)
    <3>1. Len(buf'[z]) \in 1..Len(buf'[z]) /\ buf'[z][Len(buf'[z])] = EOT
      BY <2>6, <2>9
    <3>2. ~Silent(node[NameOf[p]])'
      BY <1>1, <2>5, <3>1 DEF Silent
    <3> QED
      BY <1>1, <2>2, <2>4, <3>2, ExactKept
  <2> QED
    BY <2>7, <2>8, <2>9
<1> QED
  BY <1>3, <1>4

Delivery == IndexInv /\ OwnInv /\ Rounds /\ Wired /\ Buffers /\ Exactly

LEMMA NextExact ==
    ASSUME OneTopicEach, Delivery, OwnInv', IndexInv', [Next]_vars
    PROVE  Exactly'
<1> USE DEF Delivery
<1>1. ~Register => \A p \in Subscribers : Served(p)' => Served(p)
  BY ServedStays
<1>2. ASSUME UNCHANGED <<out, buf, node, log>>, ~Register,
             UNCHANGED consumers \/ \E t, n, s : consumers' = [consumers EXCEPT ![t][n].fd = s]
      PROVE  Exactly'
  BY <1>1, <1>2, ExactStays
<1>3. CASE ClientStep
  <2>1. ~Register
    <3>1. UNCHANGED consumers /\ ClientStep => UNCHANGED ctl
      BY ClientCore DEF core
    <3> QED
      BY <1>3, <3>1, ClientCore DEF core, Register, Answer
  <2>2. UNCHANGED consumers
    BY <1>3, ClientCore DEF core
  <2>3. CASE \E p \in Producers, k \in Keys : Produce(p, k)
    BY <2>3, ProduceExact
  <2>4. CASE \E p \in Subscribers : ReadMessage(p)
    BY <2>4, ReadExact
  <2>5. CASE Start
    BY <1>2, <2>1, <2>2, <2>5 DEF Start, Request, topicVars, pipeVars
  <2>6. CASE UNCHANGED <<out, buf, node, log>>
    BY <1>2, <2>1, <2>2, <2>6
  <2> QED
    BY <1>3, <2>3, <2>4, <2>5, <2>6
    DEF ClientStep, SubscriberStep, OpenChannel, Check, BlockInRead, ReadEof, Disconnect, Signal, Kill,
        EndOfInput, topicVars, pipeVars
<1>4. CASE ControlStep
  <2>1. CASE StoreMeta \/ Register
    BY <2>1, StoreMetaExact, RegisterExact
  <2>2. CASE Unregister
    <3>1. UNCHANGED <<out, buf, node, log>> /\ ~Register
      BY <2>2 DEF Unregister, Register, clientVars
    <3> QED
      BY <1>1, <2>2, <3>1, ExactStays
  <2>3. CASE LoopTop \/ Poll \/ Dispatch \/ Create \/ LookUp \/ Subscribe \/ Reply
               \/ StopTopic \/ DestroyTopics
    <3>1. UNCHANGED <<out, buf, node, log, consumers>>
      BY <2>3 DEF LoopTop, Poll, Dispatch, Create, LookUp, Subscribe, Reply, StopTopic, DestroyTopics,
         clientVars, topicVars, pipeVars
    <3>2. ~Register
      BY <2>3 DEF LoopTop, Poll, Dispatch, Create, LookUp, Subscribe, Reply, StopTopic, DestroyTopics,
         Register
    <3> QED
      BY <1>2, <3>1, <3>2
  <2> QED
    BY <1>4, <2>1, <2>2, <2>3 DEF ControlStep
<1>5. ASSUME NEW s \in Sessions, OpenerStep(s)
      PROVE  Exactly'
  <2>1. UNCHANGED <<out, buf, node, log, ctl>>
    BY <1>5 DEF OpenerStep, OpenForWriting, Verify, Attach, clientVars, requestVars, topicVars
  <2>2. ~Register
    BY <2>1 DEF Register, Answer
  <2>3. UNCHANGED consumers \/ \E t, n, z : consumers' = [consumers EXCEPT ![t][n].fd = z]
    <3>1. CASE OpenForWriting(s) \/ Verify(s)
      BY <3>1 DEF OpenForWriting, Verify, topicVars
    <3>2. CASE Attach(s)
      <4>1. \/ UNCHANGED consumers
            \/ consumers' = [consumers EXCEPT ![TopicOf[ofor[s]]][NameOf[ofor[s]]].fd = s]
        BY <3>2 DEF Attach, SetFd
      <4> QED
        BY <4>1
    <3> QED
      BY <1>5, <3>1, <3>2 DEF OpenerStep
  <2> QED
    BY <1>2, <2>1, <2>2, <2>3
<1>6. ASSUME NEW t \in Topics, WorkerStep(t)
      PROVE  Exactly'
  <2>1. UNCHANGED <<out, node, log, ctl>>
    BY <1>6 DEF WorkerStep, Wake, Visit, Deliver, PersistGet, PersistSet, SendSentinel, clientVars,
       requestVars, pipeVars
  <2>2. ~Register
    BY <2>1 DEF Register, Answer
  <2>3. CASE Deliver(t) /\ wpc'[t] # "get"
    <3>1. ~WorkerGoto(t, "get")
      BY <2>3 DEF WorkerGoto, IndexInv, Safe, Shape
    <3>2. UNCHANGED buf /\ \E n : consumers' = [consumers EXCEPT ![t][n].fd = 0]
      BY <2>3, <3>1 DEF Deliver, SetFd
    <3> QED
      BY <1>2, <2>1, <2>2, <3>2
  <2>4. CASE Deliver(t) /\ wpc'[t] = "get"
    BY <2>4, AdvanceExact
  <2>5. CASE Wake(t) \/ Visit(t) \/ PersistGet(t) \/ PersistSet(t)
    <3>1. UNCHANGED <<consumers, buf>>
      BY <2>5 DEF Wake, Visit, PersistGet, PersistSet, pipeVars
    <3> QED
      BY <1>2, <2>1, <2>2, <3>1
  <2> QED
    BY <1>6, <2>3, <2>4, <2>5, SentinelExact DEF WorkerStep
<1>7. CASE Sigterm \/ Exit \/ UNCHANGED vars
  <2>1. UNCHANGED <<out, buf, node, log, consumers>>
    BY <1>7 DEF Sigterm, Exit, vars, clientVars, topicVars, pipeVars
  <2>2. ~Register
    BY <1>7 DEF Sigterm, Exit, vars, requestVars, Register, Answer
  <2> QED
    BY <1>2, <2>1, <2>2
<1> QED
  BY <1>3, <1>4, <1>5, <1>6, <1>7 DEF Next, ClientStep

LEMMA InitDelivery == Init => Delivery
<1> SUFFICES ASSUME Init PROVE Rounds /\ Wired /\ Buffers /\ Exactly
  BY InitSafe, InitSync, InitOwn DEF Delivery, IndexInv
<1>1. Subscribers \subseteq Procs
  BY DEF Procs
<1>2. Rounds
  BY DEF Init, Rounds, Round, Empty
<1>3. Wired
  BY DEF Init, Wired, Admitting, Empty
<1>4. \A p \in Subscribers : ~Served(p)
  BY <1>1 DEF Init, Served, Reading, Admitting
<1>5. Buffers
  BY <1>4 DEF Init, Buffers, Silent
<1> QED
  BY <1>2, <1>3, <1>4, <1>5 DEF Exactly

LEMMA NextDelivery ==
    ASSUME OneTopicEach, Delivery, [Next]_vars
    PROVE  Delivery'
<1>1. IndexInv'
  BY NextSafe, NextSync DEF Delivery, IndexInv
<1>2. OwnInv'
  BY NextOwn DEF Delivery
<1>3. Rounds'
  BY NextRounds DEF Delivery, IndexInv, OwnInv
<1>4. Wired' /\ Buffers'
  BY <1>2, NextWires DEF Delivery
<1> QED
  BY <1>1, <1>2, <1>3, <1>4, NextExact DEF Delivery

LEMMA DeliveryFilters == Delivery => PrefixFilter
<1> SUFFICES ASSUME Delivery, NEW p \in Subscribers, proc[p] \in Reading,
                    Active(TopicOf[p], NameOf[p]), ItsConsumer(p).fd # 0,
                    oino[ItsConsumer(p).fd] = ino[p]
             PROVE  /\ {Stream(p)[j] : j \in DOMAIN Stream(p)}
                          = Wanted(p, ItsConsumer(p).from, ItsConsumer(p).offset)
                    /\ \A j, k \in DOMAIN Stream(p) : j < k => Stream(p)[j] < Stream(p)[k]
  BY DEF PrefixFilter, ItsConsumer
<1> USE DEF Delivery
<1>1. Served(p)
  BY DEF Served
<1>2. /\ TopicOf[p] \in Topics /\ NameOf[p] \in DOMAIN consumers[TopicOf[p]]
      /\ node[NameOf[p]] \in Sessions /\ ino[p] = node[NameOf[p]]
  BY <1>1, PipeOf
<1>3. ItsConsumer(p).fd \in Sessions
  BY <1>2, FieldTypes DEF ItsConsumer, IndexInv, Safe, Shape
<1>4. Silent(ino[p])
  BY <1>2, <1>3 DEF Wired, ItsConsumer
<1>5. Stream(p) = Due(p) /\ Exact(p)
  BY <1>1, <1>2 DEF Stream, Due, Exactly
<1>6. DOMAIN Due(p) = 1..Len(Due(p))
  <2>1. out[p] \in Seq(Bytes) /\ buf[node[NameOf[p]]] \in Seq(Bytes)
    <3>1. out[p] \in Seq(Nat) /\ Nat \subseteq Bytes
      BY DEF Buffers, Bytes
    <3> QED
      BY <1>2, <3>1, SeqMonotonic DEF OwnInv, Ranges, Bytes
  <2>2. Due(p) \in Seq(Bytes)
    BY <2>1 DEF Due
  <2> QED
    BY <2>2
<1> QED
  BY <1>2, <1>4, <1>5, <1>6 DEF Exact, Contents, Rising

\* Whatever the interleaving of the worker, producers, openers and the control
\* thread, a subscriber that is attached prints, in order and once, exactly
\* the messages its prefix matches (Topic::run).
THEOREM PrefixRouted ==
    ASSUME OneTopicEach
    PROVE  Spec => []PrefixFilter
<1>1. Init => Delivery
  BY InitDelivery
<1>2. Delivery /\ [Next]_vars => Delivery'
  BY NextDelivery
<1>3. Delivery => PrefixFilter
  BY DeliveryFilters
<1> QED
  BY <1>1, <1>2, <1>3, PTL DEF Spec

-----------------------------------------------------------------------------
(* From one subscription of a name to the next.                            *)

\* What a subscriber has got, and where its topic or the index has its name.
Got(p) == (Contents(out[p]) \cup IF proc[p] \in Reading THEN Contents(buf[ino[p]]) ELSE {}) \ {EOT}
Mark(p) == IF Active(TopicOf[p], NameOf[p]) THEN ItsConsumer(p).offset ELSE index[NameOf[p]].offset

Marked == \A p \in Subscribers : \A m \in Got(p) : NameOf[p] \in DOMAIN index /\ m < Mark(p)
Apart == \A p, q \in Subscribers : p # q /\ NameOf[p] = NameOf[q] => Got(p) \cap Got(q) = {}

\* A name's mark stays where it is, but for the message that is delivered.
LEMMA MarkStays ==
    ASSUME OneTopicEach, Offsets = {-1}, IndexInv, OwnInv, [Next]_vars,
           \A t \in Topics : ~(Deliver(t) /\ wpc'[t] = "get"),
           NEW p \in Subscribers, NameOf[p] \in DOMAIN index
    PROVE  NameOf[p] \in DOMAIN index' /\ Mark(p)' = Mark(p)
<1> DEFINE Stays == NameOf[p] \in DOMAIN index' /\ Mark(p)' = Mark(p)
<1>0. /\ TopicOf[p] \in Topics /\ NameOf[p] \in Names /\ Owned(NameOf[p], TopicOf[p])
      /\ consumers \in [Topics -> Partial(Slot)] /\ index \in Partial(Entry)
  BY ConstantsAssumption DEF Procs, Owned, IndexInv, Safe, Shape
<1>1. ASSUME UNCHANGED <<index, consumers>> PROVE Stays
  BY <1>1 DEF Mark, Active, ItsConsumer
<1>2. ASSUME UNCHANGED index, NEW t, NEW n, NEW s, consumers' = [consumers EXCEPT ![t][n].fd = s]
      PROVE  Stays
  <2>1. /\ DOMAIN consumers'[TopicOf[p]] = DOMAIN consumers[TopicOf[p]]
        /\ NameOf[p] \in DOMAIN consumers[TopicOf[p]] =>
              consumers'[TopicOf[p]][NameOf[p]].offset = consumers[TopicOf[p]][NameOf[p]].offset
    BY <1>0, <1>2, FdWritten
  <2> QED
    BY <1>2, <2>1 DEF Mark, Active, ItsConsumer
<1>3. CASE StoreMeta
  <2>1. /\ ctl = "store" /\ UNCHANGED consumers /\ req \in Requests /\ req.offset < 0
        /\ index' = Put(index, NameOf[req.by], [topic |-> TopicOf[req.by], offset |-> start])
    BY <1>3 DEF StoreMeta, topicVars, IndexInv, Safe, Shape, Requests
  <2>2. NameOf[req.by] \notin DOMAIN consumers[TopicOf[p]]
    BY <1>0, <2>1, Newcomer DEF IndexInv, Safe
  <2>3. NameOf[req.by] \in DOMAIN index => start = index[NameOf[req.by]].offset
    BY <2>1 DEF IndexInv, Sync
  <2>4. index'[NameOf[p]].offset = index[NameOf[p]].offset \/ Active(TopicOf[p], NameOf[p])
    BY <2>1, <2>2, <2>3 DEF Put, Active
  <2> QED
    BY <2>1, <2>4 DEF Mark, Active, ItsConsumer, Put
<1>4. CASE Register
  <2> DEFINE c == [offset |-> start, from |-> start, fd |-> 0, wants |-> PrefixOf[req.by]]
  <2>1. /\ ctl = "register" /\ UNCHANGED index /\ req \in Requests /\ req.cmd = "subscribe"
        /\ consumers' = [consumers EXCEPT ![TopicOf[req.by]] = Put(@, NameOf[req.by], c)]
    BY <1>4 DEF Register, IndexInv, Safe, Shape
  <2>2. c.offset = start
    OBVIOUS
  <2> HIDE DEF c
  <2>3. NameOf[req.by] \notin DOMAIN consumers[TopicOf[p]]
        /\ Owned(NameOf[req.by], TopicOf[req.by]) /\ TopicOf[req.by] \in Topics
    BY <1>0, <2>1, RequestFacts, Newcomer DEF IndexInv, Safe
  <2>4. CASE NameOf[p] = NameOf[req.by]
    <3>1. TopicOf[p] = TopicOf[req.by]
      BY <1>0, <2>3, <2>4, OwnedOnce
    <3>2. consumers'[TopicOf[p]] = Put(consumers[TopicOf[p]], NameOf[p], c)
      BY <1>0, <2>1, <2>4, <3>1
    <3>3. Mark(p)' = start
      BY <2>2, <3>2 DEF Mark, Active, ItsConsumer, Put
    <3>4. index[NameOf[p]] = [topic |-> TopicOf[req.by], offset |-> start]
      BY <2>1, <2>4 DEF IndexInv, Sync
    <3>5. Mark(p) = start
      BY <2>3, <2>4, <3>4 DEF Mark, Active
    <3> QED
      BY <2>1, <3>3, <3>5
  <2>5. CASE NameOf[p] # NameOf[req.by]
    <3>1. \/ consumers'[TopicOf[p]] = consumers[TopicOf[p]]
          \/ consumers'[TopicOf[p]] = Put(consumers[TopicOf[p]], NameOf[req.by], c)
      BY <1>0, <2>1
    <3> QED
      BY <2>1, <2>5, <3>1 DEF Mark, Active, ItsConsumer, Put
  <2> QED
    BY <2>4, <2>5
<1>5. CASE Unregister
  <2>1. UNCHANGED index /\ ctl = "disconnect"
    BY <1>5 DEF Unregister
  <2>2. CASE NameOf[p] \in DOMAIN consumers'[TopicOf[p]] \/ NameOf[p] \notin DOMAIN consumers[TopicOf[p]]
    BY <1>0, <1>5, <2>1, <2>2, RemovalLemma DEF Mark, Active, ItsConsumer
  <2>3. CASE /\ NameOf[p] \notin DOMAIN consumers'[TopicOf[p]]
             /\ NameOf[p] \in DOMAIN consumers[TopicOf[p]]
    <3>1. InStep(TopicOf[p], NameOf[p])
      BY <1>0, <2>1, <2>3 DEF IndexInv, Sync, Down
    <3>2. MuFree(TopicOf[p])
      <4>1. consumers'[TopicOf[p]] # consumers[TopicOf[p]]
        BY <2>3
      <4> QED
        BY <1>0, <1>5, <4>1 DEF Unregister
    <3>3. index[NameOf[p]].offset = consumers[TopicOf[p]][NameOf[p]].offset
      BY <3>1, <3>2 DEF InStep, MuFree
    <3> QED
      BY <2>1, <2>3, <3>3 DEF Mark, Active, ItsConsumer
  <2> QED
    BY <2>2, <2>3
<1>6. ASSUME NEW t \in Topics, PersistSet(t) PROVE Stays
  <2>1. /\ UNCHANGED consumers /\ wcur[t] \in DOMAIN consumers[t] /\ wcur[t] \in DOMAIN index
        /\ \E v : index' = Put(index, wcur[t], v)
    BY <1>6 DEF PersistSet, IndexInv, Safe, Iteration, IteratorValid, Indexed
  <2>2. NameOf[p] = wcur[t] => TopicOf[p] = t
    BY <1>0, <2>1, OwnedOnce DEF IndexInv, Owners
  <2>3. Active(TopicOf[p], NameOf[p]) \/ index'[NameOf[p]] = index[NameOf[p]]
    BY <2>1, <2>2 DEF Put, Active
  <2> QED
    BY <2>1, <2>3 DEF Mark, Active, ItsConsumer, Put
<1>7. CASE ClientStep
  BY <1>1, <1>7, ClientCore DEF core
<1>8. CASE ControlStep
  <2>1. CASE ~(StoreMeta \/ Register \/ Unregister)
    <3>1. UNCHANGED <<index, consumers>>
      BY <1>8, <2>1 DEF ControlStep, LoopTop, Poll, Dispatch, Create, LookUp, Subscribe, Reply, StopTopic,
         DestroyTopics, topicVars
    <3> QED
      BY <1>1, <3>1
  <2> QED
    BY <1>3, <1>4, <1>5, <2>1
<1>9. ASSUME NEW s \in Sessions, OpenerStep(s) PROVE Stays
  <2>1. UNCHANGED index
    BY <1>9 DEF OpenerStep, OpenForWriting, Verify, Attach
  <2>2. \/ UNCHANGED consumers
        \/ consumers' = [consumers EXCEPT ![TopicOf[ofor[s]]][NameOf[ofor[s]]].fd = s]
    BY <1>9 DEF OpenerStep, OpenForWriting, Verify, Attach, SetFd, topicVars
  <2> QED
    BY <1>1, <1>2, <2>1, <2>2
<1>10. ASSUME NEW t \in Topics, WorkerStep(t) PROVE Stays
  <2>1. CASE Deliver(t)
    <3>1. ~WorkerGoto(t, "get")
      BY <2>1 DEF WorkerGoto, IndexInv, Safe, Shape
    <3>2. UNCHANGED index /\ \E n : consumers' = [consumers EXCEPT ![t][n].fd = 0]
      BY <2>1, <3>1 DEF Deliver, SetFd
    <3> QED
      BY <1>2, <3>2
  <2>2. CASE SendSentinel(t)
    <3>1. UNCHANGED index /\ (UNCHANGED consumers \/ \E n : consumers' = [consumers EXCEPT ![t][n].fd = 0])
      BY <2>2 DEF SendSentinel, SetFd
    <3> QED
      BY <1>1, <1>2, <3>1
  <2>3. CASE Wake(t) \/ Visit(t) \/ PersistGet(t)
    BY <1>1, <2>3 DEF Wake, Visit, PersistGet
  <2> QED
    BY <1>6, <1>10, <2>1, <2>2, <2>3 DEF WorkerStep
<1>11. CASE Sigterm \/ Exit \/ UNCHANGED vars
  BY <1>1, <1>11 DEF Sigterm, Exit, vars, topicVars
<1> QED
  BY <1>7, <1>8, <1>9, <1>10, <1>11 DEF Next, ClientStep

\* Nobody gets anything but what the worker writes.
LEMMA GotStays ==
    ASSUME Delivery, [Next]_vars, \A t \in Topics : ~(Deliver(t) /\ wpc'[t] = "get"),
           NEW p \in Subscribers
    PROVE  Got(p)' \subseteq Got(p)
<1> USE DEF Delivery
<1>0. /\ Subscribers \subseteq Procs /\ Producers \subseteq Procs
      /\ proc \in [Procs -> ProcLabels] /\ ino \in [Subscribers -> {0} \cup Sessions]
      /\ buf \in [Sessions -> Seq(Bytes)]
  BY DEF Procs, OwnInv, Ranges, Bytes
<1>1. ASSUME UNCHANGED <<out, ino, buf>>,
             proc'[p] \in Reading => proc[p] \in Reading \/ buf[ino[p]] = <<>>
      PROVE  Got(p)' \subseteq Got(p)
  <2>1. Contents(<<>>) = {}
    BY EmptyContents
  <2> QED
    BY <1>1, <2>1 DEF Got, Contents
<1>2. ASSUME NEW q \in Subscribers, OpenChannel(q)
      PROVE  Got(p)' \subseteq Got(p)
  <2>1. /\ proc[q] = "open" /\ UNCHANGED <<out, buf>>
        /\ \A r \in Subscribers \ {q} : proc'[r] = proc[r] /\ ino'[r] = ino[r]
        /\ ino'[q] = node[NameOf[q]]
    BY <1>0, <1>2 DEF OpenChannel, Goto
  <2>2. CASE p = q
    <3>1. buf[node[NameOf[q]]] = <<>>
      BY <2>1 DEF Buffers, Served, Reading
    <3>2. Contents(<<>>) = {}
      BY EmptyContents
    <3>3. Got(p)' \subseteq Contents(out[p]) \ {EOT}
      BY <2>1, <2>2, <3>1, <3>2 DEF Got, Contents
    <3> QED
      BY <3>3 DEF Got
  <2>3. CASE p # q
    BY <2>1, <2>3 DEF Got, Contents
  <2> QED
    BY <2>2, <2>3
<1>3. ASSUME NEW q \in Subscribers, ReadMessage(q)
      PROVE  Got(p)' \subseteq Got(p)
  <2> DEFINE i == ino[q]
             h == Head(buf[i])
  <2>1. /\ proc[q] \in Reading /\ buf[i] # <<>> /\ UNCHANGED ino
        /\ buf' = [buf EXCEPT ![i] = Tail(@)]
        /\ \A r \in Subscribers \ {q} : proc'[r] = proc[r] /\ out'[r] = out[r]
    BY <1>0, <1>3 DEF ReadMessage, Goto, Buffers, Reading
  <2>2. i \in Sessions
    BY <2>1, PipeOf DEF Served
  <2>3. /\ buf[i] \in Seq(Bytes) /\ buf'[i] = Tail(buf[i]) /\ h \in Bytes
        /\ \A z \in Sessions \ {i} : buf'[z] = buf[z]
    BY <1>0, <2>1, <2>2
  <2>4. Contents(buf[i]) = {h} \cup Contents(Tail(buf[i]))
    BY <2>1, <2>3, TailContents
  <2>5. CASE p = q
    <3>1. Contents(out'[p]) \ {EOT} \subseteq (Contents(out[p]) \cup {h}) \ {EOT}
      <4>1. CASE h = EOT
        BY <1>3, <2>5, <4>1 DEF ReadMessage
      <4>2. CASE h # EOT
        <5>1. out[p] \in Seq(Nat) /\ Nat \subseteq Bytes
          BY DEF Buffers, Bytes
        <5>2. out[p] \in Seq(Bytes)
          BY <5>1, SeqMonotonic
        <5>3. out'[p] = Append(out[p], h)
          BY <1>3, <2>5, <4>2 DEF ReadMessage, Buffers
        <5>4. Contents(Append(out[p], h)) = Contents(out[p]) \cup {h}
          BY <2>3, <5>2, AppendContents
        <5> QED
          BY <5>3, <5>4
      <4> QED
        BY <4>1, <4>2
    <3>2. Contents(buf'[ino'[p]]) = Contents(Tail(buf[i]))
      BY <2>1, <2>3, <2>5
    <3>3. Got(p)' \subseteq (Contents(out'[p]) \cup Contents(buf'[ino'[p]])) \ {EOT}
      BY DEF Got, Contents
    <3>4. Got(p) = (Contents(out[p]) \cup Contents(buf[i])) \ {EOT}
      BY <2>1, <2>5 DEF Got
    <3> HIDE DEF h, i
    <3> QED
      BY <2>4, <3>1, <3>2, <3>3, <3>4
  <2>6. CASE p # q
    <3>1. proc[p] \in Reading => ino[p] # i
      <4>1. IndexInv /\ OwnInv => NeverShared
        BY OnePipeEach
      <4> QED
        BY <2>1, <2>6, <4>1 DEF NeverShared
    <3>2. proc[p] \in Reading => ino[p] \in Sessions
      BY PipeOf DEF Served
    <3>3. proc[p] \in Reading => buf'[ino'[p]] = buf[ino[p]]
      BY <2>1, <2>3, <3>1, <3>2
    <3> QED
      BY <2>1, <2>6, <3>3 DEF Got, Contents
  <2> QED
    BY <2>5, <2>6
<1>4. ASSUME NEW t \in Topics, SendSentinel(t)
      PROVE  Got(p)' \subseteq Got(p)
  <2>1. UNCHANGED <<proc, out, ino>>
    BY <1>4 DEF SendSentinel, clientVars
  <2>2. UNCHANGED buf \/ \E i : buf' = [buf EXCEPT ![i] = Append(@, EOT)]
    BY <1>4 DEF SendSentinel
  <2>3. \A z \in Sessions : Contents(buf'[z]) \ {EOT} \subseteq Contents(buf[z])
    <3> SUFFICES ASSUME NEW z \in Sessions
                 PROVE  Contents(buf'[z]) \ {EOT} \subseteq Contents(buf[z])
      OBVIOUS
    <3>1. buf'[z] = buf[z] \/ buf'[z] = Append(buf[z], EOT)
      BY <1>0, <2>2
    <3>2. buf[z] \in Seq(Bytes) /\ EOT \in Bytes
      BY <1>0 DEF Bytes
    <3>3. Contents(Append(buf[z], EOT)) = Contents(buf[z]) \cup {EOT}
      BY <3>2, AppendContents
    <3> QED
      BY <3>1, <3>3
  <2>4. proc[p] \in Reading => ino[p] \in Sessions
    BY PipeOf DEF Served
  <2>5. proc[p] \in Reading => Contents(buf'[ino[p]]) \ {EOT} \subseteq Contents(buf[ino[p]])
    BY <2>3, <2>4
  <2>6. Got(p)' = (Contents(out[p]) \cup IF proc[p] \in Reading THEN Contents(buf'[ino[p]]) ELSE {}) \ {EOT}
    BY <2>1 DEF Got, Contents
  <2> QED
    BY <2>5, <2>6 DEF Got
<1>5. CASE ClientStep
  <2>1. CASE Start
    <3>1. PICK q \in Procs : \E cmd, o : Request(q, cmd, o)
      BY <2>1 DEF Start, Procs
    <3>2. UNCHANGED <<out, ino, buf>> /\ \A r \in Procs : proc'[r] = IF r = q THEN "await" ELSE proc[r]
      BY <1>0, <3>1 DEF Request, Goto, pipeVars
    <3> QED
      BY <1>0, <1>1, <3>2 DEF Reading
  <2>2. CASE /\ ~Start /\ \A q \in Subscribers : ~OpenChannel(q) /\ ~ReadMessage(q)
    <3>1. UNCHANGED <<out, ino, buf>>
      BY <1>5, <2>2 DEF ClientStep, SubscriberStep, Check, BlockInRead, ReadEof, Disconnect, Signal, Kill,
         Produce, EndOfInput, clientVars, pipeVars
    <3>2. \/ UNCHANGED proc
          \/ \E q \in Procs : \E l \in {"check", "enter", "read", "bye", "off"} :
                /\ proc' = [proc EXCEPT ![q] = l]
                /\ l \in Reading => proc[q] \in Reading
      BY <1>0, <1>5, <2>2 DEF ClientStep, SubscriberStep, Check, BlockInRead, ReadEof, Disconnect, Signal,
         Kill, Produce, EndOfInput, clientVars, Goto, Reading
    <3>3. proc'[p] \in Reading => proc[p] \in Reading
      BY <1>0, <3>2
    <3> QED
      BY <1>1, <3>1, <3>3
  <2> QED
    BY <1>2, <1>3, <2>1, <2>2
<1>6. CASE ControlStep
  <2>1. UNCHANGED <<out, ino, buf>>
    BY <1>6 DEF ControlStep, LoopTop, Poll, Dispatch, Create, LookUp, Subscribe, StoreMeta, Register, Reply,
       Unregister, StopTopic, DestroyTopics, clientVars, pipeVars
  <2>2. UNCHANGED proc \/ \E l \in {"open", "stream", "off"} : proc' = [proc EXCEPT ![req.by] = l]
    BY <1>6 DEF ControlStep, LoopTop, Poll, Dispatch, Create, LookUp, Subscribe, StoreMeta, Register, Reply,
       Unregister, StopTopic, DestroyTopics, clientVars, Goto
  <2>3. proc'[p] \in Reading => proc[p] \in Reading
    BY <1>0, <2>2 DEF Reading
  <2> QED
    BY <1>1, <2>1, <2>3
<1>7. ASSUME NEW s \in Sessions, OpenerStep(s)
      PROVE  Got(p)' \subseteq Got(p)
  <2>1. UNCHANGED <<out, ino, buf>>
    BY <1>7 DEF OpenerStep, OpenForWriting, Verify, Attach, clientVars
  <2>2. proc'[p] = proc[p] \/ proc[p] = "opening"
    BY <1>0, <1>7 DEF OpenerStep, OpenForWriting, Verify, Attach, ReleaseReaders, clientVars
  <2> QED
    BY <1>1, <2>1, <2>2 DEF Reading
<1>8. ASSUME NEW t \in Topics, WorkerStep(t)
      PROVE  Got(p)' \subseteq Got(p)
  <2>1. CASE Deliver(t)
    <3>1. ~WorkerGoto(t, "get")
      BY <2>1 DEF WorkerGoto, IndexInv, Safe, Shape
    <3>2. UNCHANGED <<out, ino, proc, buf>>
      BY <2>1, <3>1 DEF Deliver, clientVars
    <3> QED
      BY <1>1, <3>2
  <2>2. CASE Wake(t) \/ Visit(t) \/ PersistGet(t) \/ PersistSet(t)
    BY <1>1, <2>2 DEF Wake, Visit, PersistGet, PersistSet, clientVars, pipeVars
  <2> QED
    BY <1>4, <1>8, <2>1, <2>2 DEF WorkerStep
<1>9. CASE Sigterm \/ Exit \/ UNCHANGED vars
  BY <1>1, <1>9 DEF Sigterm, Exit, vars, clientVars, pipeVars
<1> QED
  BY <1>5, <1>6, <1>7, <1>8, <1>9 DEF Next, ClientStep

LEMMA MarkTypes ==
    ASSUME IndexInv, OwnInv, Buffers, NEW p \in Subscribers
    PROVE  /\ NameOf[p] \in DOMAIN index => Mark(p) \in Nat
           /\ \A m \in Got(p) : m \in Nat
<1>1. TopicOf[p] \in Topics
  BY ConstantsAssumption DEF Procs
<1>2. Active(TopicOf[p], NameOf[p]) => ItsConsumer(p).offset \in Nat
  BY <1>1, FieldTypes DEF Active, ItsConsumer, IndexInv, Safe, Shape
<1>3. NameOf[p] \in DOMAIN index => index[NameOf[p]].offset \in Nat
  <2>1. NameOf[p] \in DOMAIN index => index[NameOf[p]] \in Entry
    BY PartialLemma DEF IndexInv, Safe, Shape
  <2> QED
    BY <2>1 DEF Entry
<1>4. out[p] \in Seq(Nat)
  BY DEF Buffers
<1>5. proc[p] \in Reading => buf[ino[p]] \in Seq(Nat \cup {EOT})
  BY PipeOf DEF Served, OwnInv, Ranges
<1> QED
  BY <1>2, <1>3, <1>4, <1>5 DEF Mark, Got, Contents

LEMMA AdvanceApart ==
    ASSUME OneTopicEach, Delivery, Marked, Apart, NEW t \in Topics, Deliver(t), wpc'[t] = "get"
    PROVE  Marked' /\ Apart'
<1> USE DEF Delivery
<1>1. PICK n \in DOMAIN consumers[t], s \in Sessions, o \in Nat :
         /\ o = consumers[t][n].offset /\ consumers[t][n].from <= o /\ Silent(s)
         /\ UNCHANGED <<clientVars, ctl, req, ans, node, log, index>>
         /\ consumers' = [consumers EXCEPT ![t][n].offset = @ + 1]
         /\ IF log[t][o + 1] \in consumers[t][n].wants
            THEN Readers(s) # {} /\ buf' = [buf EXCEPT ![s] = Append(@, o)]
            ELSE UNCHANGED buf
         /\ \A q \in Readers(s) : NameOf[q] = n
  BY Advance
<1>2. UNCHANGED <<proc, ino, out, index>> /\ consumers \in [Topics -> Partial(Slot)]
  BY <1>1 DEF clientVars, IndexInv, Safe, Shape
<1>3. \A u \in Topics :
         /\ DOMAIN consumers'[u] = DOMAIN consumers[u]
         /\ \A m \in DOMAIN consumers[u] :
               consumers'[u][m].offset = IF u = t /\ m = n THEN consumers[u][m].offset + 1
                                         ELSE consumers[u][m].offset
  BY <1>1, <1>2, OffsetAdvanced
<1>4. /\ \A p \in Subscribers : TopicOf[p] \in Topics
      /\ \A p \in Subscribers : NameOf[p] = n => TopicOf[p] = t
      /\ n \in DOMAIN index
  <2>1. Owned(n, t) /\ n \in DOMAIN index
    BY <1>1 DEF IndexInv, Owners, Safe, Indexed
  <2>2. \A p \in Subscribers : TopicOf[p] \in Topics /\ Owned(NameOf[p], TopicOf[p])
    BY ConstantsAssumption DEF Procs, Owned
  <2> QED
    BY <2>1, <2>2, OwnedOnce
<1>5. \A p \in Subscribers : IF NameOf[p] = n THEN Mark(p) = o /\ Mark(p)' = o + 1
                             ELSE Mark(p)' = Mark(p)
  BY <1>1, <1>2, <1>3, <1>4 DEF Mark, Active, ItsConsumer
<1>6. ASSUME NEW p \in Subscribers, NEW m \in Got(p)', m \notin Got(p)
      PROVE  m = o /\ NameOf[p] = n /\ p \in Readers(s)
  <2>1. proc[p] \in Reading /\ m \in Contents(buf'[ino[p]]) /\ m \notin Contents(buf[ino[p]])
    BY <1>2, <1>6 DEF Got, Contents
  <2>2. PICK z \in Sessions : z = ino[p]
    BY <2>1, PipeOf DEF Served
  <2>3. buf[z] \in Seq(Bytes) /\ o \in Bytes
    BY DEF OwnInv, Ranges, Bytes
  <2>4. z = s /\ buf'[z] = Append(buf[z], o)
    BY <1>1, <2>1, <2>2, ZenonT(30) DEF OwnInv, Ranges
  <2>5. Contents(Append(buf[z], o)) = Contents(buf[z]) \cup {o}
    BY <2>3, AppendContents
  <2>6. p \in Readers(s)
    BY <2>1, <2>2, <2>4 DEF Readers
  <2> QED
    BY <1>1, <2>1, <2>2, <2>4, <2>5, <2>6
<1>7. \A p \in Subscribers : /\ NameOf[p] \in DOMAIN index => Mark(p) \in Nat
                             /\ \A m \in Got(p) : m \in Nat
  BY MarkTypes
<1>8. Marked'
  <2> SUFFICES ASSUME NEW p \in Subscribers, NEW m \in Got(p)'
               PROVE  NameOf[p] \in DOMAIN index' /\ m < Mark(p)'
    BY DEF Marked
  <2>1. CASE m \in Got(p)
    BY <1>2, <1>5, <1>7, <2>1 DEF Marked
  <2>2. CASE m \notin Got(p)
    BY <1>2, <1>4, <1>5, <1>6, <2>2
  <2> QED
    BY <2>1, <2>2
<1>9. Apart'
  <2> SUFFICES ASSUME NEW p \in Subscribers, NEW q \in Subscribers, p # q, NameOf[p] = NameOf[q],
                      NEW m, m \in Got(p)', m \in Got(q)'
               PROVE  FALSE
    BY DEF Apart
  <2>1. m \in Got(p) => m \notin Got(q)
    BY DEF Apart
  <2>2. ASSUME NEW r \in Subscribers, NameOf[r] = n, m \in Got(r), m = o
        PROVE  FALSE
    BY <1>5, <1>7, <2>2 DEF Marked
  <2>3. ~(p \in Readers(s) /\ q \in Readers(s))
    <3>1. NeverShared
      BY OnePipeEach
    <3> QED
      BY <3>1 DEF NeverShared, Readers
  <2> QED
    BY <1>6, <2>1, <2>2, <2>3
<1> QED
  BY <1>8, <1>9

\* Whichever way a subscription ends, by a signal, a kill or a DISCONNECT, and
\* whoever takes the name next without asking for an offset, no message is
\* printed twice under one name; and what is printed in one subscription is
\* what its prefix matches, in order (Topic::run and handle_subscribe).
THEOREM DeliveredOnce ==
    ASSUME OneTopicEach, Offsets = {-1}
    PROVE  Spec => []ExactlyOnce
<1> DEFINE Inv == Delivery /\ Marked /\ Apart
<1>1. Init => Inv
  <2> SUFFICES ASSUME Init PROVE Marked /\ Apart
    BY InitDelivery
  <2>1. \A p \in Subscribers : p \in Procs
    BY DEF Procs
  <2>2. \A p \in Subscribers : out[p] = <<>> /\ proc[p] \notin Reading
    BY <2>1 DEF Init, Reading
  <2>3. \A p \in Subscribers : Got(p) = {}
    BY <2>2, EmptyContents DEF Got
  <2> QED
    BY <2>3 DEF Marked, Apart
<1>2. ASSUME Inv, [Next]_vars PROVE Inv'
  <2>1. Delivery'
    BY <1>2, NextDelivery
  <2>2. CASE \E t \in Topics : Deliver(t) /\ wpc'[t] = "get"
    BY <1>2, <2>1, <2>2, AdvanceApart
  <2>3. CASE \A t \in Topics : ~(Deliver(t) /\ wpc'[t] = "get")
    <3>1. \A p \in Subscribers : Got(p)' \subseteq Got(p)
      BY <1>2, <2>3, GotStays
    <3>2. \A p \in Subscribers : NameOf[p] \in DOMAIN index =>
             NameOf[p] \in DOMAIN index' /\ Mark(p)' = Mark(p)
      BY <1>2, <2>3, MarkStays DEF Delivery
    <3>3. Marked'
      BY <1>2, <3>1, <3>2 DEF Marked
    <3>4. Apart'
      BY <1>2, <3>1 DEF Apart
    <3> QED
      BY <2>1, <3>3, <3>4
  <2> QED
    BY <2>2, <2>3
<1>3. Inv => ExactlyOnce
  <2> SUFFICES ASSUME Inv, NEW p \in Subscribers, NEW q \in Subscribers, p # q, NameOf[p] = NameOf[q],
                      NEW j \in DOMAIN out[p], NEW k \in DOMAIN out[q]
               PROVE  out[p][j] # out[q][k]
    BY DeliveryFilters DEF ExactlyOnce, NoRepeat
  <2>1. out[p] \in Seq(Nat) /\ out[q] \in Seq(Nat)
    BY DEF Delivery, Buffers
  <2>2. /\ out[p][j] \in Nat /\ out[q][k] \in Nat
        /\ out[p][j] \in Contents(out[p]) /\ out[q][k] \in Contents(out[q])
    <3>1. \A s \in Seq(Nat), i \in Nat : i \in DOMAIN s => s[i] \in Nat /\ s[i] \in Contents(s)
      <4> SUFFICES ASSUME NEW s \in Seq(Nat), NEW i \in DOMAIN s PROVE s[i] \in Nat /\ s[i] \in Contents(s)
        OBVIOUS
      <4>1. i \in 1..Len(s) /\ s[i] \in Nat
        OBVIOUS
      <4> QED
        BY <4>1 DEF Contents
    <3>2. j \in Nat /\ k \in Nat
      BY <2>1
    <3> QED
      BY <2>1, <3>1, <3>2
  <2>3. out[p][j] \in Got(p) /\ out[q][k] \in Got(q)
    BY <2>2 DEF Got, EOT
  <2> QED
    BY <2>3 DEF Apart
<1> HIDE DEF Inv
<1>4. Init /\ [][Next]_vars => []Inv
  BY <1>1, <1>2, PTL
<1> QED
  BY <1>3, <1>4, PTL DEF Spec

=============================================================================

------------------------------ MODULE Codexion ------------------------------
(***************************************************************************)
(* The Codexion simulation: N coder threads around a table of N dongles,   *)
(* a monitor thread that stops the run, and the main thread that joins     *)
(* them all and frees the memory.                                          *)
(*                                                                         *)
(* One action stands for one critical section of the program, or for one   *)
(* unsynchronised access that another thread can observe.  dongle_acquire  *)
(* and dongle_release run under the mutex of their dongle; the mutexes of  *)
(* the stop flag and of the log are leaves (nothing is locked inside       *)
(* them), so they add no step of their own.  A poll of acquire_loop that   *)
(* does not get the dongle changes nothing but the waiting time: it is a   *)
(* stuttering step.                                                        *)
(*                                                                         *)
(* An operator named X_Something is a mutant: the definition X with a      *)
(* plausible bug.  Nothing uses it; it shows which bug a property catches. *)
(***************************************************************************)
EXTENDS Integers, FiniteSets

CONSTANTS
    N,             \* number of coders, and of dongles
    Scheduler,     \* "fifo" or "edf"
    Burnout,       \* time_to_burnout
    Compile,       \* time_to_compile
    Debug,         \* time_to_debug
    Refactor,      \* time_to_refactor
    Required,      \* n_compiles_required
    Cooldown,      \* dongle_cooldown
    StartOffset,   \* CODER_START_OFFSET (5 in the code)
    MaxTime        \* bound: the clock of a running simulation stops here

ASSUME ConstantsAssumption ==
    /\ N \in Nat \ {0}
    /\ Scheduler \in {"fifo", "edf"}
    /\ Compile \in Nat \ {0} /\ Debug \in Nat \ {0} /\ Refactor \in Nat \ {0}
    /\ Burnout \in Nat /\ Compile < Burnout
    /\ Required \in Nat \ {0}
    /\ Cooldown \in Nat /\ StartOffset \in Nat /\ MaxTime \in Nat

Coders == 1..N
Dongles == 0..(N - 1)

VARIABLES
    now,          \* what get_time_ms returns; start_time_ms is StartTime
    \* --- t_coder, indexed by id
    pc,           \* where the thread is in coder_routine
    wake,         \* end of the sleep the thread is in
    state,        \* coder->state
    lcs,          \* coder->last_compile_start
    stamp,        \* the value get_time_ms gave do_compile, before it is stored
    count,        \* coder->compile_count
    \* --- t_dongle
    inUse, inCooldown, releaseTime,
    waiters,      \* the priority queue, as the set of its nodes
    \* --- t_sim
    stopped, burnoutCoder, endTime,
    \* --- monitor thread and main thread
    mpc, mnow, mi,
    mainpc

coderVars == <<pc, wake, state, lcs, stamp, count>>
dongleVars == <<inUse, inCooldown, releaseTime, waiters>>
monitorVars == <<mpc, mnow, mi>>
vars == <<now, coderVars, dongleVars, stopped, burnoutCoder, endTime,
          monitorVars, mainpc>>

StartTime == 1    \* any instant later than the 0 that endTime starts from

-----------------------------------------------------------------------------
(* The table: which dongles a coder uses, and in which order.              *)

LeftDongle(c) == c - 1
RightDongle(c) == IF N = 1 THEN 0 ELSE c % N

\* get_dongle_order: the lower index first.
DongleOrder_AsSeated(c) == <<LeftDongle(c), RightDongle(c)>>    \* a mutant
DongleOrder(c) == IF LeftDongle(c) < RightDongle(c)
                  THEN <<LeftDongle(c), RightDongle(c)>>
                  ELSE <<RightDongle(c), LeftDongle(c)>>
First(c) == DongleOrder(c)[1]
Second(c) == DongleOrder(c)[2]

-----------------------------------------------------------------------------
(* The priority queue of a dongle, as a set of nodes.  The array heap that  *)
(* implements it is left out.                                              *)

ComesBefore_Reversed(a, b) == a.key > b.key \/ (a.key = b.key /\ a.id > b.id)
ComesBefore(a, b) == a.key < b.key \/ (a.key = b.key /\ a.id > b.id)

IsTop(q, c) == \E e \in q : /\ e.id = c
                            /\ \A f \in q \ {e} : ComesBefore(e, f)

Without(q, c) == {e \in q : e.id # c}

\* coder->deadline: stored together with last_compile_start, read only by its
\* own thread.
Deadline(c) == lcs[c] + Burnout

Key(c) == IF Scheduler = "fifo" THEN now ELSE Deadline(c)

-----------------------------------------------------------------------------
Init ==
    /\ now = StartTime
    /\ pc = [c \in Coders |-> "boot"]
    /\ wake = [c \in Coders |-> 0]
    /\ state = [c \in Coders |-> "WAITING"]
    /\ lcs = [c \in Coders |-> StartTime]
    /\ stamp = [c \in Coders |-> 0]
    /\ count = [c \in Coders |-> 0]
    /\ inUse = [d \in Dongles |-> FALSE]
    /\ inCooldown = [d \in Dongles |-> FALSE]
    /\ releaseTime = [d \in Dongles |-> 0]
    /\ waiters = [d \in Dongles |-> {}]
    /\ stopped = FALSE /\ burnoutCoder = 0 /\ endTime = 0
    /\ mpc = "idle" /\ mnow = 0 /\ mi = 1
    /\ mainpc = "join"

-----------------------------------------------------------------------------
(* Coder threads.                                                          *)

Awake(c) == now >= wake[c]

Goto(c, l) == pc' = [pc EXCEPT ![c] = l]
SetState(c, s) == state' = [state EXCEPT ![c] = s]
Sleep(c, ms) == wake' = [wake EXCEPT ![c] = now + ms]
WakeUp(c) == Awake(c) /\ wake' = [wake EXCEPT ![c] = 0]

Boot(c) ==
    /\ pc[c] = "boot"
    /\ SetState(c, "WAITING")
    /\ Sleep(c, (c - 1) * StartOffset)
    /\ Goto(c, "loop")
    /\ UNCHANGED <<now, lcs, stamp, count, dongleVars, stopped, burnoutCoder,
                   endTime, monitorVars, mainpc>>

\* The while condition of coder_routine, and the first statement of its body.
LoopTest(c) ==
    /\ pc[c] = "loop"
    /\ WakeUp(c)
    /\ IF stopped
       THEN Goto(c, "done") /\ UNCHANGED state
       ELSE Goto(c, "enq1") /\ SetState(c, "WAITING")
    /\ UNCHANGED <<now, lcs, stamp, count, dongleVars, stopped, burnoutCoder,
                   endTime, monitorVars, mainpc>>

\* try_acquire succeeds: c is the top of queue q of dongle d, which is free
\* and has cooled down.
CanTake_InUseIgnored(c, d, q) ==
    /\ IsTop(q, c)
    /\ inCooldown[d] => releaseTime[d] + Cooldown - now <= 0
CanTake_CooldownOffByOne(c, d, q) ==
    /\ IsTop(q, c)
    /\ ~inUse[d]
    /\ inCooldown[d] => releaseTime[d] + Cooldown - now <= 1
CanTake(c, d, q) ==
    /\ IsTop(q, c)
    /\ ~inUse[d]
    /\ inCooldown[d] => releaseTime[d] + Cooldown - now <= 0

\* One round of acquire_loop on dongle d whose queue is q: give up, take the
\* dongle, or wait.
AcquireRound_NodeLeftBehind(c, d, q, waiting, got, refused) ==
    \/ /\ stopped
       /\ waiters' = [waiters EXCEPT ![d] = q]
       /\ Goto(c, refused)
       /\ UNCHANGED <<inUse, inCooldown>>
    \/ /\ ~stopped /\ CanTake(c, d, q)
       /\ inUse' = [inUse EXCEPT ![d] = TRUE]
       /\ inCooldown' = [inCooldown EXCEPT ![d] = FALSE]
       /\ waiters' = [waiters EXCEPT ![d] = Without(q, c)]
       /\ Goto(c, got)
    \/ /\ ~stopped /\ ~CanTake(c, d, q)
       /\ waiters' = [waiters EXCEPT ![d] = q]
       /\ Goto(c, waiting)
       /\ UNCHANGED <<inUse, inCooldown>>
AcquireRound_StopIgnored(c, d, q, waiting, got, refused) ==
    \/ /\ CanTake(c, d, q)
       /\ inUse' = [inUse EXCEPT ![d] = TRUE]
       /\ inCooldown' = [inCooldown EXCEPT ![d] = FALSE]
       /\ waiters' = [waiters EXCEPT ![d] = Without(q, c)]
       /\ Goto(c, got)
    \/ /\ ~CanTake(c, d, q)
       /\ waiters' = [waiters EXCEPT ![d] = q]
       /\ Goto(c, waiting)
       /\ UNCHANGED <<inUse, inCooldown>>
AcquireRound(c, d, q, waiting, got, refused) ==
    \/ /\ stopped
       /\ waiters' = [waiters EXCEPT ![d] = Without(q, c)]
       /\ Goto(c, refused)
       /\ UNCHANGED <<inUse, inCooldown>>
    \/ /\ ~stopped /\ CanTake(c, d, q)
       /\ inUse' = [inUse EXCEPT ![d] = TRUE]
       /\ inCooldown' = [inCooldown EXCEPT ![d] = FALSE]
       /\ waiters' = [waiters EXCEPT ![d] = Without(q, c)]
       /\ Goto(c, got)
    \/ /\ ~stopped /\ ~CanTake(c, d, q)
       /\ waiters' = [waiters EXCEPT ![d] = q]
       /\ Goto(c, waiting)
       /\ UNCHANGED <<inUse, inCooldown>>

\* dongle_acquire: the push and the first round are one critical section.
Enqueue(c, d, waiting, got, refused) ==
    /\ AcquireRound(c, d, waiters[d] \cup {[id |-> c, key |-> Key(c)]},
                    waiting, got, refused)
    /\ UNCHANGED <<now, wake, state, lcs, stamp, count, releaseTime, stopped,
                   burnoutCoder, endTime, monitorVars, mainpc>>

\* A later round of acquire_loop.
Poll(c, d, waiting, got, refused) ==
    /\ AcquireRound(c, d, waiters[d], waiting, got, refused)
    /\ UNCHANGED <<now, wake, state, lcs, stamp, count, releaseTime, stopped,
                   burnoutCoder, endTime, monitorVars, mainpc>>

EnqueueFirst(c) ==
    pc[c] = "enq1" /\ Enqueue(c, First(c), "poll1", "got1", "done")
PollFirst(c) ==
    pc[c] = "poll1" /\ Poll(c, First(c), "poll1", "got1", "done")
EnqueueSecond(c) ==
    pc[c] = "enq2" /\ Enqueue(c, Second(c), "poll2", "got2", "abort1")
PollSecond(c) ==
    pc[c] = "poll2" /\ Poll(c, Second(c), "poll2", "got2", "abort1")

\* A sim_is_stopped test of acquire_both.
StopTest(c, here, go, abort) ==
    /\ pc[c] = here
    /\ Goto(c, IF stopped THEN abort ELSE go)
    /\ UNCHANGED <<now, wake, state, lcs, stamp, count, dongleVars, stopped,
                   burnoutCoder, endTime, monitorVars, mainpc>>

TestAfterFirst(c) == StopTest(c, "got1", "enq2", "abort1")
TestAfterSecond(c) == StopTest(c, "got2", "begin", "abort2")

\* do_compile reads the clock ...
ReadClock(c) ==
    /\ pc[c] = "begin"
    /\ stamp' = [stamp EXCEPT ![c] = now]
    /\ Goto(c, "stamped")
    /\ UNCHANGED <<now, wake, state, lcs, count, dongleVars, stopped,
                   burnoutCoder, endTime, monitorVars, mainpc>>

\* ... then stores what it read ...
StoreStart(c) ==
    /\ pc[c] = "stamped"
    /\ lcs' = [lcs EXCEPT ![c] = stamp[c]]
    /\ stamp' = [stamp EXCEPT ![c] = 0]
    /\ Goto(c, "started")
    /\ UNCHANGED <<now, wake, state, count, dongleVars, stopped,
                   burnoutCoder, endTime, monitorVars, mainpc>>

\* ... and only then says that it is compiling.
StartCompiling(c) ==
    /\ pc[c] = "started"
    /\ SetState(c, "COMPILING")
    /\ Sleep(c, Compile)
    /\ Goto(c, "compiling")
    /\ UNCHANGED <<now, lcs, stamp, count, dongleVars, stopped, burnoutCoder,
                   endTime, monitorVars, mainpc>>

FinishCompiling(c) ==
    /\ pc[c] = "compiling"
    /\ WakeUp(c)
    /\ count' = [count EXCEPT ![c] = @ + 1]
    /\ SetState(c, "WAITING")
    /\ Goto(c, "rel2")
    /\ UNCHANGED <<now, lcs, stamp, dongleVars, stopped, burnoutCoder,
                   endTime, monitorVars, mainpc>>

\* dongle_release of dongle d at label `here`.
Release(c, d, here, next) ==
    /\ pc[c] = here
    /\ inUse' = [inUse EXCEPT ![d] = FALSE]
    /\ inCooldown' = [inCooldown EXCEPT ![d] = TRUE]
    /\ releaseTime' = [releaseTime EXCEPT ![d] = now]
    /\ Goto(c, next)
    /\ UNCHANGED <<now, wake, state, lcs, stamp, count, waiters, stopped,
                   burnoutCoder, endTime, monitorVars, mainpc>>

ReleaseSecond(c) == Release(c, Second(c), "rel2", "rel1")
ReleaseFirst(c) == Release(c, First(c), "rel1", "debug")
AbortSecond(c) == Release(c, Second(c), "abort2", "abort1")
AbortFirst(c) == Release(c, First(c), "abort1", "done")

\* do_debug and do_refactor.
Activity(c, here, next, s, ms) ==
    /\ pc[c] = here
    /\ Awake(c)
    /\ IF stopped
       THEN /\ wake' = [wake EXCEPT ![c] = 0]
            /\ Goto(c, "done") /\ UNCHANGED state
       ELSE Sleep(c, ms) /\ SetState(c, s) /\ Goto(c, next)
    /\ UNCHANGED <<now, lcs, stamp, count, dongleVars, stopped, burnoutCoder,
                   endTime, monitorVars, mainpc>>

DoDebug(c) == Activity(c, "debug", "refactor", "DEBUGGING", Debug)
DoRefactor(c) == Activity(c, "refactor", "loop", "REFACTORING", Refactor)

CoderStep(c) ==
    \/ Boot(c) \/ LoopTest(c)
    \/ EnqueueFirst(c) \/ PollFirst(c) \/ TestAfterFirst(c)
    \/ EnqueueSecond(c) \/ PollSecond(c) \/ TestAfterSecond(c)
    \/ ReadClock(c) \/ StoreStart(c) \/ StartCompiling(c)
    \/ FinishCompiling(c) \/ ReleaseSecond(c) \/ ReleaseFirst(c)
    \/ DoDebug(c) \/ DoRefactor(c)
    \/ AbortSecond(c) \/ AbortFirst(c)

-----------------------------------------------------------------------------
(* The monitor thread.                                                     *)

\* usleep(500): less than a tick of the clock, and as much longer as the
\* scheduler likes.
BackToSleep == mpc' = "idle" /\ mnow' = 0 /\ mi' = 1

MonitorWake ==
    /\ mpc = "idle"
    /\ mpc' = IF stopped THEN "done" ELSE "all_done"
    /\ UNCHANGED <<now, coderVars, dongleVars, stopped, burnoutCoder, endTime,
                   mnow, mi, mainpc>>

\* check_all_done.  Counts only grow, so reading them one by one answers what
\* reading them at once when the loop ends would answer.
CheckAllDone_AnyCoder ==
    /\ mpc = "all_done"
    /\ mpc' = IF \E c \in Coders : count[c] >= Required THEN "stop" ELSE "sample"
    /\ UNCHANGED <<now, coderVars, dongleVars, stopped, burnoutCoder, endTime,
                   mnow, mi, mainpc>>
CheckAllDone ==
    /\ mpc = "all_done"
    /\ mpc' = IF \A c \in Coders : count[c] >= Required THEN "stop" ELSE "sample"
    /\ UNCHANGED <<now, coderVars, dongleVars, stopped, burnoutCoder, endTime,
                   mnow, mi, mainpc>>

\* check_burnout reads the clock once ...
SampleClock ==
    /\ mpc = "sample"
    /\ mnow' = now
    /\ mpc' = "scan"
    /\ UNCHANGED <<now, coderVars, dongleVars, stopped, burnoutCoder, endTime,
                   mi, mainpc>>

NextCoder_FirstOnly == BackToSleep
NextCoder ==
    IF mi < N THEN mpc' = "scan" /\ mi' = mi + 1 /\ UNCHANGED mnow
              ELSE BackToSleep

\* ... then, coder by coder, last_compile_start ...
ScanDeadline ==
    /\ mpc = "scan"
    /\ IF mnow >= lcs[mi] + Burnout
       THEN mpc' = "scan_state" /\ UNCHANGED <<mi, mnow>>
       ELSE NextCoder
    /\ UNCHANGED <<now, coderVars, dongleVars, stopped, burnoutCoder, endTime,
                   mainpc>>

\* ... and state, none of them under a lock.
ScanState ==
    /\ mpc = "scan_state"
    /\ IF state[mi] # "COMPILING"
       THEN /\ burnoutCoder' = mi
            /\ mpc' = "stop" /\ mi' = 1 /\ mnow' = 0
       ELSE NextCoder /\ UNCHANGED burnoutCoder
    /\ UNCHANGED <<now, coderVars, dongleVars, stopped, endTime, mainpc>>

StopSim ==
    /\ mpc = "stop"
    /\ stopped' = TRUE
    /\ endTime' = now
    /\ mpc' = "broadcast"
    /\ UNCHANGED <<now, coderVars, dongleVars, burnoutCoder, mnow, mi,
                   mainpc>>

\* broadcast_all locks and signals every dongle in turn: it changes nothing a
\* waiting coder would not find out in its next round, but the dongles are in
\* use until it returns.
Broadcast ==
    /\ mpc = "broadcast"
    /\ mpc' = "done"
    /\ UNCHANGED <<now, coderVars, dongleVars, stopped, burnoutCoder, endTime,
                   mnow, mi, mainpc>>

MonitorStep == \/ MonitorWake \/ CheckAllDone \/ SampleClock
               \/ ScanDeadline \/ ScanState \/ StopSim \/ Broadcast

-----------------------------------------------------------------------------
(* The main thread after sim_run has created the others: join the coders,  *)
(* set the flag, join the monitor, print the statistics and free.          *)

JoinCoders ==
    /\ mainpc = "join"
    /\ \A c \in Coders : pc[c] = "done"
    /\ stopped' = TRUE
    /\ mainpc' = "join_monitor"
    /\ UNCHANGED <<now, coderVars, dongleVars, burnoutCoder, endTime,
                   monitorVars>>

Cleanup ==
    /\ mainpc = "join_monitor" /\ mpc = "done"
    /\ mainpc' = "freed"
    /\ UNCHANGED <<now, coderVars, dongleVars, stopped, burnoutCoder, endTime,
                   monitorVars>>

-----------------------------------------------------------------------------
(* Time.                                                                   *)

\* The clock of a running simulation is bounded by MaxTime; once the
\* simulation is stopped it runs until the last sleep is over.
Tick ==
    /\ IF stopped THEN \E c \in Coders : ~Awake(c) ELSE now < MaxTime
    /\ now' = now + 1
    /\ UNCHANGED <<coderVars, dongleVars, stopped, burnoutCoder, endTime,
                   monitorVars, mainpc>>

Terminated == mainpc = "freed" /\ UNCHANGED vars

Next == \/ \E c \in Coders : CoderStep(c)
        \/ MonitorStep
        \/ JoinCoders \/ Cleanup
        \/ Tick
        \/ Terminated

\* Every thread is scheduled again and again, and time passes.
Fairness == /\ \A c \in Coders : WF_vars(CoderStep(c))
            /\ WF_vars(MonitorStep)
            /\ WF_vars(JoinCoders \/ Cleanup)
            /\ WF_vars(Tick)

Spec == Init /\ [][Next]_vars
FairSpec == Spec /\ Fairness

-----------------------------------------------------------------------------
(* Properties.                                                             *)

\* Where a coder holds its dongles and where it waits for one.
FirstLabels == {"got1", "enq2", "poll2", "got2", "begin", "stamped", "started",
                "compiling", "rel2", "rel1", "abort2", "abort1"}
SecondLabels == {"got2", "begin", "stamped", "started", "compiling", "rel2",
                 "abort2"}
HoldsFirst(c) == pc[c] \in FirstLabels
HoldsSecond(c) == pc[c] \in SecondLabels
Holds(c, d) == \/ HoldsFirst(c) /\ d = First(c)
               \/ HoldsSecond(c) /\ d = Second(c)
WaitsFor(c, d) == \/ pc[c] = "poll1" /\ d = First(c)
                  \/ pc[c] = "poll2" /\ d = Second(c)

Labels == {"boot", "loop", "enq1", "poll1", "got1", "enq2", "poll2", "got2",
           "begin", "stamped", "started", "compiling", "rel2", "rel1",
           "debug", "refactor", "abort2", "abort1", "done"}
States == {"WAITING", "COMPILING", "DEBUGGING", "REFACTORING"}
MonitorLabels == {"idle", "all_done", "sample", "scan", "scan_state", "stop",
                  "broadcast", "done"}

\* Every variable stays in its range, from boot to cleanup.
TypeOK ==
    /\ now \in Nat
    /\ pc \in [Coders -> Labels]
    /\ wake \in [Coders -> Nat]
    /\ state \in [Coders -> States]
    /\ lcs \in [Coders -> Nat] /\ stamp \in [Coders -> Nat]
    /\ count \in [Coders -> Nat]
    /\ inUse \in [Dongles -> BOOLEAN] /\ inCooldown \in [Dongles -> BOOLEAN]
    /\ releaseTime \in [Dongles -> Nat]
    /\ waiters \in [Dongles -> SUBSET [id : Coders, key : Nat]]
    /\ stopped \in BOOLEAN /\ burnoutCoder \in 0..N /\ endTime \in Nat
    /\ mpc \in MonitorLabels /\ mnow \in Nat /\ mi \in Coders
    /\ mainpc \in {"join", "join_monitor", "freed"}

\* No two coders are between acquiring and releasing the same dongle, and the
\* in_use flag is set exactly while one is, also on the abort paths of
\* acquire_both that give back one dongle or two.
DongleExclusion ==
    /\ \A d \in Dongles : inUse[d] <=> \E c \in Coders : Holds(c, d)
    /\ \A d \in Dongles, b, c \in Coders : Holds(b, d) /\ Holds(c, d) => b = c

\* The coders never all wait for each other: when every one of them is in
\* acquire_loop, one is at the top of the queue of a dongle that nobody uses,
\* and gets it when the cooldown is over.  This is what the order of
\* get_dongle_order is for.
NoDeadlock ==
    (\A c \in Coders : pc[c] \in {"poll1", "poll2"}) =>
        \E c \in Coders, d \in Dongles :
            WaitsFor(c, d) /\ IsTop(waiters[d], c) /\ ~inUse[d]

\* A coder has one node in the queue of the dongle it waits for and none
\* anywhere else: a coder that gave up on a stopped simulation, or got its
\* dongle, leaves no node behind that would block the queue for the others.
QueueMatchesWaiters ==
    \A d \in Dongles, c \in Coders :
        /\ (\E e \in waiters[d] : e.id = c) <=> WaitsFor(c, d)
        /\ \A e, f \in waiters[d] : e.id = f.id => e = f

\* The program ends in order: a coder thread leaves its loop only when the
\* simulation has been stopped; the memory is freed only after every other
\* thread has returned; and the result printed by then is true: without a
\* burnout every coder has compiled as often as required.
EndsInOrder ==
    /\ (\E c \in Coders : pc[c] \in {"abort1", "abort2", "done"}) => stopped
    /\ mainpc = "freed" =>
         /\ stopped /\ endTime >= StartTime /\ mpc = "done"
         /\ \A c \in Coders : pc[c] = "done"
         /\ \A d \in Dongles : ~inUse[d] /\ waiters[d] = {}
         /\ burnoutCoder = 0 => \A c \in Coders : count[c] >= Required

\* A dongle that was released is taken again only Cooldown later, whatever
\* order releases, polls and the clearing of in_cooldown come in.
CooldownRespected ==
    [][\A d \in Dongles : ~inUse[d] /\ inUse'[d] /\ releaseTime[d] > 0
           => now >= releaseTime[d] + Cooldown]_vars

\* Once stopped, every thread returns and the program ends: no coder stays in
\* acquire_loop, whatever it waits for.
Shutdown == stopped ~> (mainpc = "freed")

\* The monitor does not miss a coder that is overdue and not compiling: the
\* simulation stops, or the coder gets to compile first.
BurnoutDetected ==
    \A c \in Coders :
        (now >= lcs[c] + Burnout /\ state[c] # "COMPILING")
            ~> (stopped \/ state[c] = "COMPILING")

=============================================================================

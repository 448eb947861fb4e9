--------------------------- MODULE CodexionProofs ---------------------------
(***************************************************************************)
(* Theorems about Codexion, for every number of coders, either scheduler   *)
(* and all durations.  A dongle has one holder and rests when released.    *)
(* The program never deadlocks but for one coder: the wait queues name     *)
(* exactly the coders in acquire_loop, every queue that is not empty has a *)
(* top, and the highest dongle anybody waits for is free.  The program     *)
(* ends in order, and nobody is overtaken twice while it waits.            *)
(***************************************************************************)
EXTENDS CodexionOvertaking, FiniteSetTheorems, TLAPS

-----------------------------------------------------------------------------
(* The table.                                                              *)

\* The two dongles get_dongle_order gives a coder exist, and the first is the
\* lower one unless there is only one.
LEMMA OrderLemma ==
    ASSUME NEW c \in Coders
    PROVE  /\ First(c) \in Dongles /\ Second(c) \in Dongles
           /\ N # 1 => First(c) < Second(c)
           /\ N = 1 => First(c) = 0 /\ Second(c) = 0
<1>1. CASE N = 1
  BY <1>1 DEF Coders, Dongles, First, Second, DongleOrder, LeftDongle,
              RightDongle
<1>2. CASE N # 1 /\ c = N
  <2>1. c % N = 0
    BY <1>2, ConstantsAssumption, SMT DEF Coders
  <2>2. LeftDongle(c) = N - 1 /\ RightDongle(c) = 0
    BY <1>2, <2>1 DEF LeftDongle, RightDongle
  <2> QED
    BY <1>2, <2>2, ConstantsAssumption
    DEF Coders, Dongles, First, Second, DongleOrder
<1>3. CASE N # 1 /\ c # N
  <2>1. c % N = c
    BY <1>3, ConstantsAssumption, SMT DEF Coders
  <2>2. LeftDongle(c) = c - 1 /\ RightDongle(c) = c
    BY <1>3, <2>1 DEF LeftDongle, RightDongle
  <2> QED
    BY <1>3, <2>2, ConstantsAssumption
    DEF Coders, Dongles, First, Second, DongleOrder
<1> QED
  BY <1>1, <1>2, <1>3

-----------------------------------------------------------------------------
(* Type correctness.                                                       *)

LEMMA InitType == Init => TypeOK
<1> SUFFICES ASSUME Init PROVE TypeOK
  OBVIOUS
<1>1. 1 \in Coders /\ 0 \in 0..N
  BY ConstantsAssumption DEF Coders
<1>2. waiters \in [Dongles -> SUBSET [id : Coders, key : Nat]]
  BY DEF Init
<1> QED
  BY <1>1, <1>2
  DEF Init, TypeOK, StartTime, Labels, States, MonitorLabels

\* A round of acquire_loop moves one label, one queue and two flags.
LEMMA RoundType ==
    ASSUME TypeOK, NEW c \in Coders, NEW d \in Dongles,
           NEW q \in SUBSET [id : Coders, key : Nat],
           NEW w \in Labels, NEW g \in Labels, NEW r \in Labels,
           AcquireRound(c, d, q, w, g, r)
    PROVE  /\ pc' \in [Coders -> Labels]
           /\ inUse' \in [Dongles -> BOOLEAN]
           /\ inCooldown' \in [Dongles -> BOOLEAN]
           /\ waiters' \in [Dongles -> SUBSET [id : Coders, key : Nat]]
<1>1. Without(q, c) \in SUBSET [id : Coders, key : Nat]
  BY DEF Without
<1>2. /\ waiters' = [waiters EXCEPT ![d] = q]
         \/ waiters' = [waiters EXCEPT ![d] = Without(q, c)]
      /\ UNCHANGED inUse \/ inUse' = [inUse EXCEPT ![d] = TRUE]
      /\ UNCHANGED inCooldown \/ inCooldown' = [inCooldown EXCEPT ![d] = FALSE]
      /\ \E l \in {w, g, r} : pc' = [pc EXCEPT ![c] = l]
  BY DEF AcquireRound, Goto
<1>3. pc' \in [Coders -> Labels]
  BY <1>2 DEF TypeOK
<1>4. inUse' \in [Dongles -> BOOLEAN]
  BY <1>2 DEF TypeOK
<1>5. inCooldown' \in [Dongles -> BOOLEAN]
  BY <1>2 DEF TypeOK
<1>6. waiters' \in [Dongles -> SUBSET [id : Coders, key : Nat]]
  BY <1>1, <1>2 DEF TypeOK
<1> QED
  BY <1>3, <1>4, <1>5, <1>6

LEMMA KeyType == ASSUME TypeOK, NEW c \in Coders PROVE Key(c) \in Nat
BY ConstantsAssumption DEF TypeOK, Key, Deadline

LEMMA CoderType == ASSUME TypeOK, NEW c \in Coders, CoderStep(c) PROVE TypeOK'
<1> c \in Nat /\ c >= 1
  BY ConstantsAssumption DEF Coders
<1>0. First(c) \in Dongles /\ Second(c) \in Dongles
  BY OrderLemma
<1>1. CASE Boot(c)
  <2>1. (c - 1) * StartOffset \in Nat
    BY ConstantsAssumption
  <2> QED
    BY <1>1, <2>1
    DEF Boot, TypeOK, SetState, Sleep, Goto, States, Labels, dongleVars,
        monitorVars
<1>2. CASE LoopTest(c)
  BY <1>2 DEF LoopTest, TypeOK, SetState, WakeUp, Goto, States, Labels,
              dongleVars, monitorVars
<1>3. CASE EnqueueFirst(c) \/ EnqueueSecond(c)
  <2>1. PICK d \in Dongles, w \in Labels, g \in Labels, r \in Labels :
           Enqueue(c, d, w, g, r)
    <3>1. {"poll1", "got1", "done", "poll2", "got2", "abort1"} \subseteq Labels
      BY DEF Labels
    <3>2. \/ Enqueue(c, First(c), "poll1", "got1", "done")
          \/ Enqueue(c, Second(c), "poll2", "got2", "abort1")
      BY <1>3 DEF EnqueueFirst, EnqueueSecond
    <3> QED
      BY <1>0, <3>1, <3>2
  <2>2. waiters[d] \cup {[id |-> c, key |-> Key(c)]}
           \in SUBSET [id : Coders, key : Nat]
    BY KeyType DEF TypeOK
  <2>3. AcquireRound(c, d, waiters[d] \cup {[id |-> c, key |-> Key(c)]}, w, g, r)
    BY <2>1 DEF Enqueue
  <2> QED
    BY <2>1, <2>2, <2>3, RoundType DEF Enqueue, TypeOK, monitorVars
<1>4. CASE PollFirst(c) \/ PollSecond(c)
  <2>1. PICK d \in Dongles, w \in Labels, g \in Labels, r \in Labels :
           Poll(c, d, w, g, r)
    <3>1. {"poll1", "got1", "done", "poll2", "got2", "abort1"} \subseteq Labels
      BY DEF Labels
    <3>2. \/ Poll(c, First(c), "poll1", "got1", "done")
          \/ Poll(c, Second(c), "poll2", "got2", "abort1")
      BY <1>4 DEF PollFirst, PollSecond
    <3> QED
      BY <1>0, <3>1, <3>2
  <2>2. waiters[d] \in SUBSET [id : Coders, key : Nat]
    BY DEF TypeOK
  <2>3. AcquireRound(c, d, waiters[d], w, g, r)
    BY <2>1 DEF Poll
  <2> QED
    BY <2>1, <2>2, <2>3, RoundType DEF Poll, TypeOK, monitorVars
<1>5. CASE TestAfterFirst(c) \/ TestAfterSecond(c)
  BY <1>5 DEF TestAfterFirst, TestAfterSecond, StopTest, TypeOK, Goto, Labels,
              dongleVars, monitorVars
<1>6. CASE ReadClock(c) \/ StoreStart(c)
  BY <1>6 DEF ReadClock, StoreStart, TypeOK, Goto, Labels, dongleVars,
              monitorVars
<1>7. CASE StartCompiling(c)
  BY <1>7, ConstantsAssumption
  DEF StartCompiling, TypeOK, SetState, Sleep, Goto, States, Labels,
      dongleVars, monitorVars
<1>8. CASE FinishCompiling(c)
  BY <1>8 DEF FinishCompiling, TypeOK, SetState, WakeUp, Goto, States, Labels,
              dongleVars, monitorVars
<1>9. CASE ReleaseSecond(c) \/ ReleaseFirst(c) \/ AbortSecond(c) \/ AbortFirst(c)
  <2>1. PICK d \in Dongles, h \in Labels, l \in Labels : Release(c, d, h, l)
    BY <1>0, <1>9 DEF ReleaseSecond, ReleaseFirst, AbortSecond, AbortFirst,
                      Labels
  <2> QED
    BY <2>1 DEF Release, TypeOK, Goto, monitorVars
<1>10. CASE DoDebug(c) \/ DoRefactor(c)
  <2>1. PICK h \in Labels, l \in Labels, s \in States, ms \in Nat :
           Activity(c, h, l, s, ms)
    BY <1>10, ConstantsAssumption DEF DoDebug, DoRefactor, Labels, States
  <2>2. "done" \in Labels
    BY DEF Labels
  <2> QED
    BY <2>1, <2>2 DEF Activity, TypeOK, Goto, SetState, Sleep, dongleVars,
                      monitorVars
<1> QED
  BY <1>1, <1>2, <1>3, <1>4, <1>5, <1>6, <1>7, <1>8, <1>9, <1>10 DEF CoderStep

LEMMA MonitorType == ASSUME TypeOK, MonitorStep PROVE TypeOK'
<1> 1 \in Coders /\ N \in Nat
  BY ConstantsAssumption DEF Coders
<1> mi \in Nat /\ mi \in 1..N
  BY DEF TypeOK, Coders
<1>1. CASE MonitorWake \/ CheckAllDone \/ SampleClock
  BY <1>1 DEF MonitorWake, CheckAllDone, SampleClock, TypeOK, MonitorLabels,
              coderVars, dongleVars
<1>2. mi < N => mi + 1 \in Coders
  BY DEF Coders
<1>3. CASE ScanDeadline
  BY <1>2, <1>3
  DEF ScanDeadline, NextCoder, BackToSleep, TypeOK, MonitorLabels, coderVars,
      dongleVars
<1>4. CASE ScanState
  <2>1. mi \in 0..N
    OBVIOUS
  <2> QED
    BY <1>2, <1>4, <2>1
    DEF ScanState, NextCoder, BackToSleep, TypeOK, MonitorLabels, coderVars,
        dongleVars
<1>5. CASE StopSim \/ Broadcast
  BY <1>5 DEF StopSim, Broadcast, TypeOK, MonitorLabels, coderVars, dongleVars
<1> QED
  BY <1>1, <1>3, <1>4, <1>5 DEF MonitorStep

LEMMA NextType == TypeOK /\ [Next]_vars => TypeOK'
<1> SUFFICES ASSUME TypeOK, [Next]_vars PROVE TypeOK'
  OBVIOUS
<1>1. CASE \E c \in Coders : CoderStep(c)
  BY <1>1, CoderType
<1>2. CASE MonitorStep
  BY <1>2, MonitorType
<1>3. CASE JoinCoders \/ Cleanup
  BY <1>3 DEF JoinCoders, Cleanup, TypeOK, coderVars, dongleVars, monitorVars
<1>4. CASE Tick
  BY <1>4 DEF Tick, TypeOK, coderVars, dongleVars, monitorVars
<1>5. CASE UNCHANGED vars
  BY <1>5 DEF vars, TypeOK, coderVars, dongleVars, monitorVars
<1> QED
  BY <1>1, <1>2, <1>3, <1>4, <1>5 DEF Next, Terminated

\* Every variable keeps its range in every reachable state: threads stay at
\* known labels, the monitor never scans past the last coder.
THEOREM TypeCorrect == Spec => []TypeOK
<1>1. Init => TypeOK
  BY InitType
<1>2. TypeOK /\ [Next]_vars => TypeOK'
  BY NextType
<1> QED
  BY <1>1, <1>2, PTL DEF Spec


-----------------------------------------------------------------------------
(* Mutual exclusion of the dongles.  DongleExclusion is inductive together  *)
(* with the fact that no coder holds one dongle as both its first and its   *)
(* second: releasing the second would clear the flag of the first.          *)

NeverTwice == \A c \in Coders : HoldsSecond(c) => First(c) # Second(c)

ExclusionInv == TypeOK /\ DongleExclusion /\ NeverTwice

\* A step of c that moves between labels with the same dongles, and touches
\* no flag.
LEMMA KeepLemma ==
    ASSUME ExclusionInv, NEW c \in Coders, NEW l \in Labels,
           Goto(c, l), UNCHANGED inUse,
           l \in FirstLabels <=> pc[c] \in FirstLabels,
           l \in SecondLabels <=> pc[c] \in SecondLabels
    PROVE  DongleExclusion' /\ NeverTwice'
<1>1. \A b \in Coders : /\ HoldsFirst(b)' <=> HoldsFirst(b)
                        /\ HoldsSecond(b)' <=> HoldsSecond(b)
  BY DEF HoldsFirst, HoldsSecond, Goto, ExclusionInv, TypeOK
<1>2. \A b \in Coders, d \in Dongles : Holds(b, d)' <=> Holds(b, d)
  BY <1>1 DEF Holds
<1> QED
  BY <1>1, <1>2 DEF ExclusionInv, DongleExclusion, NeverTwice

\* A step of c that takes the free dongle d, as its first or as its second.
LEMMA TakeLemma ==
    ASSUME ExclusionInv, NEW c \in Coders, NEW d \in Dongles, NEW l \in Labels,
           Goto(c, l), ~inUse[d], inUse' = [inUse EXCEPT ![d] = TRUE],
           \/ /\ d = First(c) /\ pc[c] \notin FirstLabels \cup SecondLabels
              /\ l \in FirstLabels \ SecondLabels
           \/ /\ d = Second(c) /\ pc[c] \in FirstLabels \ SecondLabels
              /\ l \in FirstLabels \cap SecondLabels
    PROVE  DongleExclusion' /\ NeverTwice'
<1>1. \A b \in Coders \ {c} : /\ HoldsFirst(b)' <=> HoldsFirst(b)
                              /\ HoldsSecond(b)' <=> HoldsSecond(b)
  BY DEF HoldsFirst, HoldsSecond, Goto, ExclusionInv, TypeOK
<1>2. \A b \in Coders : ~Holds(b, d)
  BY DEF ExclusionInv, DongleExclusion
<1>3. pc'[c] = l
  BY DEF Goto, ExclusionInv, TypeOK
<1>4. \A e \in Dongles : Holds(c, e)' <=> (Holds(c, e) \/ e = d)
  BY <1>3 DEF Holds, HoldsFirst, HoldsSecond
<1>5. \A b \in Coders \ {c}, e \in Dongles : Holds(b, e)' <=> Holds(b, e)
  BY <1>1 DEF Holds
<1>6. DongleExclusion'
  <2>1. \A e \in Dongles : inUse'[e] <=> (inUse[e] \/ e = d)
    BY DEF ExclusionInv, TypeOK
  <2> QED
    BY <1>2, <1>4, <1>5, <2>1 DEF ExclusionInv, DongleExclusion
<1>7. HoldsSecond(c)' => First(c) # Second(c)
  <2>1. CASE d = Second(c) /\ pc[c] \in FirstLabels
    <3>1. Holds(c, First(c))
      BY <2>1 DEF Holds, HoldsFirst
    <3> QED
      BY <2>1, <3>1, <1>2
  <2>2. CASE l \notin SecondLabels
    BY <2>2, <1>3 DEF HoldsSecond
  <2> QED
    BY <2>1, <2>2
<1> QED
  BY <1>1, <1>6, <1>7 DEF NeverTwice, ExclusionInv

\* A step of c that releases its second dongle, or its first and last one.
LEMMA ReleaseLemma ==
    ASSUME ExclusionInv, NEW c \in Coders, NEW d \in Dongles, NEW l \in Labels,
           Goto(c, l), inUse' = [inUse EXCEPT ![d] = FALSE],
           \/ /\ d = Second(c) /\ pc[c] \in FirstLabels \cap SecondLabels
              /\ l \in FirstLabels \ SecondLabels
           \/ /\ d = First(c) /\ pc[c] \in FirstLabels \ SecondLabels
              /\ l \notin FirstLabels \cup SecondLabels
    PROVE  DongleExclusion' /\ NeverTwice'
<1>1. \A b \in Coders \ {c} : /\ HoldsFirst(b)' <=> HoldsFirst(b)
                              /\ HoldsSecond(b)' <=> HoldsSecond(b)
  BY DEF HoldsFirst, HoldsSecond, Goto, ExclusionInv, TypeOK
<1>2. Holds(c, d)
  BY DEF Holds, HoldsFirst, HoldsSecond
<1>3. \A b \in Coders \ {c} : ~Holds(b, d)
  BY <1>2 DEF ExclusionInv, DongleExclusion
<1>4. pc'[c] = l
  BY DEF Goto, ExclusionInv, TypeOK
<1>5. HoldsSecond(c) => First(c) # Second(c)
  BY DEF ExclusionInv, NeverTwice
<1>6. \A e \in Dongles : Holds(c, e)' <=> (Holds(c, e) /\ e # d)
  BY <1>4, <1>5 DEF Holds, HoldsFirst, HoldsSecond
<1>7. \A b \in Coders \ {c}, e \in Dongles : Holds(b, e)' <=> Holds(b, e)
  BY <1>1 DEF Holds
<1>8. \A e \in Dongles : inUse'[e] <=> (inUse[e] /\ e # d)
  BY DEF ExclusionInv, TypeOK
<1>9. DongleExclusion'
  BY <1>3, <1>6, <1>7, <1>8 DEF ExclusionInv, DongleExclusion
<1>10. HoldsSecond(c)' => First(c) # Second(c)
  BY <1>4 DEF HoldsSecond
<1> QED
  BY <1>1, <1>9, <1>10 DEF NeverTwice, ExclusionInv

\* acquire_loop for the first dongle, then for the second one.
LEMMA RoundExclusion ==
    ASSUME ExclusionInv, NEW c \in Coders, NEW d \in Dongles, NEW q,
           NEW w \in Labels, NEW g \in Labels, NEW r \in Labels,
           AcquireRound(c, d, q, w, g, r),
           \/ /\ d = First(c) /\ pc[c] \notin FirstLabels \cup SecondLabels
              /\ g \in FirstLabels \ SecondLabels
              /\ {w, r} \cap (FirstLabels \cup SecondLabels) = {}
           \/ /\ d = Second(c) /\ pc[c] \in FirstLabels \ SecondLabels
              /\ g \in FirstLabels \cap SecondLabels
              /\ {w, r} \subseteq FirstLabels \ SecondLabels
    PROVE  DongleExclusion' /\ NeverTwice'
<1>1. CASE Goto(c, r) /\ UNCHANGED inUse
  BY <1>1, KeepLemma
<1>2. CASE Goto(c, w) /\ UNCHANGED inUse
  BY <1>2, KeepLemma
<1>3. CASE /\ Goto(c, g) /\ CanTake(c, d, q)
           /\ inUse' = [inUse EXCEPT ![d] = TRUE]
  BY <1>3, TakeLemma DEF CanTake
<1> QED
  BY <1>1, <1>2, <1>3 DEF AcquireRound

LEMMA CoderExclusion ==
    ASSUME ExclusionInv, NEW c \in Coders, CoderStep(c)
    PROVE  DongleExclusion' /\ NeverTwice'
<1>0. First(c) \in Dongles /\ Second(c) \in Dongles
  BY OrderLemma
<1>a. pc[c] \in Labels /\ pc \in [Coders -> Labels]
  BY DEF ExclusionInv, TypeOK
<1>1. CASE \/ Boot(c) \/ LoopTest(c) \/ DoDebug(c) \/ DoRefactor(c)
           \/ TestAfterFirst(c) \/ TestAfterSecond(c)
           \/ ReadClock(c) \/ StoreStart(c) \/ StartCompiling(c)
           \/ FinishCompiling(c)
  <2>1. PICK l \in Labels : /\ Goto(c, l) /\ UNCHANGED inUse
                            /\ l \in FirstLabels <=> pc[c] \in FirstLabels
                            /\ l \in SecondLabels <=> pc[c] \in SecondLabels
    BY <1>1 DEF Boot, LoopTest, DoDebug, DoRefactor, Activity, TestAfterFirst,
                TestAfterSecond, StopTest, ReadClock, StoreStart,
                StartCompiling, FinishCompiling, dongleVars, Labels,
                FirstLabels, SecondLabels
  <2> QED
    BY <2>1, KeepLemma
<1>2. CASE EnqueueFirst(c) \/ PollFirst(c)
  <2>1. PICK q : AcquireRound(c, First(c), q, "poll1", "got1", "done")
    BY <1>2 DEF EnqueueFirst, PollFirst, Enqueue, Poll
  <2>2. pc[c] \in {"enq1", "poll1"}
    BY <1>2 DEF EnqueueFirst, PollFirst
  <2>3. {"poll1", "got1", "done"} \subseteq Labels
    BY DEF Labels
  <2>4. /\ pc[c] \notin FirstLabels \cup SecondLabels
        /\ "got1" \in FirstLabels \ SecondLabels
        /\ {"poll1", "done"} \cap (FirstLabels \cup SecondLabels) = {}
    BY <2>2 DEF FirstLabels, SecondLabels
  <2> QED
    BY <1>0, <2>1, <2>3, <2>4, RoundExclusion
<1>3. CASE EnqueueSecond(c) \/ PollSecond(c)
  <2>1. PICK q : AcquireRound(c, Second(c), q, "poll2", "got2", "abort1")
    BY <1>3 DEF EnqueueSecond, PollSecond, Enqueue, Poll
  <2>2. pc[c] \in {"enq2", "poll2"}
    BY <1>3 DEF EnqueueSecond, PollSecond
  <2>3. {"poll2", "got2", "abort1"} \subseteq Labels
    BY DEF Labels
  <2>4. /\ pc[c] \in FirstLabels \ SecondLabels
        /\ "got2" \in FirstLabels \cap SecondLabels
        /\ {"poll2", "abort1"} \subseteq FirstLabels \ SecondLabels
    BY <2>2 DEF FirstLabels, SecondLabels
  <2> QED
    BY <1>0, <2>1, <2>3, <2>4, RoundExclusion
<1>4. CASE ReleaseSecond(c) \/ AbortSecond(c)
  <2>1. PICK l \in Labels : /\ Goto(c, l)
                            /\ inUse' = [inUse EXCEPT ![Second(c)] = FALSE]
                            /\ pc[c] \in FirstLabels \cap SecondLabels
                            /\ l \in FirstLabels \ SecondLabels
    BY <1>4 DEF ReleaseSecond, AbortSecond, Release, Labels, FirstLabels,
                SecondLabels
  <2> QED
    BY <1>0, <2>1, ReleaseLemma
<1>5. CASE ReleaseFirst(c) \/ AbortFirst(c)
  <2>1. PICK l \in Labels : /\ Goto(c, l)
                            /\ inUse' = [inUse EXCEPT ![First(c)] = FALSE]
                            /\ pc[c] \in FirstLabels \ SecondLabels
                            /\ l \notin FirstLabels \cup SecondLabels
    BY <1>5 DEF ReleaseFirst, AbortFirst, Release, Labels, FirstLabels,
                SecondLabels
  <2> QED
    BY <1>0, <2>1, ReleaseLemma
<1> QED
  BY <1>1, <1>2, <1>3, <1>4, <1>5 DEF CoderStep

LEMMA InitExclusion == Init => ExclusionInv
<1> SUFFICES ASSUME Init PROVE DongleExclusion /\ NeverTwice
  BY InitType DEF ExclusionInv
<1>1. \A c \in Coders : ~HoldsFirst(c) /\ ~HoldsSecond(c)
  BY DEF Init, HoldsFirst, HoldsSecond, FirstLabels, SecondLabels
<1>2. \A d \in Dongles : ~inUse[d]
  BY DEF Init
<1> QED
  BY <1>1, <1>2 DEF DongleExclusion, NeverTwice, Holds

LEMMA NextExclusion == ExclusionInv /\ [Next]_vars => ExclusionInv'
<1> SUFFICES ASSUME ExclusionInv, [Next]_vars
             PROVE  DongleExclusion' /\ NeverTwice'
  BY NextType DEF ExclusionInv
<1>1. CASE \E c \in Coders : CoderStep(c)
  BY <1>1, CoderExclusion
<1>2. CASE UNCHANGED <<coderVars, dongleVars>>
  BY <1>2 DEF coderVars, dongleVars, ExclusionInv, DongleExclusion, NeverTwice,
              Holds, HoldsFirst, HoldsSecond
<1>3. MonitorStep \/ JoinCoders \/ Cleanup \/ Tick \/ UNCHANGED vars
         => UNCHANGED <<coderVars, dongleVars>>
  BY DEF MonitorStep, MonitorWake, CheckAllDone, SampleClock, ScanDeadline,
         ScanState, StopSim, Broadcast, JoinCoders, Cleanup, Tick, vars
<1> QED
  BY <1>1, <1>2, <1>3 DEF Next, Terminated

\* No dongle is ever in the hands of two coders, and in_use tells exactly
\* whether it is in anybody's.
THEOREM Exclusion == Spec => []DongleExclusion
<1>1. Init => ExclusionInv
  BY InitExclusion
<1>2. ExclusionInv /\ [Next]_vars => ExclusionInv'
  BY NextExclusion
<1>3. ExclusionInv => DongleExclusion
  BY DEF ExclusionInv
<1> QED
  BY <1>1, <1>2, <1>3, PTL DEF Spec

-----------------------------------------------------------------------------
(* Cooldown.  A dongle that lies on the table after a release is marked as  *)
(* in cooldown, until it is taken again.                                    *)

CooledInv ==
    /\ TypeOK
    /\ \A d \in Dongles : ~inUse[d] /\ releaseTime[d] > 0 => inCooldown[d]

\* What a step of a coder does to the dongles: nothing, or it takes one that has
\* cooled down, or it puts one back.
Takes(d) ==
    /\ ~inUse[d] /\ (inCooldown[d] => now >= releaseTime[d] + Cooldown)
    /\ inUse' = [inUse EXCEPT ![d] = TRUE]
    /\ inCooldown' = [inCooldown EXCEPT ![d] = FALSE]
    /\ UNCHANGED releaseTime
PutsBack(d) ==
    /\ inUse' = [inUse EXCEPT ![d] = FALSE]
    /\ inCooldown' = [inCooldown EXCEPT ![d] = TRUE]
    /\ releaseTime' = [releaseTime EXCEPT ![d] = now]

LEMMA DongleStep ==
    ASSUME TypeOK, NEW c \in Coders, CoderStep(c)
    PROVE  \/ UNCHANGED <<inUse, inCooldown, releaseTime>>
           \/ \E d \in Dongles : Takes(d) \/ PutsBack(d)
<1>0. First(c) \in Dongles /\ Second(c) \in Dongles
  BY OrderLemma
<1>1. CASE \/ Boot(c) \/ LoopTest(c) \/ DoDebug(c) \/ DoRefactor(c)
           \/ TestAfterFirst(c) \/ TestAfterSecond(c)
           \/ ReadClock(c) \/ StoreStart(c) \/ StartCompiling(c)
           \/ FinishCompiling(c)
  BY <1>1 DEF Boot, LoopTest, DoDebug, DoRefactor, Activity, TestAfterFirst,
              TestAfterSecond, StopTest, ReadClock, StoreStart,
              StartCompiling, FinishCompiling, dongleVars
<1>2. CASE EnqueueFirst(c) \/ PollFirst(c) \/ EnqueueSecond(c) \/ PollSecond(c)
  <2>0. PICK d \in Dongles : \E q, w, g, r : AcquireRound(c, d, q, w, g, r) /\ UNCHANGED releaseTime
    BY <1>0, <1>2 DEF EnqueueFirst, PollFirst, EnqueueSecond, PollSecond, Enqueue, Poll
  <2>1. PICK q, w, g, r : AcquireRound(c, d, q, w, g, r) /\ UNCHANGED releaseTime
    BY <2>0
  <2>2. CASE UNCHANGED <<inUse, inCooldown>>
    BY <2>1, <2>2
  <2>3. CASE /\ CanTake(c, d, q)
             /\ inUse' = [inUse EXCEPT ![d] = TRUE]
             /\ inCooldown' = [inCooldown EXCEPT ![d] = FALSE]
    <3>1. releaseTime[d] \in Nat /\ now \in Nat /\ Cooldown \in Nat
      BY ConstantsAssumption DEF TypeOK
    <3>2. inCooldown[d] => now >= releaseTime[d] + Cooldown
      BY <2>3, <3>1 DEF CanTake
    <3> QED
      BY <2>1, <2>3, <3>2 DEF CanTake, Takes
  <2> QED
    BY <2>1, <2>2, <2>3 DEF AcquireRound
<1>3. CASE ReleaseSecond(c) \/ ReleaseFirst(c) \/ AbortSecond(c) \/ AbortFirst(c)
  BY <1>0, <1>3 DEF ReleaseSecond, ReleaseFirst, AbortSecond, AbortFirst, Release, PutsBack
<1> QED
  BY <1>1, <1>2, <1>3 DEF CoderStep

LEMMA NextDongles ==
    ASSUME TypeOK, [Next]_vars
    PROVE  \/ UNCHANGED <<inUse, inCooldown, releaseTime>>
           \/ \E d \in Dongles : Takes(d) \/ PutsBack(d)
<1>1. MonitorStep \/ JoinCoders \/ Cleanup \/ Tick \/ UNCHANGED vars
         => UNCHANGED <<inUse, inCooldown, releaseTime>>
  BY DEF MonitorStep, MonitorWake, CheckAllDone, SampleClock, ScanDeadline,
         ScanState, StopSim, Broadcast, JoinCoders, Cleanup, Tick, vars, dongleVars
<1> QED
  BY <1>1, DongleStep DEF Next, Terminated

\* A dongle that was released is not taken again before its cooldown is over,
\* whatever the order of releases, polls and the clearing of in_cooldown
\* (dongle.c, try_acquire and dongle_release).
THEOREM CooldownKept == Spec => CooldownRespected
<1>1. Init => CooledInv
  <2> SUFFICES ASSUME Init PROVE \A d \in Dongles : ~(releaseTime[d] > 0)
    BY InitType DEF CooledInv
  <2> QED
    BY DEF Init
<1>2. CooledInv /\ [Next]_vars => CooledInv'
  <2> SUFFICES ASSUME CooledInv, [Next]_vars
               PROVE  \A d \in Dongles : ~inUse'[d] /\ releaseTime'[d] > 0 => inCooldown'[d]
    BY NextType DEF CooledInv
  <2>1. ASSUME NEW e \in Dongles, Takes(e)
        PROVE  \A d \in Dongles : ~inUse'[d] /\ releaseTime'[d] > 0 => inCooldown'[d]
    BY <2>1 DEF Takes, CooledInv, TypeOK
  <2>2. ASSUME NEW e \in Dongles, PutsBack(e)
        PROVE  \A d \in Dongles : ~inUse'[d] /\ releaseTime'[d] > 0 => inCooldown'[d]
    BY <2>2 DEF PutsBack, CooledInv, TypeOK
  <2>3. CASE UNCHANGED <<inUse, inCooldown, releaseTime>>
    BY <2>3 DEF CooledInv
  <2> QED
    BY <2>1, <2>2, <2>3, NextDongles DEF CooledInv
<1>3. CooledInv /\ [Next]_vars
         => [\A d \in Dongles : ~inUse[d] /\ inUse'[d] /\ releaseTime[d] > 0
                => now >= releaseTime[d] + Cooldown]_vars
  <2> SUFFICES ASSUME CooledInv, [Next]_vars, NEW d \in Dongles,
                      ~inUse[d], inUse'[d], releaseTime[d] > 0
               PROVE  now >= releaseTime[d] + Cooldown
    OBVIOUS
  <2>1. inCooldown[d]
    BY DEF CooledInv
  <2>2. ASSUME NEW e \in Dongles, Takes(e)
        PROVE  e = d
    BY <2>2 DEF Takes, CooledInv, TypeOK
  <2>3. \A e \in Dongles : ~PutsBack(e)
    BY DEF PutsBack, CooledInv, TypeOK
  <2>4. Takes(d)
    BY <2>2, <2>3, NextDongles DEF CooledInv
  <2> QED
    BY <2>1, <2>4 DEF Takes
<1> QED
  BY <1>1, <1>2, <1>3, PTL DEF Spec, CooldownRespected

-----------------------------------------------------------------------------
(* Extremal elements of finite sets, from the well-foundedness of strict    *)
(* inclusion.                                                               *)

\* A non-empty set of naturals up to n has a greatest element.
LEMMA GreatestExists ==
    ASSUME NEW n \in Nat, NEW S \in SUBSET (0..n), S # {}
    PROVE  \E m \in S : \A k \in S : k <= m
<1> DEFINE Above(m) == {k \in S : k > m}
           U == 0..n
           T == {Above(m) : m \in S}
<1>1. T \subseteq FiniteSubsetsOf(U) /\ T # {}
  <2>1. IsFiniteSet(U)
    BY FS_Interval
  <2>2. \A m \in S : Above(m) \in SUBSET U
    OBVIOUS
  <2>3. \A A \in SUBSET U : IsFiniteSet(A)
    BY <2>1, FS_Subset
  <2> QED
    BY <2>2, <2>3 DEF FiniteSubsetsOf
<1>2. IsWellFoundedOn(StrictSubsetOrdering(U), FiniteSubsetsOf(U))
  BY FS_StrictSubsetOrderingWellFounded
<1> HIDE DEF T
<1>3. PICK A \in T : \A B \in T : <<B, A>> \notin StrictSubsetOrdering(U)
  BY <1>1, <1>2, WFMin
<1>4. PICK m \in S : A = Above(m)
  BY DEF T
<1>5. SUFFICES ASSUME NEW k \in S, k > m PROVE FALSE
  BY SMT
<1>6. Above(k) \in T
  BY DEF T
<1>7. Above(k) \subseteq Above(m) /\ k \in Above(m) /\ k \notin Above(k)
  <2>1. \A x \in S : x \in Int
    OBVIOUS
  <2>2. ~(k > k) /\ \A x \in S : x > k => x > m
    BY <1>5, <2>1
  <2> QED
    BY <1>5, <2>2, Zenon
<1>8. <<Above(k), Above(m)>> \in StrictSubsetOrdering(U)
  BY <1>7 DEF StrictSubsetOrdering
<1> QED
  BY <1>3, <1>4, <1>6, <1>8

\* A non-empty queue without two nodes of one coder has a top.
LEMMA TopExists ==
    ASSUME NEW q \in SUBSET [id : Coders, key : Nat], q # {},
           \A e, f \in q : e.id = f.id => e = f
    PROVE  \E e \in q : \A f \in q \ {e} : ComesBefore(e, f)
<1>1. IsFiniteSet(q)
  <2> DEFINE ident == [e \in q |-> e.id]
  <2>1. ident \in Injection(q, Coders)
    BY DEF Injection, IsInjective
  <2>2. IsFiniteSet(Coders)
    BY ConstantsAssumption, FS_Interval DEF Coders
  <2> QED
    BY <2>1, <2>2, FS_Injection
<1> DEFINE Before(e) == {f \in q : ComesBefore(f, e)}
           T == {Before(e) : e \in q}
<1>2. T \subseteq FiniteSubsetsOf(q) /\ T # {}
  <2>1. \A e \in q : Before(e) \in SUBSET q
    OBVIOUS
  <2>2. \A A \in SUBSET q : IsFiniteSet(A)
    BY <1>1, FS_Subset
  <2>3. T \subseteq FiniteSubsetsOf(q)
    BY <2>1, <2>2 DEF FiniteSubsetsOf
  <2>4. PICK e \in q : TRUE
    OBVIOUS
  <2>5. Before(e) \in T
    OBVIOUS
  <2> QED
    BY <2>3, <2>5
<1>3. IsWellFoundedOn(StrictSubsetOrdering(q), FiniteSubsetsOf(q))
  BY FS_StrictSubsetOrderingWellFounded
<1> HIDE DEF T
<1>4. PICK A \in T : \A B \in T : <<B, A>> \notin StrictSubsetOrdering(q)
  BY <1>2, <1>3, WFMin
<1>5. PICK e \in q : A = Before(e)
  BY DEF T
<1>6. \A f, g, h \in q : /\ ~ComesBefore(f, f)
                         /\ ComesBefore(f, g) /\ ComesBefore(g, h)
                               => ComesBefore(f, h)
                         /\ f # g => ComesBefore(f, g) \/ ComesBefore(g, f)
  <2>1. \A f \in q : f.key \in Nat /\ f.id \in Nat
    BY DEF Coders
  <2> QED
    BY <2>1 DEF ComesBefore
<1>7. \A g \in q : ~ComesBefore(g, e)
  <2> SUFFICES ASSUME NEW g \in q, ComesBefore(g, e) PROVE FALSE
    OBVIOUS
  <2>1. Before(g) \in T
    BY DEF T
  <2>2. Before(g) \subseteq Before(e) /\ g \in Before(e) /\ g \notin Before(g)
    BY <1>6
  <2>3. <<Before(g), Before(e)>> \in StrictSubsetOrdering(q)
    BY <2>2 DEF StrictSubsetOrdering
  <2> QED
    BY <1>4, <1>5, <2>1, <2>3
<1> QED
  BY <1>6, <1>7

-----------------------------------------------------------------------------
(* The queues.                                                             *)

QueueInv == TypeOK /\ QueueMatchesWaiters

Polling == {"poll1", "poll2"}

LEMMA OthersWait ==
    ASSUME TypeOK, NEW c \in Coders, NEW l \in Labels, Goto(c, l)
    PROVE  /\ pc'[c] = l
           /\ \A b \in Coders \ {c}, d \in Dongles :
                  WaitsFor(b, d)' <=> WaitsFor(b, d)
BY DEF TypeOK, Goto, WaitsFor

\* A step outside acquire_loop.
LEMMA QueueKeep ==
    ASSUME QueueInv, NEW c \in Coders, NEW l \in Labels,
           Goto(c, l), UNCHANGED waiters,
           pc[c] \notin Polling, l \notin Polling
    PROVE  QueueMatchesWaiters'
<1>1. \A d \in Dongles : ~WaitsFor(c, d) /\ ~WaitsFor(c, d)'
  BY OthersWait DEF WaitsFor, Polling, QueueInv
<1>2. \A b \in Coders, d \in Dongles : WaitsFor(b, d)' <=> WaitsFor(b, d)
  BY <1>1, OthersWait DEF QueueInv
<1> QED
  BY <1>2 DEF QueueInv, QueueMatchesWaiters

\* A round of acquire_loop on dongle d, whose queue is q once c is in it.
LEMMA QueueRound ==
    ASSUME QueueInv, NEW c \in Coders, NEW d \in Dongles,
           NEW q \in SUBSET [id : Coders, key : Nat],
           NEW w \in Labels, NEW g \in Labels, NEW r \in Labels,
           AcquireRound(c, d, q, w, g, r),
           \E e \in q : e.id = c,
           \A e \in q : e.id # c => e \in waiters[d],
           waiters[d] \subseteq q,
           \A e, f \in q : e.id = f.id => e = f,
           \A e \in Dongles \ {d} : ~WaitsFor(c, e),
           \A e \in Dongles : (\/ w = "poll1" /\ e = First(c)
                               \/ w = "poll2" /\ e = Second(c)) <=> e = d,
           g \notin Polling, r \notin Polling
    PROVE  QueueMatchesWaiters'
<1> waiters \in [Dongles -> SUBSET [id : Coders, key : Nat]]
  BY DEF QueueInv, TypeOK
<1>1. \A b \in Coders \ {c}, e \in Dongles :
          (\E x \in waiters[e] : x.id = b) <=> WaitsFor(b, e)
  BY DEF QueueInv, QueueMatchesWaiters
<1>2. \A e \in Dongles : \A x, y \in waiters[e] : x.id = y.id => x = y
  BY DEF QueueInv, QueueMatchesWaiters
<1>3. \A e \in Dongles \ {d} : ~\E x \in waiters[e] : x.id = c
  BY DEF QueueInv, QueueMatchesWaiters
<1>4. CASE Goto(c, w) /\ waiters' = [waiters EXCEPT ![d] = q]
  <2>1. \A e \in Dongles : WaitsFor(c, e)' <=> e = d
    BY <1>4, OthersWait DEF WaitsFor, QueueInv
  <2>2. \A e \in Dongles \ {d} : waiters'[e] = waiters[e]
    BY <1>4
  <2>3. waiters'[d] = q
    BY <1>4
  <2>4. \A b \in Coders \ {c}, e \in Dongles : WaitsFor(b, e)' <=> WaitsFor(b, e)
    BY <1>4, OthersWait DEF QueueInv
  <2>5. \A e \in Dongles : (\E x \in waiters'[e] : x.id = c) <=> WaitsFor(c, e)'
    BY <1>3, <2>1, <2>2, <2>3
  <2>6. \A b \in Coders \ {c}, e \in Dongles :
            (\E x \in waiters'[e] : x.id = b) <=> WaitsFor(b, e)'
    BY <1>1, <2>2, <2>3, <2>4
  <2> QED
    BY <1>2, <2>2, <2>3, <2>5, <2>6 DEF QueueMatchesWaiters
<1>5. CASE /\ Goto(c, g) \/ Goto(c, r)
           /\ waiters' = [waiters EXCEPT ![d] = Without(q, c)]
  <2>1. \A e \in Dongles : ~WaitsFor(c, e)'
    BY <1>5, OthersWait DEF WaitsFor, QueueInv, Polling
  <2>2. \A e \in Dongles \ {d} : waiters'[e] = waiters[e]
    BY <1>5
  <2>3. waiters'[d] = {x \in q : x.id # c}
    BY <1>5 DEF Without
  <2>4. \A b \in Coders \ {c}, e \in Dongles : WaitsFor(b, e)' <=> WaitsFor(b, e)
    BY <1>5, OthersWait DEF QueueInv
  <2>5. \A e \in Dongles : (\E x \in waiters'[e] : x.id = c) <=> WaitsFor(c, e)'
    BY <1>3, <2>1, <2>2, <2>3
  <2>6. \A b \in Coders \ {c}, e \in Dongles :
            (\E x \in waiters'[e] : x.id = b) <=> WaitsFor(b, e)'
    BY <1>1, <2>2, <2>3, <2>4
  <2>7. \A e \in Dongles : \A x, y \in waiters'[e] : x.id = y.id => x = y
    BY <1>2, <2>2, <2>3
  <2> QED
    BY <2>5, <2>6, <2>7 DEF QueueMatchesWaiters
<1> QED
  BY <1>4, <1>5 DEF AcquireRound

LEMMA CoderQueue ==
    ASSUME QueueInv, NEW c \in Coders, CoderStep(c)
    PROVE  QueueMatchesWaiters'
<1> First(c) \in Dongles /\ Second(c) \in Dongles
  BY OrderLemma
<1> waiters \in [Dongles -> SUBSET [id : Coders, key : Nat]]
  BY DEF QueueInv, TypeOK
<1>1. \A d \in Dongles : \A e, f \in waiters[d] : e.id = f.id => e = f
  BY DEF QueueInv, QueueMatchesWaiters
<1>2. CASE \/ Boot(c) \/ LoopTest(c) \/ DoDebug(c) \/ DoRefactor(c)
           \/ TestAfterFirst(c) \/ TestAfterSecond(c)
           \/ ReadClock(c) \/ StoreStart(c) \/ StartCompiling(c)
           \/ FinishCompiling(c)
           \/ ReleaseSecond(c) \/ ReleaseFirst(c)
           \/ AbortSecond(c) \/ AbortFirst(c)
  <2>1. PICK l \in Labels : /\ Goto(c, l) /\ UNCHANGED waiters
                            /\ pc[c] \notin Polling /\ l \notin Polling
    BY <1>2 DEF Boot, LoopTest, DoDebug, DoRefactor, Activity, TestAfterFirst,
                TestAfterSecond, StopTest, ReadClock, StoreStart,
                StartCompiling, FinishCompiling, ReleaseSecond, ReleaseFirst,
                AbortSecond, AbortFirst, Release, dongleVars, Labels, Polling
  <2> QED
    BY <2>1, QueueKeep
<1>3. CASE EnqueueFirst(c) \/ EnqueueSecond(c)
  <2>1. PICK d \in Dongles, w \in Labels, g \in Labels, r \in Labels :
           /\ Enqueue(c, d, w, g, r)
           /\ g \notin Polling /\ r \notin Polling
           /\ pc[c] \notin Polling
           /\ \/ w = "poll1" /\ d = First(c)
              \/ w = "poll2" /\ d = Second(c)
    BY <1>3 DEF EnqueueFirst, EnqueueSecond, Labels, Polling
  <2> DEFINE node == [id |-> c, key |-> Key(c)]
             q == waiters[d] \cup {node}
  <2>2. node \in [id : Coders, key : Nat] /\ node.id = c
    BY KeyType DEF QueueInv
  <2>3. \A e \in Dongles : ~WaitsFor(c, e)
    BY <2>1 DEF WaitsFor, Polling
  <2>4. \A e \in waiters[d] : e.id # c
    BY <2>3 DEF QueueInv, QueueMatchesWaiters
  <2>5. AcquireRound(c, d, q, w, g, r)
    BY <2>1 DEF Enqueue
  <2> HIDE DEF node
  <2>6. \A e \in q : e.id # c => e \in waiters[d]
    BY <2>2
  <2>7. \A e, f \in q : e.id = f.id => e = f
    BY <1>1, <2>2, <2>4
  <2>8. \A e \in Dongles : (\/ w = "poll1" /\ e = First(c)
                            \/ w = "poll2" /\ e = Second(c)) <=> e = d
    BY <2>1
  <2>9. q \in SUBSET [id : Coders, key : Nat] /\ waiters[d] \subseteq q /\ node \in q
    BY <2>2
  <2> HIDE DEF q
  <2> QED
    BY <2>1, <2>2, <2>3, <2>5, <2>6, <2>7, <2>8, <2>9, QueueRound
<1>4. CASE PollFirst(c) \/ PollSecond(c)
  <2>1. PICK d \in Dongles, w \in Labels, g \in Labels, r \in Labels :
           /\ Poll(c, d, w, g, r)
           /\ g \notin Polling /\ r \notin Polling
           /\ pc[c] = w
           /\ \/ w = "poll1" /\ d = First(c)
              \/ w = "poll2" /\ d = Second(c)
    BY <1>4 DEF PollFirst, PollSecond, Labels, Polling
  <2>2. \A e \in Dongles : WaitsFor(c, e) <=> e = d
    BY <2>1 DEF WaitsFor
  <2>3. \E e \in waiters[d] : e.id = c
    BY <2>2 DEF QueueInv, QueueMatchesWaiters
  <2>4. AcquireRound(c, d, waiters[d], w, g, r)
    BY <2>1 DEF Poll
  <2>5. \A e \in Dongles : (\/ w = "poll1" /\ e = First(c)
                            \/ w = "poll2" /\ e = Second(c)) <=> e = d
    BY <2>1
  <2>6. waiters[d] \in SUBSET [id : Coders, key : Nat]
    OBVIOUS
  <2> QED
    BY <1>1, <2>1, <2>2, <2>3, <2>4, <2>5, <2>6, QueueRound
<1> QED
  BY <1>2, <1>3, <1>4 DEF CoderStep

LEMMA NextQueue == QueueInv /\ [Next]_vars => QueueInv'
<1> SUFFICES ASSUME QueueInv, [Next]_vars PROVE QueueMatchesWaiters'
  BY NextType DEF QueueInv
<1>1. CASE \E c \in Coders : CoderStep(c)
  BY <1>1, CoderQueue
<1>2. CASE UNCHANGED <<coderVars, dongleVars>>
  BY <1>2 DEF coderVars, dongleVars, QueueInv, QueueMatchesWaiters, WaitsFor
<1>3. MonitorStep \/ JoinCoders \/ Cleanup \/ Tick \/ UNCHANGED vars
         => UNCHANGED <<coderVars, dongleVars>>
  BY DEF MonitorStep, MonitorWake, CheckAllDone, SampleClock, ScanDeadline,
         ScanState, StopSim, Broadcast, JoinCoders, Cleanup, Tick, vars
<1> QED
  BY <1>1, <1>2, <1>3 DEF Next, Terminated

\* The queue of a dongle holds one node of each coder that waits for it and of
\* no other: nobody who gave up or was served blocks the queue.
THEOREM QueuesExact == Spec => []QueueMatchesWaiters
<1>1. Init => QueueInv
  <2> SUFFICES ASSUME Init PROVE QueueMatchesWaiters
    BY InitType DEF QueueInv
  <2> QED
    BY DEF Init, QueueMatchesWaiters, WaitsFor
<1>2. QueueInv /\ [Next]_vars => QueueInv'
  BY NextQueue
<1>3. QueueInv => QueueMatchesWaiters
  BY DEF QueueInv
<1> QED
  BY <1>1, <1>2, <1>3, PTL DEF Spec

-----------------------------------------------------------------------------
(* No deadlock.                                                            *)

LEMMA OrderPreventsDeadlock ==
    ASSUME N # 1, ExclusionInv, QueueInv
    PROVE  NoDeadlock
<1> SUFFICES ASSUME \A c \in Coders : pc[c] \in {"poll1", "poll2"}
             PROVE  \E c \in Coders, d \in Dongles :
                        WaitsFor(c, d) /\ IsTop(waiters[d], c) /\ ~inUse[d]
  BY DEF NoDeadlock
<1> DEFINE Wanted == {d \in Dongles : \E c \in Coders : WaitsFor(c, d)}
<1>1. PICK d \in Wanted : \A e \in Wanted : e <= d
  <2>1. 1 \in Coders
    BY ConstantsAssumption DEF Coders
  <2>2. First(1) \in Wanted \/ Second(1) \in Wanted
    BY <2>1, OrderLemma DEF WaitsFor
  <2>3. Wanted \in SUBSET (0..(N - 1)) /\ N - 1 \in Nat
    BY ConstantsAssumption DEF Dongles
  <2> HIDE DEF Wanted
  <2> QED
    BY <2>2, <2>3, GreatestExists
<1>2. ~inUse[d]
  <2> SUFFICES ASSUME inUse[d] PROVE FALSE
    OBVIOUS
  <2>1. PICK b \in Coders : Holds(b, d)
    BY DEF ExclusionInv, DongleExclusion
  <2>2. pc[b] = "poll2" /\ d = First(b)
    BY <2>1 DEF Holds, HoldsFirst, HoldsSecond, FirstLabels, SecondLabels
  <2>3. Second(b) \in Wanted
    BY <2>2, OrderLemma DEF WaitsFor
  <2>4. First(b) < Second(b) /\ First(b) \in Int /\ Second(b) \in Int
    BY OrderLemma, ConstantsAssumption DEF Dongles
  <2> QED
    BY <1>1, <2>2, <2>3, <2>4
<1>3. PICK e \in waiters[d] : \A f \in waiters[d] \ {e} : ComesBefore(e, f)
  <2>1. waiters[d] \in SUBSET [id : Coders, key : Nat]
    BY DEF QueueInv, TypeOK
  <2>2. waiters[d] # {}
    BY DEF QueueInv, QueueMatchesWaiters
  <2>3. \A x, y \in waiters[d] : x.id = y.id => x = y
    BY DEF QueueInv, QueueMatchesWaiters
  <2> QED
    BY <2>1, <2>2, <2>3, TopExists
<1>4. e.id \in Coders
  BY DEF QueueInv, TypeOK
<1>5. WaitsFor(e.id, d) /\ IsTop(waiters[d], e.id)
  BY <1>3, <1>4 DEF QueueInv, QueueMatchesWaiters, IsTop
<1> QED
  BY <1>2, <1>4, <1>5

\* With two coders or more the coders are never all stuck waiting: the highest
\* dongle waited for is free, and the first coder of its queue can take it.
THEOREM DeadlockFree ==
    ASSUME N # 1
    PROVE  Spec => []NoDeadlock
<1>1. Init => ExclusionInv /\ QueueInv
  <2> SUFFICES ASSUME Init PROVE QueueMatchesWaiters
    BY InitExclusion DEF QueueInv, ExclusionInv
  <2> QED
    BY DEF Init, QueueMatchesWaiters, WaitsFor
<1>2. ExclusionInv /\ QueueInv /\ [Next]_vars => (ExclusionInv /\ QueueInv)'
  BY NextExclusion, NextQueue
<1>3. ExclusionInv /\ QueueInv => NoDeadlock
  BY OrderPreventsDeadlock
<1> QED
  BY <1>1, <1>2, <1>3, PTL DEF Spec

-----------------------------------------------------------------------------
(* The end of the program.  The flag is set first by the monitor, which has *)
(* the time and the reason by then: everybody else only passes it on.       *)

\* Why the simulation may be stopped: a burnout, or everything is done.
Reason == burnoutCoder # 0 \/ \A c \in Coders : count[c] >= Required

EndInv ==
    /\ now >= StartTime
    /\ \A c \in Coders : pc[c] \in {"abort1", "abort2", "done"} => stopped
    /\ mpc = "stop" => Reason
    /\ stopped => Reason /\ endTime >= StartTime
    /\ mpc \in {"broadcast", "done"} => stopped
    /\ mainpc # "join" => \A c \in Coders : pc[c] = "done"
    /\ mainpc = "freed" => mpc = "done"

\* A coder leaves its loop once the flag is set, and does not come back.
LEMMA CoderEnds ==
    ASSUME TypeOK, EndInv, NEW c \in Coders, CoderStep(c)
    PROVE  /\ \E l \in Labels : /\ Goto(c, l)
                                /\ l \in {"abort1", "abort2", "done"} => stopped
           /\ pc[c] # "done"
           /\ count'[c] >= count[c] /\ \A b \in Coders \ {c} : count'[b] = count[b]
           /\ UNCHANGED <<now, stopped, burnoutCoder, endTime, mpc, mainpc>>
<1> /\ count[c] \in Nat /\ pc[c] \in Labels
    /\ pc[c] \in {"abort1", "abort2"} => stopped
  BY DEF TypeOK, EndInv
<1>1. CASE Boot(c) \/ LoopTest(c) \/ DoDebug(c) \/ DoRefactor(c)
  BY <1>1 DEF Boot, LoopTest, DoDebug, DoRefactor, Activity, Labels, monitorVars
<1>2. CASE TestAfterFirst(c) \/ TestAfterSecond(c) \/ ReadClock(c) \/ StoreStart(c)
            \/ StartCompiling(c)
  BY <1>2 DEF TestAfterFirst, TestAfterSecond, StopTest, ReadClock, StoreStart, StartCompiling,
              Labels, monitorVars
<1>3. CASE FinishCompiling(c)
  BY <1>3 DEF FinishCompiling, TypeOK, Labels, monitorVars
<1>4. CASE EnqueueFirst(c) \/ PollFirst(c)
  BY <1>4 DEF EnqueueFirst, PollFirst, Enqueue, Poll, AcquireRound, Labels, monitorVars
<1>5. CASE EnqueueSecond(c) \/ PollSecond(c)
  BY <1>5 DEF EnqueueSecond, PollSecond, Enqueue, Poll, AcquireRound, Labels, monitorVars
<1>6. CASE ReleaseSecond(c) \/ ReleaseFirst(c) \/ AbortSecond(c) \/ AbortFirst(c)
  BY <1>6 DEF ReleaseSecond, ReleaseFirst, AbortSecond, AbortFirst, Release, Labels, monitorVars
<1> QED
  BY <1>1, <1>2, <1>3, <1>4, <1>5, <1>6 DEF CoderStep

LEMMA NextEnd == TypeOK /\ EndInv /\ [Next]_vars => EndInv'
<1> SUFFICES ASSUME TypeOK, EndInv, [Next]_vars PROVE EndInv'
  OBVIOUS
<1> now \in Nat /\ StartTime \in Nat /\ now >= StartTime
  BY DEF TypeOK, StartTime, EndInv
<1>1. CASE \E c \in Coders : CoderStep(c)
  <2> PICK c \in Coders : CoderStep(c)
    BY <1>1
  <2>1. PICK l \in Labels : Goto(c, l) /\ (l \in {"abort1", "abort2", "done"} => stopped)
    BY CoderEnds
  <2>2. UNCHANGED <<now, stopped, burnoutCoder, endTime, mpc, mainpc>> /\ mainpc = "join"
    BY CoderEnds DEF EndInv
  <2>3. \A b \in Coders : count[b] \in Nat /\ count'[b] \in Nat /\ count'[b] >= count[b]
    BY CoderEnds, NextType DEF TypeOK
  <2>4. Reason => Reason'
    BY <2>2, <2>3, ConstantsAssumption DEF Reason
  <2>5. \A b \in Coders : pc'[b] = IF b = c THEN l ELSE pc[b]
    BY <2>1 DEF Goto, TypeOK
  <2> QED
    BY <2>1, <2>2, <2>4, <2>5 DEF EndInv
<1>2. CASE MonitorStep
  <2>1. UNCHANGED <<now, pc, count, mainpc>> /\ mainpc # "freed"
    BY <1>2 DEF MonitorStep, MonitorWake, CheckAllDone, SampleClock, ScanDeadline, ScanState,
                StopSim, Broadcast, coderVars, EndInv
  <2>2. CASE MonitorWake \/ SampleClock \/ Broadcast
    BY <2>1, <2>2 DEF MonitorWake, SampleClock, Broadcast, EndInv, Reason
  <2>3. CASE CheckAllDone
    BY <2>1, <2>3 DEF CheckAllDone, EndInv, Reason
  <2>4. CASE ScanDeadline \/ ScanState
    <3>1. mi # 0 /\ UNCHANGED <<stopped, endTime>>
      BY <2>4 DEF ScanDeadline, ScanState, TypeOK, Coders
    <3>2. burnoutCoder' = burnoutCoder \/ burnoutCoder' # 0
      BY <2>4, <3>1 DEF ScanDeadline, ScanState
    <3>3. mpc' = "stop" => burnoutCoder' # 0
      BY <2>4, <3>1 DEF ScanDeadline, ScanState, NextCoder, BackToSleep
    <3>4. mpc' \notin {"broadcast", "done"}
      BY <2>4 DEF ScanDeadline, ScanState, NextCoder, BackToSleep
    <3> QED
      BY <2>1, <3>1, <3>2, <3>3, <3>4 DEF EndInv, Reason
  <2>5. CASE StopSim
    BY <2>1, <2>5 DEF StopSim, EndInv, Reason
  <2> QED
    BY <1>2, <2>2, <2>3, <2>4, <2>5 DEF MonitorStep
<1>3. CASE JoinCoders
  <2>1. stopped
    <3>1. 1 \in Coders
      BY ConstantsAssumption DEF Coders
    <3> QED
      BY <1>3, <3>1 DEF JoinCoders, EndInv
  <2> QED
    BY <1>3, <2>1 DEF JoinCoders, coderVars, monitorVars, EndInv, Reason
<1>4. CASE Cleanup
  BY <1>4 DEF Cleanup, coderVars, monitorVars, EndInv, Reason
<1>5. CASE Tick
  BY <1>5 DEF Tick, coderVars, monitorVars, EndInv, Reason
<1>6. CASE UNCHANGED vars
  BY <1>6 DEF vars, coderVars, monitorVars, EndInv, Reason
<1> QED
  BY <1>1, <1>2, <1>3, <1>4, <1>5, <1>6 DEF Next, Terminated

\* The program ends in order for every number of coders: no coder leaves its loop
\* before the stop flag is set, memory is freed with every thread gone, every
\* dongle on the table and every queue empty, and without a burnout every coder
\* has compiled as often as required (sim.c, monitor.c).
THEOREM OrderlyEnd == Spec => []EndsInOrder
<1>1. Init => ExclusionInv /\ QueueInv /\ EndInv
  <2> SUFFICES ASSUME Init PROVE QueueMatchesWaiters /\ EndInv
    BY InitExclusion DEF QueueInv, ExclusionInv
  <2> QED
    BY DEF Init, QueueMatchesWaiters, WaitsFor, EndInv, StartTime
<1>2. ExclusionInv /\ QueueInv /\ EndInv /\ [Next]_vars => (ExclusionInv /\ QueueInv /\ EndInv)'
  BY NextExclusion, NextQueue, NextEnd DEF QueueInv
<1>3. ExclusionInv /\ QueueInv /\ EndInv => EndsInOrder
  <2> SUFFICES ASSUME ExclusionInv, QueueInv, EndInv PROVE EndsInOrder
    OBVIOUS
  <2>1. ASSUME mainpc = "freed"
        PROVE  \A d \in Dongles : ~inUse[d] /\ waiters[d] = {}
    <3>1. \A c \in Coders : pc[c] = "done"
      BY <2>1 DEF EndInv
    <3>2. \A c \in Coders, d \in Dongles : ~Holds(c, d) /\ ~WaitsFor(c, d)
      BY <3>1 DEF Holds, HoldsFirst, HoldsSecond, FirstLabels, SecondLabels, WaitsFor
    <3>3. \A d \in Dongles : \A e \in waiters[d] : e.id \in Coders
      BY DEF QueueInv, TypeOK
    <3> QED
      BY <3>2, <3>3 DEF ExclusionInv, DongleExclusion, QueueInv, QueueMatchesWaiters
  <2>2. mainpc = "freed" => stopped
    BY DEF EndInv
  <2> QED
    BY <2>1, <2>2 DEF EndInv, EndsInOrder, Reason
<1> QED
  BY <1>1, <1>2, <1>3, PTL DEF Spec

-----------------------------------------------------------------------------
(* Overtaking.  A coder that has taken a dongle for which c was queued comes *)
(* back, if at all, with a later key: under fifo because it compiles in      *)
(* between, under edf because its new deadline counts from a clock that it   *)
(* reads after c has queued up.                                              *)

\* What the clock has to do with where a coder is.
Timed(c) ==
    /\ StartTime <= lcs[c] /\ lcs[c] <= now
    /\ pc[c] = "stamped" => lcs[c] <= stamp[c] /\ stamp[c] <= now
    /\ IF pc[c] = "compiling" THEN wake[c] > lcs[c]
       ELSE \/ pc[c] = "started" \/ now > lcs[c]
            \/ lcs[c] = StartTime /\ pc[c] \notin {"rel2", "rel1"}

\* The key of a node is when it queued up, or its coder's deadline.
KeysTrue ==
    \A d \in Dongles : \A e \in waiters[d] :
        IF Scheduler = "fifo" THEN e.key <= now ELSE e.key = Deadline(e.id)

\* A dongle that lies there with coders waiting for it has been used before.
UsedBefore ==
    \A d \in Dongles : inCooldown[d] \/ (waiters[d] # {} /\ ~inUse[d])
                          => now > StartTime \/ stopped

Clock == (\A c \in Coders : Timed(c)) /\ KeysTrue /\ UsedBefore

\* b has got the dongle, and has still to read the clock or to compile.
Coming(b, k) ==
    \/ pc[b] \in {"got1", "enq2", "poll2", "got2", "begin"}
    \/ /\ Scheduler = "fifo"
       /\ pc[b] \in {"stamped", "started"} \/ (pc[b] = "compiling" /\ wake[b] > k)
    \/ /\ Scheduler # "fifo"
       /\ pc[b] = "stamped" /\ stamp[b] + Burnout > k

\* For dongle d, b comes after a node with key k.
Behind(b, d, k) ==
    \/ Key(b) > k /\ \A f \in waiters[d] : f.id = b => f.key > k
    \/ Holds(b, d) /\ Coming(b, k)

Uses(c, d) == d = First(c) \/ d = Second(c)

\* Who has been passed over is next: whoever else uses the dongle is behind.
PassInv ==
    /\ \A c \in Coders : passed[c] \in {0, 1}
    /\ \A c \in Coders : (\A d \in Dongles : ~Queued(c, d)) => passed[c] = 0
    /\ \A d \in Dongles : \A e \in waiters[d] : passed[e.id] = 1 /\ ~stopped =>
          /\ now > lcs[e.id]
          /\ \A b \in Coders \ {e.id} : Uses(b, d) => Behind(b, d, e.key)

\* A dongle lies between two coders.
LEMMA TwoUsers ==
    ASSUME NEW a \in Coders, NEW b \in Coders, NEW c \in Coders, NEW d \in Dongles,
           Uses(a, d), Uses(b, d), Uses(c, d), a # c, b # c
    PROVE  a = b
<1>1. ASSUME NEW x \in Coders, Uses(x, d)
      PROVE  x = d + 1 \/ (d = 0 /\ x = N) \/ (d # 0 /\ x = d)
  <2>1. d \in {LeftDongle(x), RightDongle(x)}
    BY <1>1 DEF Uses, First, Second, DongleOrder
  <2>2. CASE x = N
    <3>1. x % N = 0
      BY <2>2, ConstantsAssumption, SMT DEF Coders
    <3> QED
      BY <2>1, <2>2, <3>1, ConstantsAssumption DEF LeftDongle, RightDongle, Coders, Dongles
  <2>3. CASE x # N
    <3>1. x % N = x
      BY <2>3, ConstantsAssumption, SMT DEF Coders
    <3> QED
      BY <2>1, <2>3, <3>1, ConstantsAssumption DEF LeftDongle, RightDongle, Coders, Dongles
  <2> QED
    BY <2>2, <2>3
<1> QED
  BY <1>1, ConstantsAssumption DEF Coders, Dongles

-----------------------------------------------------------------------------

RoundStep(c) == EnqueueFirst(c) \/ PollFirst(c) \/ EnqueueSecond(c) \/ PollSecond(c)

\* A round of acquire_loop on d, whose queue is q once c is in it.
Round(c, d, q) ==
    /\ \/ d = First(c) /\ pc[c] \in {"enq1", "poll1"} /\ pc'[c] \in {"poll1", "got1", "done"}
       \/ d = Second(c) /\ pc[c] \in {"enq2", "poll2"} /\ pc'[c] \in {"poll2", "got2", "abort1"}
    /\ \/ pc[c] \in {"enq1", "enq2"} /\ q = waiters[d] \cup {[id |-> c, key |-> Key(c)]}
       \/ pc[c] \in Polling /\ q = waiters[d]
    /\ UNCHANGED <<now, wake, lcs, stamp, stopped>>
    /\ pc' = [pc EXCEPT ![c] = pc'[c]]
    /\ \/ /\ stopped
          /\ waiters' = [waiters EXCEPT ![d] = Without(q, c)]
          /\ UNCHANGED <<inUse, inCooldown>>
       \/ /\ ~stopped /\ CanTake(c, d, q) /\ pc'[c] \in {"got1", "got2"}
          /\ inUse' = [inUse EXCEPT ![d] = TRUE]
          /\ inCooldown' = [inCooldown EXCEPT ![d] = FALSE]
          /\ waiters' = [waiters EXCEPT ![d] = Without(q, c)]
       \/ /\ ~stopped /\ ~CanTake(c, d, q) /\ pc'[c] \in Polling
          /\ waiters' = [waiters EXCEPT ![d] = q]
          /\ UNCHANGED <<inUse, inCooldown>>

LEMMA RoundLemma ==
    ASSUME TypeOK, NEW c \in Coders, RoundStep(c)
    PROVE  \E d \in Dongles, q \in SUBSET [id : Coders, key : Nat] : Round(c, d, q)
<1>0. /\ First(c) \in Dongles /\ Second(c) \in Dongles
      /\ pc \in [Coders -> Labels] /\ waiters \in [Dongles -> SUBSET [id : Coders, key : Nat]]
  BY OrderLemma DEF TypeOK
<1> DEFINE node == [id |-> c, key |-> Key(c)]
<1>1. node \in [id : Coders, key : Nat]
  BY KeyType
<1> HIDE DEF node
<1>2. CASE EnqueueFirst(c)
  <2> DEFINE d == First(c)
             q == waiters[d] \cup {node}
  <2>1. q \in SUBSET [id : Coders, key : Nat]
    BY <1>0, <1>1
  <2>2. Round(c, d, q)
    BY <1>0, <1>2 DEF EnqueueFirst, Enqueue, AcquireRound, Goto, Round, Polling, node
  <2> QED
    BY <1>0, <2>1, <2>2
<1>3. CASE EnqueueSecond(c)
  <2> DEFINE d == Second(c)
             q == waiters[d] \cup {node}
  <2>1. q \in SUBSET [id : Coders, key : Nat]
    BY <1>0, <1>1
  <2>2. Round(c, d, q)
    BY <1>0, <1>3 DEF EnqueueSecond, Enqueue, AcquireRound, Goto, Round, Polling, node
  <2> QED
    BY <1>0, <2>1, <2>2
<1>4. CASE PollFirst(c)
  <2>1. Round(c, First(c), waiters[First(c)])
    BY <1>0, <1>4 DEF PollFirst, Poll, AcquireRound, Goto, Round, Polling
  <2> QED
    BY <1>0, <2>1
<1>5. CASE PollSecond(c)
  <2>1. Round(c, Second(c), waiters[Second(c)])
    BY <1>0, <1>5 DEF PollSecond, Poll, AcquireRound, Goto, Round, Polling
  <2> QED
    BY <1>0, <2>1
<1> QED
  BY <1>2, <1>3, <1>4, <1>5 DEF RoundStep

\* Who does not move stays where it is, and its nodes with it; only a coder
\* that queues up adds one.
Still(b) ==
    /\ pc'[b] = pc[b] /\ wake'[b] = wake[b] /\ lcs'[b] = lcs[b] /\ stamp'[b] = stamp[b]
    /\ \A d \in Dongles : \A e \in waiters'[d] : e.id = b => e \in waiters[d]

LEMMA OthersStill ==
    ASSUME TypeOK, NEW c \in Coders, CoderStep(c)
    PROVE  /\ UNCHANGED <<now, stopped>> /\ \A b \in Coders \ {c} : Still(b)
           /\ \A d \in Dongles : \A e \in waiters'[d] :
                 e \in waiters[d] \/ (e.id = c /\ pc[c] \in {"enq1", "enq2"})
<1>1. CASE RoundStep(c)
  <2>1. PICK d \in Dongles, q \in SUBSET [id : Coders, key : Nat] : Round(c, d, q)
    BY <1>1, RoundLemma
  <2>2. \A e \in q : e \in waiters[d] \/ (e.id = c /\ pc[c] \in {"enq1", "enq2"})
    BY <2>1 DEF Round
  <2>3. /\ waiters' = [waiters EXCEPT ![d] = q] \/ waiters' = [waiters EXCEPT ![d] = Without(q, c)]
        /\ UNCHANGED <<now, wake, lcs, stamp, stopped>> /\ pc' = [pc EXCEPT ![c] = pc'[c]]
    BY <2>1 DEF Round
  <2>4. \A u \in Dongles : waiters'[u] = waiters[u] \/ (u = d /\ waiters'[u] \subseteq q)
    BY <2>3 DEF Without, TypeOK
  <2>5. \A b \in Coders \ {c} : pc'[b] = pc[b]
    BY <2>3 DEF TypeOK
  <2> QED
    BY <2>2, <2>3, <2>4, <2>5 DEF Still
<1>2. CASE ~RoundStep(c)
  <2>1. /\ UNCHANGED <<now, stopped, waiters>>
        /\ \A b \in Coders \ {c} : /\ pc'[b] = pc[b] /\ wake'[b] = wake[b]
                                   /\ lcs'[b] = lcs[b] /\ stamp'[b] = stamp[b]
    BY <1>2 DEF CoderStep, RoundStep, Boot, LoopTest, DoDebug, DoRefactor, Activity, TestAfterFirst,
                TestAfterSecond, StopTest, ReadClock, StoreStart, StartCompiling, FinishCompiling,
                ReleaseSecond, ReleaseFirst, AbortSecond, AbortFirst, Release, dongleVars, TypeOK,
                Goto, Sleep, WakeUp
  <2> QED
    BY <2>1 DEF Still
<1> QED
  BY <1>1, <1>2

\* Everybody else leaves the coders and the dongles alone, or is the clock.
LEMMA NobodySteps ==
    ASSUME TypeOK, MonitorStep \/ JoinCoders \/ Cleanup \/ Tick \/ UNCHANGED vars
    PROVE  /\ UNCHANGED <<coderVars, dongleVars>> /\ now' >= now /\ now' \in Nat
           /\ stopped => stopped'
BY DEF TypeOK, MonitorStep, MonitorWake, CheckAllDone, SampleClock, ScanDeadline,
       ScanState, StopSim, Broadcast, JoinCoders, Cleanup, Tick, vars

-----------------------------------------------------------------------------
(* The clock.                                                              *)

LEMMA StillTimed ==
    ASSUME TypeOK, TypeOK', NEW b \in Coders, Timed(b), now' >= now,
           pc'[b] = pc[b], wake'[b] = wake[b], lcs'[b] = lcs[b], stamp'[b] = stamp[b]
    PROVE  Timed(b)'
<1>1. /\ now \in Nat /\ now' \in Nat /\ lcs[b] \in Nat /\ wake[b] \in Nat /\ stamp[b] \in Nat
      /\ StartTime \in Nat
  BY DEF TypeOK, StartTime
<1> QED
  BY <1>1 DEF Timed, StartTime

LEMMA CoderTimed ==
    ASSUME TypeOK, TypeOK', EndInv, NEW c \in Coders, Timed(c), CoderStep(c)
    PROVE  Timed(c)'
<1>0. /\ now \in Nat /\ lcs[c] \in Nat /\ wake[c] \in Nat /\ stamp[c] \in Nat /\ now >= StartTime
      /\ lcs'[c] \in Nat /\ wake'[c] \in Nat /\ stamp'[c] \in Nat /\ Compile \in Nat \ {0}
  BY ConstantsAssumption DEF TypeOK, EndInv
<1>1. now' = now
  BY OthersStill
<1>2. CASE RoundStep(c)
  <2>1. /\ pc[c] \in {"enq1", "poll1", "enq2", "poll2"}
        /\ pc'[c] \in {"poll1", "got1", "done", "poll2", "got2", "abort1"}
        /\ UNCHANGED <<lcs>>
    BY <1>2, RoundLemma DEF Round
  <2> QED
    BY <1>1, <2>1 DEF Timed
<1>3. CASE Boot(c) \/ LoopTest(c) \/ DoDebug(c) \/ DoRefactor(c) \/ TestAfterFirst(c)
            \/ TestAfterSecond(c) \/ ReleaseFirst(c) \/ ReleaseSecond(c) \/ AbortFirst(c)
            \/ AbortSecond(c)
  <2>1. /\ pc[c] \in {"boot", "loop", "debug", "refactor", "got1", "got2", "rel2", "rel1",
                      "abort2", "abort1"}
        /\ pc'[c] \notin {"stamped", "started", "compiling", "rel2"}
        /\ pc'[c] = "rel1" => pc[c] = "rel2"
        /\ lcs' = lcs
    BY <1>3 DEF Boot, LoopTest, DoDebug, DoRefactor, Activity, TestAfterFirst, TestAfterSecond,
                StopTest, ReleaseFirst, ReleaseSecond, AbortFirst, AbortSecond, Release, Goto, TypeOK
  <2> QED
    BY <1>1, <2>1 DEF Timed
<1>4. CASE ReadClock(c)
  <2>1. pc[c] = "begin" /\ pc'[c] = "stamped" /\ lcs' = lcs /\ stamp'[c] = now
    BY <1>4 DEF ReadClock, Goto, TypeOK
  <2> QED
    BY <1>0, <1>1, <2>1 DEF Timed
<1>5. CASE StoreStart(c)
  <2>1. pc[c] = "stamped" /\ pc'[c] = "started" /\ lcs'[c] = stamp[c]
    BY <1>5 DEF StoreStart, Goto, TypeOK
  <2> QED
    BY <1>0, <1>1, <2>1 DEF Timed, StartTime
<1>6. CASE StartCompiling(c)
  <2>1. pc[c] = "started" /\ pc'[c] = "compiling" /\ lcs' = lcs /\ wake'[c] = now + Compile
    BY <1>6 DEF StartCompiling, Goto, Sleep, TypeOK
  <2> QED
    BY <1>0, <1>1, <2>1 DEF Timed
<1>7. CASE FinishCompiling(c)
  <2>1. pc[c] = "compiling" /\ pc'[c] = "rel2" /\ lcs' = lcs /\ now >= wake[c]
    BY <1>7 DEF FinishCompiling, Goto, WakeUp, Awake, TypeOK
  <2> QED
    BY <1>0, <1>1, <2>1 DEF Timed
<1> QED
  BY <1>2, <1>3, <1>4, <1>5, <1>6, <1>7 DEF CoderStep, RoundStep

LEMMA NextClock ==
    ASSUME QueueInv, TypeOK', EndInv, Clock, [Next]_vars
    PROVE  Clock'
<1>0. TypeOK /\ now \in Nat /\ now' \in Nat /\ StartTime \in Nat
  BY DEF QueueInv, TypeOK, StartTime
<1>1. ASSUME NEW c \in Coders, CoderStep(c)
      PROVE  Clock'
  <2>0. UNCHANGED <<now, stopped>> /\ now' >= now
    BY <1>0, <1>1, OthersStill
  <2>1. \A b \in Coders : Timed(b)'
    <3>1. Timed(c)'
      BY <1>0, <1>1, CoderTimed DEF Clock
    <3>2. ASSUME NEW b \in Coders \ {c} PROVE Timed(b)'
      <4>1. Still(b) /\ Timed(b) /\ b \in Coders
        BY <1>0, <1>1, OthersStill DEF Clock
      <4> QED
        BY <1>0, <2>0, <4>1, StillTimed DEF Still
    <3> QED
      BY <3>1, <3>2
  <2>2. KeysTrue'
    <3> SUFFICES ASSUME NEW d \in Dongles, NEW e \in waiters'[d]
                 PROVE  IF Scheduler = "fifo" THEN e.key <= now ELSE e.key = lcs'[e.id] + Burnout
      BY <2>0 DEF KeysTrue, Deadline
    <3>0. e.id \in Coders
      BY DEF TypeOK
    <3>1. CASE e \in waiters[d]
      <4>1. IF Scheduler = "fifo" THEN e.key <= now ELSE e.key = lcs[e.id] + Burnout
        BY <3>1 DEF Clock, KeysTrue, Deadline
      <4>2. WaitsFor(e.id, d)
        BY <3>0, <3>1 DEF QueueInv, QueueMatchesWaiters
      <4>3. lcs'[e.id] = lcs[e.id]
        <5>1. CASE e.id # c
          BY <1>0, <1>1, <3>0, <5>1, OthersStill DEF Still
        <5>2. CASE e.id = c
          BY <1>0, <1>1, <4>2, <5>2 DEF WaitsFor, CoderStep, Boot, LoopTest, DoDebug, DoRefactor,
             Activity, TestAfterFirst, TestAfterSecond, StopTest, ReadClock, StoreStart,
             StartCompiling, FinishCompiling, ReleaseSecond, ReleaseFirst, AbortSecond, AbortFirst,
             Release, EnqueueFirst, EnqueueSecond, PollFirst, PollSecond, Enqueue, Poll
        <5> QED
          BY <5>1, <5>2
      <4> QED
        BY <4>1, <4>3
    <3>2. CASE e \notin waiters[d]
      <4>1. RoundStep(c)
        BY <1>1, <3>2 DEF CoderStep, RoundStep, Boot, LoopTest, DoDebug, DoRefactor, Activity,
             TestAfterFirst, TestAfterSecond, StopTest, ReadClock, StoreStart, StartCompiling,
             FinishCompiling, ReleaseSecond, ReleaseFirst, AbortSecond, AbortFirst, Release,
             dongleVars
      <4>2. PICK u \in Dongles, q \in SUBSET [id : Coders, key : Nat] : Round(c, u, q)
        BY <1>0, <4>1, RoundLemma
      <4>3. /\ waiters' = [waiters EXCEPT ![u] = q] \/ waiters' = [waiters EXCEPT ![u] = Without(q, c)]
            /\ lcs' = lcs
            /\ q \subseteq waiters[u] \cup {[id |-> c, key |-> Key(c)]}
        BY <4>2 DEF Round
      <4>4. e = [id |-> c, key |-> Key(c)]
        BY <1>0, <3>2, <4>3 DEF Without, TypeOK
      <4> QED
        BY <1>0, <4>3, <4>4 DEF Key, Deadline
    <3> QED
      BY <3>1, <3>2
  <2>3. UsedBefore'
    <3> SUFFICES ASSUME NEW d \in Dongles, ~stopped,
                        inCooldown'[d] \/ (waiters'[d] # {} /\ ~inUse'[d])
                 PROVE  now > StartTime
      BY <2>0 DEF UsedBefore
    <3>1. (inCooldown[d] \/ (waiters[d] # {} /\ ~inUse[d])) => now > StartTime
      BY DEF Clock, UsedBefore
    <3>2. CASE RoundStep(c)
      <4>1. PICK u \in Dongles, q \in SUBSET [id : Coders, key : Nat] : Round(c, u, q)
        BY <1>0, <3>2, RoundLemma
      <4>2. CASE d # u
        BY <1>0, <3>1, <4>1, <4>2 DEF Round, TypeOK
      <4>3. CASE /\ d = u /\ inUse' = [inUse EXCEPT ![u] = TRUE]
                 /\ inCooldown' = [inCooldown EXCEPT ![u] = FALSE]
        BY <1>0, <4>3 DEF TypeOK
      <4>4. CASE d = u /\ ~CanTake(c, u, q) /\ UNCHANGED <<inUse, inCooldown>>
        <5>1. CASE waiters[d] = {} /\ ~inUse[d] /\ ~inCooldown[d]
          <6>1. q = {[id |-> c, key |-> Key(c)]} \/ q = {}
            BY <4>1, <4>4, <5>1 DEF Round
          <6>2. q # {}
            <7>1. WaitsFor(c, d) => waiters[d] # {}
              BY DEF QueueInv, QueueMatchesWaiters
            <7> QED
              BY <4>1, <4>4, <5>1, <7>1 DEF Round, WaitsFor, Polling
          <6>3. IsTop(q, c)
            BY <6>1, <6>2 DEF IsTop
          <6> QED
            BY <4>4, <5>1, <6>3 DEF CanTake
        <5>2. CASE inUse[d] /\ ~inCooldown[d]
          BY <4>4, <5>2
        <5> QED
          BY <3>1, <5>1, <5>2
      <4> QED
        BY <4>1, <4>2, <4>3, <4>4 DEF Round
    <3>3. CASE ReleaseFirst(c) \/ ReleaseSecond(c) \/ AbortFirst(c) \/ AbortSecond(c)
      <4>1. pc[c] \in {"rel1", "rel2"}
        BY <3>3 DEF ReleaseFirst, ReleaseSecond, AbortFirst, AbortSecond, Release, EndInv
      <4>2. now > lcs[c] /\ lcs[c] >= StartTime /\ lcs[c] \in Nat
        BY <1>0, <4>1 DEF Clock, Timed, TypeOK
      <4> QED
        BY <1>0, <4>2
    <3>4. CASE UNCHANGED dongleVars
      BY <3>1, <3>4 DEF dongleVars
    <3> QED
      BY <1>1, <3>2, <3>3, <3>4 DEF CoderStep, RoundStep, Boot, LoopTest, DoDebug, DoRefactor,
         Activity, TestAfterFirst, TestAfterSecond, StopTest, ReadClock, StoreStart,
         StartCompiling, FinishCompiling
  <2> QED
    BY <2>1, <2>2, <2>3 DEF Clock
<1>2. CASE MonitorStep \/ JoinCoders \/ Cleanup \/ Tick \/ UNCHANGED vars
  <2>1. UNCHANGED <<pc, wake, lcs, stamp, inUse, inCooldown, waiters>> /\ now' >= now
        /\ (stopped => stopped')
    BY <1>0, <1>2, NobodySteps DEF coderVars, dongleVars
  <2>2. \A b \in Coders : Timed(b)'
    BY <1>0, <2>1, StillTimed DEF Clock
  <2>3. KeysTrue'
    <3>1. \A d \in Dongles : \A e \in waiters[d] : e.key \in Nat
      BY <1>0 DEF TypeOK
    <3> QED
      BY <1>0, <2>1, <3>1 DEF Clock, KeysTrue, Deadline
  <2>4. UsedBefore'
    BY <1>0, <2>1 DEF Clock, UsedBefore
  <2> QED
    BY <2>2, <2>3, <2>4 DEF Clock
<1> QED
  BY <1>1, <1>2 DEF Next, Terminated

-----------------------------------------------------------------------------
(* Who is behind stays behind.                                             *)

\* Key k is one of a node: it is not later than the clock allows.
Due(k) == IF Scheduler = "fifo" THEN k <= now ELSE k < now + Burnout

LEMMA StillBehind ==
    ASSUME TypeOK, now' >= now, now' \in Nat, NEW b \in Coders, Still(b), NEW d \in Dongles,
           NEW k \in Nat, Behind(b, d, k)
    PROVE  Behind(b, d, k)'
<1>1. lcs[b] \in Nat /\ now \in Nat /\ Burnout \in Nat
  BY ConstantsAssumption DEF TypeOK
<1>2. CASE Key(b) > k /\ \A f \in waiters[d] : f.id = b => f.key > k
  <2>1. Key(b)' > k
    BY <1>1, <1>2 DEF Still, Key, Deadline
  <2> QED
    BY <1>2, <2>1 DEF Behind, Still
<1>3. CASE Holds(b, d) /\ Coming(b, k)
  <2>1. Holds(b, d)' /\ Coming(b, k)'
    BY <1>3 DEF Still, Holds, HoldsFirst, HoldsSecond, Coming
  <2> QED
    BY <2>1 DEF Behind
<1> QED
  BY <1>2, <1>3 DEF Behind

LEMMA OwnBehind ==
    ASSUME QueueInv, TypeOK', Clock, EndInv, NEW b \in Coders, CoderStep(b), ~stopped,
           NEW d \in Dongles, NEW k \in Nat, Due(k), Behind(b, d, k)
    PROVE  Behind(b, d, k)'
<1>0. /\ TypeOK /\ now' = now /\ now \in Nat /\ Burnout \in Nat /\ Compile \in Nat \ {0}
      /\ lcs[b] \in Nat /\ lcs'[b] \in Nat /\ stamp[b] \in Nat /\ wake[b] \in Nat
  BY ConstantsAssumption, OthersStill DEF QueueInv, TypeOK
<1>1. CASE RoundStep(b)
  <2>1. PICK u \in Dongles, q \in SUBSET [id : Coders, key : Nat] : Round(b, u, q)
    BY <1>0, <1>1, RoundLemma
  <2>2. UNCHANGED <<now, lcs>> /\ Key(b)' = Key(b)
    BY <2>1 DEF Round, Key, Deadline
  <2>3. CASE Key(b) > k /\ \A f \in waiters[d] : f.id = b => f.key > k
    <3>1. \A f \in waiters'[d] : f \in waiters[d] \/ f.key = Key(b)
      <4>1. \A f \in q : f \in waiters[u] \/ f.key = Key(b)
        BY <2>1 DEF Round
      <4>2. waiters' = [waiters EXCEPT ![u] = q] \/ waiters' = [waiters EXCEPT ![u] = Without(q, b)]
        BY <2>1 DEF Round
      <4> QED
        BY <1>0, <4>1, <4>2 DEF Without, TypeOK
    <3> QED
      BY <2>2, <2>3, <3>1, <1>0 DEF Behind
  <2>4. CASE Holds(b, d) /\ Coming(b, k)
    <3>1. pc[b] \in {"enq2", "poll2"} /\ pc'[b] \in {"poll2", "got2"}
      BY <2>1, <2>4 DEF Round, Holds, HoldsFirst, HoldsSecond, FirstLabels, SecondLabels, Polling
    <3>2. Holds(b, d)' /\ Coming(b, k)'
      BY <2>4, <3>1 DEF Holds, HoldsFirst, HoldsSecond, FirstLabels, SecondLabels, Coming
    <3> QED
      BY <3>2 DEF Behind
  <2> QED
    BY <2>3, <2>4 DEF Behind
<1>2. CASE ~RoundStep(b)
  <2>1. waiters' = waiters /\ lcs'[b] >= lcs[b]
    BY <1>0, <1>2 DEF CoderStep, RoundStep, Boot, LoopTest, DoDebug, DoRefactor, Activity,
         TestAfterFirst, TestAfterSecond, StopTest, ReadClock, StoreStart, StartCompiling,
         FinishCompiling, ReleaseSecond, ReleaseFirst, AbortSecond, AbortFirst, Release,
         dongleVars, Clock, Timed, TypeOK
  <2>2. Key(b)' >= Key(b) /\ Key(b) \in Nat /\ Key(b)' \in Nat
    BY <1>0, <2>1 DEF Key, Deadline
  <2>3. CASE Key(b) > k /\ \A f \in waiters[d] : f.id = b => f.key > k
    <3>1. Key(b)' > k
      BY <2>2, <2>3
    <3> QED
      BY <2>1, <2>3, <3>1 DEF Behind
  <2>4. CASE Holds(b, d) /\ Coming(b, k)
    <3>0. pc[b] \in {"got1", "enq2", "poll2", "got2", "begin", "stamped", "started", "compiling"}
      BY <2>4 DEF Coming
    <3>1. CASE TestAfterFirst(b) \/ TestAfterSecond(b)
      <4>1. \/ pc[b] = "got1" /\ pc'[b] = "enq2"
            \/ pc[b] = "got2" /\ pc'[b] = "begin"
        BY <1>0, <3>1 DEF TestAfterFirst, TestAfterSecond, StopTest, Goto, TypeOK
      <4>2. Holds(b, d)' /\ Coming(b, k)'
        BY <2>4, <4>1 DEF Holds, HoldsFirst, HoldsSecond, FirstLabels, SecondLabels, Coming
      <4> QED
        BY <4>2 DEF Behind
    <3>2. CASE ReadClock(b)
      <4>1. pc[b] = "begin" /\ pc'[b] = "stamped" /\ stamp'[b] = now
        BY <1>0, <3>2 DEF ReadClock, Goto, TypeOK
      <4>2. Holds(b, d)' /\ Coming(b, k)'
        BY <1>0, <2>4, <4>1 DEF Holds, HoldsFirst, HoldsSecond, FirstLabels, SecondLabels, Coming, Due
      <4> QED
        BY <4>2 DEF Behind
    <3>3. CASE StoreStart(b)
      <4>1. pc[b] = "stamped" /\ pc'[b] = "started" /\ lcs'[b] = stamp[b]
        BY <1>0, <3>3 DEF StoreStart, Goto, TypeOK
      <4>2. CASE Scheduler = "fifo"
        <5>1. Holds(b, d)' /\ Coming(b, k)'
          BY <2>4, <4>1, <4>2 DEF Holds, HoldsFirst, HoldsSecond, FirstLabels, SecondLabels, Coming
        <5> QED
          BY <5>1 DEF Behind
      <4>3. CASE Scheduler # "fifo"
        <5>1. Key(b)' > k
          BY <2>4, <4>1, <4>3 DEF Coming, Key, Deadline
        <5>2. \A f \in waiters[d] : f.id # b
          <6>1. ~WaitsFor(b, d)
            BY <4>1 DEF WaitsFor
          <6> QED
            BY <6>1 DEF QueueInv, QueueMatchesWaiters
        <5> QED
          BY <2>1, <5>1, <5>2 DEF Behind
      <4> QED
        BY <4>2, <4>3
    <3>4. CASE StartCompiling(b)
      <4>1. pc[b] = "started" /\ pc'[b] = "compiling" /\ wake'[b] = now + Compile
        BY <1>0, <3>4 DEF StartCompiling, Goto, Sleep, TypeOK
      <4>2. Scheduler = "fifo" /\ k <= now
        BY <2>4, <4>1 DEF Coming, Due
      <4>3. Holds(b, d)' /\ Coming(b, k)'
        BY <1>0, <2>4, <4>1, <4>2 DEF Holds, HoldsFirst, HoldsSecond, FirstLabels, SecondLabels, Coming
      <4> QED
        BY <4>3 DEF Behind
    <3>5. CASE FinishCompiling(b)
      <4>1. pc[b] = "compiling" /\ now >= wake[b]
        BY <3>5 DEF FinishCompiling, WakeUp, Awake
      <4>2. Key(b)' > k
        BY <1>0, <2>4, <4>1 DEF Coming, Key
      <4>3. \A f \in waiters[d] : f.id # b
        <5>1. ~WaitsFor(b, d)
          BY <4>1 DEF WaitsFor
        <5> QED
          BY <5>1 DEF QueueInv, QueueMatchesWaiters
      <4> QED
        BY <2>1, <4>2, <4>3 DEF Behind
    <3> QED
      BY <1>2, <3>0, <3>1, <3>2, <3>3, <3>4, <3>5 DEF CoderStep, RoundStep, Boot, LoopTest, DoDebug,
         DoRefactor, Activity, ReleaseSecond, ReleaseFirst, AbortSecond, AbortFirst, Release
  <2> QED
    BY <2>3, <2>4 DEF Behind
<1> QED
  BY <1>1, <1>2

\* Who takes a dongle past c is at the top of the queue: it was not behind c,
\* and it is now.
LEMMA TakenPast ==
    ASSUME ExclusionInv, QueueInv, Clock, [Next]_vars, NEW c \in Coders, PassedOver(c)
    PROVE  \E b \in Coders \ {c}, d \in Dongles : \E e \in waiters[d] :
              /\ CoderStep(b) /\ Uses(b, d) /\ e.id = c /\ ~stopped /\ now > lcs[c]
              /\ ~Behind(b, d, e.key) /\ Behind(b, d, e.key)'
<1>0. TypeOK /\ now \in Nat /\ StartTime \in Nat
  BY DEF QueueInv, TypeOK, StartTime
<1>1. PICK d \in Dongles : ~inUse[d] /\ inUse'[d] /\ Queued(c, d) /\ Queued(c, d)'
  BY DEF PassedOver
<1>2. PICK b \in Coders : RoundStep(b)
  <2>1. inUse' # inUse
    BY <1>1
  <2>2. ~(MonitorStep \/ JoinCoders \/ Cleanup \/ Tick \/ UNCHANGED vars)
    BY <1>0, <2>1, NobodySteps DEF dongleVars
  <2>3. PICK b \in Coders : CoderStep(b)
    BY <2>2 DEF Next, Terminated
  <2>4. ASSUME ~RoundStep(b) PROVE inUse' = inUse \/ \E u : inUse' = [inUse EXCEPT ![u] = FALSE]
    BY <2>3, <2>4 DEF CoderStep, RoundStep, Boot, LoopTest, DoDebug, DoRefactor, Activity,
         TestAfterFirst, TestAfterSecond, StopTest, ReadClock, StoreStart, StartCompiling,
         FinishCompiling, ReleaseSecond, ReleaseFirst, AbortSecond, AbortFirst, Release, dongleVars
  <2> QED
    BY <1>0, <1>1, <2>3, <2>4 DEF TypeOK
<1>3. PICK u \in Dongles, q \in SUBSET [id : Coders, key : Nat] : Round(b, u, q)
  BY <1>0, <1>2, RoundLemma
<1>4. /\ u = d /\ ~stopped /\ CanTake(b, d, q) /\ waiters' = [waiters EXCEPT ![d] = Without(q, b)]
      /\ pc'[b] \in {"got1", "got2"} /\ Uses(b, d)
  BY <1>0, <1>1, <1>3 DEF Round, TypeOK, Uses
<1>5. PICK e \in waiters[d] : e.id = c
  BY <1>1 DEF Queued
<1>6. c # b
  BY <1>0, <1>1, <1>4 DEF Queued, Without, TypeOK
<1>7. e.key \in Nat /\ e \in q /\ Key(b) \in Nat
  BY <1>0, <1>3, <1>4, KeyType DEF Round, TypeOK
<1>8. PICK f \in q : f.id = b /\ \A g \in q \ {f} : ComesBefore(f, g)
  BY <1>4 DEF CanTake, IsTop
<1>9. f.key <= e.key /\ f.key \in Nat /\ (f \in waiters[d] \/ f.key = Key(b))
  <2>1. f \in waiters[d] \/ f.key = Key(b)
    BY <1>3, <1>4 DEF Round
  <2> QED
    BY <1>5, <1>6, <1>7, <1>8, <2>1 DEF ComesBefore
<1>10. ~Behind(b, d, e.key)
  <2>1. ~Holds(b, d)
    BY <1>1 DEF ExclusionInv, DongleExclusion
  <2> QED
    BY <1>7, <1>8, <1>9, <2>1 DEF Behind
<1>11. Behind(b, d, e.key)'
  <2>1. Holds(b, d)'
    BY <1>3, <1>4 DEF Round, Holds, HoldsFirst, HoldsSecond, FirstLabels, SecondLabels, Uses
  <2>2. Coming(b, e.key)'
    BY <1>4 DEF Coming
  <2> QED
    BY <2>1, <2>2 DEF Behind
<1>12. now > lcs[c]
  <2>1. now > StartTime
    BY <1>1, <1>4, <1>5 DEF Clock, UsedBefore
  <2>2. WaitsFor(c, d)
    BY <1>5 DEF QueueInv, QueueMatchesWaiters
  <2> QED
    BY <1>0, <2>1, <2>2 DEF WaitsFor, Clock, Timed
<1> QED
  BY <1>2, <1>4, <1>5, <1>6, <1>10, <1>11, <1>12 DEF CoderStep, RoundStep

-----------------------------------------------------------------------------

LEMMA NextPass ==
    ASSUME ExclusionInv, QueueInv, EndInv, Clock, PassInv, TypeOK', Next_Hist
    PROVE  PassInv'
<1>0. /\ TypeOK /\ now \in Nat /\ now' \in Nat /\ [Next]_vars /\ Burnout \in Nat
      /\ waiters \in [Dongles -> SUBSET [id : Coders, key : Nat]]
      /\ waiters' \in [Dongles -> SUBSET [id : Coders, key : Nat]]
  BY ConstantsAssumption DEF QueueInv, TypeOK, Next_Hist
<1>1. \A c \in Coders : passed'[c] = IF PassedOver(c) THEN passed[c] + 1
                                     ELSE IF \E d \in Dongles : Queued(c, d)' THEN passed[c]
                                     ELSE 0
  BY DEF Next_Hist
<1>2. \A c \in Coders : PassedOver(c) => passed[c] = 0 /\ \E d \in Dongles : Queued(c, d)'
  <2> SUFFICES ASSUME NEW c \in Coders, PassedOver(c)
               PROVE  passed[c] = 0 /\ \E d \in Dongles : Queued(c, d)'
    OBVIOUS
  <2>1. PICK b \in Coders \ {c}, d \in Dongles :
           \E e \in waiters[d] : Uses(b, d) /\ e.id = c /\ ~stopped /\ ~Behind(b, d, e.key)
    BY <1>0, TakenPast
  <2>2. passed[c] # 1
    BY <2>1 DEF PassInv
  <2> QED
    BY <2>2 DEF PassInv, PassedOver
<1>3. \A c \in Coders : passed'[c] \in {0, 1}
  BY <1>1, <1>2 DEF PassInv
<1>4. \A c \in Coders : (\A d \in Dongles : ~Queued(c, d)') => passed'[c] = 0
  BY <1>1, <1>2
<1>5. ASSUME NEW d \in Dongles, NEW e \in waiters'[d], passed'[e.id] = 1, ~stopped'
      PROVE  /\ now' > lcs'[e.id]
             /\ \A b \in Coders \ {e.id} : Uses(b, d) => Behind(b, d, e.key)'
  <2> DEFINE c == e.id
  <2>0. c \in Coders /\ e.key \in Nat
    BY <1>0
  <2>1. CASE PassedOver(c)
    <3>0. PICK b \in Coders \ {c}, u \in Dongles :
             \E x \in waiters[u] :
                /\ CoderStep(b) /\ Uses(b, u) /\ x.id = c /\ ~stopped /\ now > lcs[c]
                /\ Behind(b, u, x.key)'
      BY <1>0, <2>0, <2>1, TakenPast
    <3>1. PICK x \in waiters[u] :
             /\ CoderStep(b) /\ Uses(b, u) /\ x.id = c /\ ~stopped /\ now > lcs[c]
             /\ Behind(b, u, x.key)'
      BY <3>0
    <3>2. e \in waiters[d] /\ UNCHANGED now /\ lcs'[c] = lcs[c]
      BY <1>0, <2>0, <3>1, OthersStill DEF Still
    <3>3. WaitsFor(c, d) /\ WaitsFor(c, u)
      BY <2>0, <3>1, <3>2 DEF QueueInv, QueueMatchesWaiters
    <3>4. d = u /\ e = x
      BY <3>1, <3>2, <3>3 DEF WaitsFor, QueueInv, QueueMatchesWaiters
    <3>5. Uses(c, d)
      BY <3>3 DEF WaitsFor, Uses
    <3>6. \A z \in Coders \ {c} : Uses(z, d) => z = b
      BY <2>0, <3>1, <3>4, <3>5, TwoUsers
    <3> QED
      BY <3>1, <3>2, <3>4, <3>6
  <2>2. CASE ~PassedOver(c)
    <3>1. passed[c] = 1
      BY <1>1, <1>5, <2>0, <2>2
    <3>2. PICK u \in Dongles : Queued(c, u)
      BY <2>0, <3>1 DEF PassInv
    <3>3. pc[c] \in Polling
      <4>1. WaitsFor(c, u)
        BY <2>0, <3>2 DEF Queued, QueueInv, QueueMatchesWaiters
      <4> QED
        BY <4>1 DEF WaitsFor, Polling
    <3>4. e \in waiters[d] /\ ~stopped /\ now' >= now /\ lcs'[c] = lcs[c]
      <4>1. ASSUME NEW b \in Coders, CoderStep(b)
            PROVE  e \in waiters[d] /\ ~stopped /\ now' >= now /\ lcs'[c] = lcs[c]
        <5>1. e \in waiters[d] /\ ~stopped /\ now' >= now
          BY <1>0, <1>5, <3>3, <4>1, OthersStill DEF Polling
        <5>2. CASE b # c
          BY <1>0, <2>0, <4>1, <5>1, <5>2, OthersStill DEF Still
        <5>3. CASE b = c
          BY <3>3, <4>1, <5>1, <5>3 DEF Polling, CoderStep, Boot, LoopTest, DoDebug, DoRefactor,
             Activity, TestAfterFirst, TestAfterSecond, StopTest, ReadClock, StoreStart,
             StartCompiling, FinishCompiling, ReleaseSecond, ReleaseFirst, AbortSecond, AbortFirst,
             Release, EnqueueFirst, EnqueueSecond, PollFirst, PollSecond, Enqueue, Poll
        <5> QED
          BY <5>2, <5>3
      <4>2. CASE MonitorStep \/ JoinCoders \/ Cleanup \/ Tick \/ UNCHANGED vars
        BY <1>0, <1>5, <4>2, NobodySteps DEF coderVars, dongleVars
      <4> QED
        BY <1>0, <4>1, <4>2 DEF Next, Terminated
    <3>5. /\ now > lcs[c]
          /\ \A b \in Coders \ {c} : Uses(b, d) => Behind(b, d, e.key)
      BY <3>1, <3>4 DEF PassInv
    <3>6. Due(e.key)
      <4>1. lcs[c] \in Nat
        BY <1>0, <2>0 DEF TypeOK
      <4> QED
        BY <1>0, <2>0, <3>4, <3>5, <4>1 DEF Clock, KeysTrue, Due, Deadline
    <3>7. ASSUME NEW b \in Coders \ {c}, Uses(b, d)
          PROVE  Behind(b, d, e.key)'
      <4>1. CASE CoderStep(b)
        BY <1>0, <2>0, <3>4, <3>5, <3>6, <3>7, <4>1, OwnBehind
      <4>2. CASE ~CoderStep(b)
        <5>1. Still(b)
          <6>1. ASSUME NEW a \in Coders, CoderStep(a) PROVE Still(b)
            BY <1>0, <4>2, <6>1, OthersStill
          <6>2. CASE MonitorStep \/ JoinCoders \/ Cleanup \/ Tick \/ UNCHANGED vars
            BY <1>0, <6>2, NobodySteps DEF coderVars, dongleVars, Still
          <6> QED
            BY <1>0, <6>1, <6>2 DEF Next, Terminated
        <5> QED
          BY <1>0, <2>0, <3>4, <3>5, <3>7, <5>1, StillBehind
      <4> QED
        BY <4>1, <4>2
    <3> QED
      <4>1. lcs[c] \in Nat
        BY <1>0, <2>0 DEF TypeOK
      <4> QED
        BY <1>0, <3>4, <3>5, <3>7, <4>1
  <2> QED
    BY <2>1, <2>2
<1> QED
  BY <1>3, <1>4, <1>5 DEF PassInv

\* A coder that waits for a dongle sees it go to its neighbour at most once,
\* under fifo and under edf, for every number of coders and all durations: the
\* neighbour comes back with a later key (dongle.c, waiter_push and try_acquire;
\* coder.c, do_compile).
THEOREM ServedNext == Spec_Hist => []PassedAtMostOnce
<1> DEFINE Inv == ExclusionInv /\ QueueInv /\ EndInv /\ Clock /\ PassInv
<1>1. Init_Hist => Inv
  <2> SUFFICES ASSUME Init_Hist PROVE Inv
    OBVIOUS
  <2>0. Init /\ passed = [c \in Coders |-> 0]
    BY DEF Init_Hist
  <2>1. ExclusionInv /\ TypeOK
    BY <2>0, InitExclusion DEF ExclusionInv
  <2>2. QueueMatchesWaiters /\ EndInv
    BY <2>0 DEF Init, QueueMatchesWaiters, WaitsFor, EndInv, StartTime
  <2>3. Clock
    BY <2>0 DEF Init, Clock, Timed, KeysTrue, UsedBefore, StartTime
  <2>4. PassInv
    BY <2>0 DEF Init, PassInv, Queued
  <2> QED
    BY <2>1, <2>2, <2>3, <2>4 DEF QueueInv
<1>2. Inv /\ [Next_Hist]_histVars => Inv'
  <2> SUFFICES ASSUME Inv, [Next_Hist]_histVars PROVE Inv'
    OBVIOUS
  <2>1. [Next]_vars
    BY DEF Next_Hist, histVars
  <2>2. ExclusionInv' /\ QueueInv' /\ EndInv' /\ TypeOK'
    BY <2>1, NextExclusion, NextQueue, NextEnd DEF QueueInv
  <2>3. Clock'
    BY <2>1, <2>2, NextClock
  <2>4. CASE Next_Hist
    BY <2>2, <2>3, <2>4, NextPass
  <2>5. CASE UNCHANGED histVars
    <3>1. UNCHANGED <<now, pc, wake, lcs, stamp, waiters, stopped, passed>>
      BY <2>5 DEF histVars, vars, coderVars, dongleVars
    <3>2. PassInv'
      BY <3>1 DEF PassInv, Queued, Behind, Holds, HoldsFirst, HoldsSecond, Coming, Key, Deadline
    <3> QED
      BY <2>2, <2>3, <3>2
  <2> QED
    BY <2>4, <2>5
<1>3. Inv => PassedAtMostOnce
  BY DEF PassInv, PassedAtMostOnce
<1> QED
  BY <1>1, <1>2, <1>3, PTL DEF Spec_Hist

=============================================================================

------------------------- MODULE CodexionOvertaking -------------------------
(***************************************************************************)
(* Codexion with a history variable that counts how often a coder waiting  *)
(* for a dongle sees it go to somebody else: the claim of the README that  *)
(* "every waiting coder is eventually served", as a bound.                 *)
(***************************************************************************)
EXTENDS Codexion

VARIABLE passed    \* passed[c]: times c was passed over since it queued up

histVars == <<vars, passed>>

Queued(c, d) == \E e \in waiters[d] : e.id = c

\* In this step dongle d goes to a coder other than c, for which c is queued.
PassedOver(c) ==
    \E d \in Dongles : /\ ~inUse[d] /\ inUse'[d]
                       /\ Queued(c, d) /\ Queued(c, d)'

Init_Hist == Init /\ passed = [c \in Coders |-> 0]

Next_Hist ==
    /\ Next
    /\ passed' = [c \in Coders |->
                     IF PassedOver(c) THEN passed[c] + 1
                     ELSE IF \E d \in Dongles : Queued(c, d)' THEN passed[c]
                     ELSE 0]

Spec_Hist == Init_Hist /\ [][Next_Hist]_histVars

\* A waiting coder is passed over at most once: under fifo by the neighbour
\* that queued up before it (or in the same millisecond with a larger id),
\* under edf by the neighbour whose deadline is earlier, which is later than
\* the coder's own once that neighbour has compiled.
PassedAtMostOnce == \A c \in Coders : passed[c] <= 1

=============================================================================

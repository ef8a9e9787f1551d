---------------------------- MODULE BarrierSpec ----------------------------
(***************************************************************************)
(* What a barrier promises (hw31-threads-sema/answers.md:5, "all threads   *)
(* will execute P1 before any one thread executes P2"): a thread leaves    *)
(* only when every thread has arrived, and then every thread leaves.       *)
(***************************************************************************)

CONSTANT Threads

VARIABLES
  arrived,  \* threads that have executed P1
  passed    \* threads that may execute P2

vars == <<arrived, passed>>

Init == arrived = {} /\ passed = {}

Arrive(t) ==
  /\ arrived' = arrived \cup {t}
  /\ UNCHANGED passed

Pass(t) ==
  /\ arrived = Threads
  /\ passed' = passed \cup {t}
  /\ UNCHANGED arrived

Next == \E t \in Threads : Arrive(t) \/ Pass(t)

Spec == Init /\ [][Next]_vars

FairSpec == Spec /\ \A t \in Threads : WF_vars(Arrive(t)) /\ WF_vars(Pass(t))

=============================================================================

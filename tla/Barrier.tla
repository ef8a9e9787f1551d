------------------------------ MODULE Barrier ------------------------------
(***************************************************************************)
(* hw31-threads-sema/src/barrier.cpp: a barrier built from a counter, a    *)
(* mutex and a turnstile, and the workers that meet at it once.            *)
(***************************************************************************)
EXTENDS Semaphores, FiniteSets

CONSTANT Threads   \* the workers; nthreads is their number

ASSUME BarrierAssumption == IsFiniteSet(Threads)

VARIABLES
  pc,        \* the next statement of each worker
  counter,   \* Barrier.counter_
  mutex,     \* Barrier.mutex_
  turnstile  \* Barrier.arrived_

vars == <<pc, counter, mutex, turnstile>>

Labels == {"before", "lock", "count", "test", "open", "unlock",
           "turn_acq", "turn_rel", "after", "done"}

Init ==
  /\ pc = [t \in Threads |-> "before"]
  /\ counter = Cardinality(Threads)
  /\ mutex = 1
  /\ turnstile = 0

Goto(t, from, to) == pc[t] = from /\ pc' = [pc EXCEPT ![t] = to]

-----------------------------------------------------------------------------
(* worker(): a print, wait(), a print.                                     *)

PrintBefore(t) ==
  /\ Goto(t, "before", "lock")
  /\ UNCHANGED <<counter, mutex, turnstile>>

\* Mutant of Lock: counter_ is not protected.
LockNever(t) ==
  /\ Goto(t, "lock", "count")
  /\ UNCHANGED <<counter, mutex, turnstile>>

Lock(t) ==
  /\ Goto(t, "lock", "count")
  /\ Acquire(mutex)
  /\ UNCHANGED <<counter, turnstile>>

Count(t) ==
  /\ Goto(t, "count", "test")
  /\ counter' = counter - 1
  /\ UNCHANGED <<mutex, turnstile>>

\* Mutant of Test: `counter_ <= 0` written `counter_ <= 1`.
TestOneEarly(t) ==
  /\ Goto(t, "test", IF counter <= 1 THEN "open" ELSE "unlock")
  /\ UNCHANGED <<counter, mutex, turnstile>>

Test(t) ==
  /\ Goto(t, "test", IF counter <= 0 THEN "open" ELSE "unlock")
  /\ UNCHANGED <<counter, mutex, turnstile>>

\* The last worker to arrive opens the turnstile, with the mutex held.
Open(t) ==
  /\ Goto(t, "open", "unlock")
  /\ Release(turnstile)
  /\ UNCHANGED <<counter, mutex>>

Unlock(t) ==
  /\ Goto(t, "unlock", "turn_acq")
  /\ Release(mutex)
  /\ UNCHANGED <<counter, turnstile>>

TurnAcquire(t) ==
  /\ Goto(t, "turn_acq", "turn_rel")
  /\ Acquire(turnstile)
  /\ UNCHANGED <<counter, mutex>>

\* Mutant of TurnRelease: the worker does not hold the turnstile open.
TurnReleaseNever(t) ==
  /\ Goto(t, "turn_rel", "after")
  /\ UNCHANGED <<counter, mutex, turnstile>>

\* A worker that has passed lets the next one through.
TurnRelease(t) ==
  /\ Goto(t, "turn_rel", "after")
  /\ Release(turnstile)
  /\ UNCHANGED <<counter, mutex>>

PrintAfter(t) ==
  /\ Goto(t, "after", "done")
  /\ UNCHANGED <<counter, mutex, turnstile>>

Worker(t) ==
  \/ PrintBefore(t) \/ Lock(t) \/ Count(t) \/ Test(t) \/ Open(t) \/ Unlock(t)
  \/ TurnAcquire(t) \/ TurnRelease(t) \/ PrintAfter(t)

\* main() joins every worker.
Joined == \A t \in Threads : pc[t] = "done"

Terminated == Joined /\ UNCHANGED vars

Next == (\E t \in Threads : Worker(t)) \/ Terminated

Spec == Init /\ [][Next]_vars

\* The operating system never stops scheduling a worker that can run.
FairSpec == Spec /\ \A t \in Threads : WF_vars(Worker(t))

-----------------------------------------------------------------------------
(* Properties.                                                             *)

\* mutex_ and arrived_ stay in 0..1: the last worker's release() and the one of
\* a worker that passes never meet (barrier.cpp:17, 21).
TypeOK ==
  /\ pc \in [Threads -> Labels]
  /\ counter \in 0 .. Cardinality(Threads)
  /\ mutex \in 0..1
  /\ turnstile \in 0..1

\* Workers that have decremented counter_, that hold mutex_, and that are
\* through the turnstile.
Counted == {t \in Threads : pc[t] \notin {"before", "lock", "count"}}
HoldsMutex == {t \in Threads : pc[t] \in {"count", "test", "open", "unlock"}}
Passed == {t \in Threads : pc[t] \in {"turn_rel", "after", "done"}}
Turning == {t \in Threads : pc[t] = "turn_rel"}

\* counter_ is what is missing, one worker at a time may change it, and the
\* turnstile is opened once, by a worker that nobody is behind: when it moves,
\* nobody can be about to open it again (barrier.cpp:13-21).
CounterInv == counter = Cardinality(Threads) - Cardinality(Counted)
MutexOwned ==
  /\ \A s, t \in HoldsMutex : s = t
  /\ mutex = 0 <=> HoldsMutex # {}
TurnstileInv ==
  /\ turnstile = 1 \/ Passed # {} =>
       /\ Counted = Threads
       /\ \A t \in Threads : pc[t] \notin {"test", "open"}
  /\ \A t \in Threads : pc[t] = "open" => Counted = Threads
  /\ \A s, t \in Turning : s = t
  /\ Turning # {} => turnstile = 0
BarrierInv == CounterInv /\ MutexOwned /\ TurnstileInv

\* No worker is through before all have arrived, and then all get through.
Abstract == INSTANCE BarrierSpec WITH arrived <- Counted, passed <- Passed
Implements == Abstract!Spec
ImplementsFairly == Abstract!FairSpec

=============================================================================

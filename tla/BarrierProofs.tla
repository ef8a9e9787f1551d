--------------------------- MODULE BarrierProofs ---------------------------
(***************************************************************************)
(* Proofs about Barrier, for any finite set of workers.                    *)
(***************************************************************************)
EXTENDS Barrier, FiniteSetTheorems, TLAPS

LEMMA CountedFinite ==
  /\ IsFiniteSet(Counted)
  /\ Cardinality(Counted) \in Nat /\ Cardinality(Threads) \in Nat
  /\ Cardinality(Counted) <= Cardinality(Threads)
  /\ Cardinality(Counted) = Cardinality(Threads) => Counted = Threads
BY BarrierAssumption, FS_Subset, FS_CardinalityType DEF Counted

LEMMA InvInit == Init => TypeOK /\ BarrierInv
<1> SUFFICES ASSUME Init PROVE TypeOK /\ BarrierInv
  OBVIOUS
<1>1. Counted = {} /\ HoldsMutex = {} /\ Passed = {} /\ Turning = {}
  BY DEF Init, Counted, HoldsMutex, Passed, Turning
<1>2. Cardinality(Threads) \in Nat /\ Cardinality({}) = 0
  BY CountedFinite, FS_EmptySet
<1> QED BY <1>1, <1>2 DEF Init, TypeOK, Labels, BarrierInv, CounterInv,
                          MutexOwned, TurnstileInv

LEMMA InvStep ==
  ASSUME TypeOK, BarrierInv, NEW t \in Threads, Worker(t)
  PROVE  TypeOK' /\ BarrierInv'
<1> USE DEF TypeOK, Labels, Goto, Acquire, Release, BarrierInv, MutexOwned
<1> DEFINE n == Cardinality(Threads)
<1>0. n \in Nat
  BY CountedFinite
<1>1. CASE PrintBefore(t)
  <2>1. UNCHANGED <<Counted, HoldsMutex, Passed, Turning>>
    BY <1>1 DEF PrintBefore, Counted, HoldsMutex, Passed, Turning
  <2> QED BY <1>1, <2>1 DEF PrintBefore, CounterInv, TurnstileInv
<1>2. CASE Lock(t)
  <2>1. UNCHANGED <<Counted, Passed, Turning>>
    BY <1>2 DEF Lock, Counted, Passed, Turning
  <2>2. HoldsMutex = {} /\ HoldsMutex' = {t}
    BY <1>2 DEF Lock, HoldsMutex
  <2> QED BY <1>2, <2>1, <2>2 DEF Lock, CounterInv, TurnstileInv
<1>3. CASE Count(t)
  <2>1. UNCHANGED <<HoldsMutex, Passed, Turning>>
    BY <1>3 DEF Count, HoldsMutex, Passed, Turning
  <2>2. t \notin Counted /\ Counted' = Counted \cup {t}
    BY <1>3 DEF Count, Counted
  <2>3. Cardinality(Counted)' = Cardinality(Counted) + 1
    BY <2>2, CountedFinite, FS_AddElement
  <2>4. Cardinality(Counted)' <= n
    BY CountedFinite, FS_Subset, BarrierAssumption DEF Counted
  <2>5. CounterInv' /\ counter' \in 0 .. n
    BY <1>0, <1>3, <2>3, <2>4, CountedFinite DEF Count, CounterInv
  <2> QED BY <1>3, <2>1, <2>2, <2>5 DEF Count, TurnstileInv, HoldsMutex
<1>4. CASE Test(t)
  <2>1. UNCHANGED <<Counted, HoldsMutex, Passed, Turning>>
    BY <1>4 DEF Test, Counted, HoldsMutex, Passed, Turning
  <2>2. counter <= 0 => Counted = Threads
    BY CountedFinite DEF CounterInv
  <2> QED BY <1>4, <2>1, <2>2 DEF Test, CounterInv, TurnstileInv
<1>5. CASE Open(t)
  <2>1. UNCHANGED <<Counted, HoldsMutex, Passed, Turning>>
    BY <1>5 DEF Open, Counted, HoldsMutex, Passed, Turning
  <2>2. turnstile = 0 /\ Passed = {} /\ Turning = {} /\ Counted = Threads
    BY <1>5 DEF Open, TurnstileInv, Turning, Passed
  <2>3. t \in HoldsMutex
    BY <1>5 DEF Open, HoldsMutex
  <2>4. \A s \in Threads : pc'[s] \notin {"test", "open"}
    BY <1>5, <2>3 DEF Open, HoldsMutex
  <2> QED BY <1>5, <2>1, <2>2, <2>4 DEF Open, CounterInv, TurnstileInv
<1>6. CASE Unlock(t)
  <2>1. UNCHANGED <<Counted, Passed, Turning>>
    BY <1>6 DEF Unlock, Counted, Passed, Turning
  <2>2. t \in HoldsMutex /\ HoldsMutex' = {}
    BY <1>6 DEF Unlock, HoldsMutex
  <2> QED BY <1>6, <2>1, <2>2 DEF Unlock, CounterInv, TurnstileInv
<1>7. CASE TurnAcquire(t)
  <2>1. UNCHANGED <<Counted, HoldsMutex>>
    BY <1>7 DEF TurnAcquire, Counted, HoldsMutex
  <2>2. Turning = {} /\ Turning' = {t}
    BY <1>7 DEF TurnAcquire, Turning, TurnstileInv
  <2> QED BY <1>7, <2>1, <2>2 DEF TurnAcquire, CounterInv, TurnstileInv
<1>8. CASE TurnRelease(t)
  <2>1. UNCHANGED <<Counted, HoldsMutex, Passed>>
    BY <1>8 DEF TurnRelease, Counted, HoldsMutex, Passed
  <2>2. t \in Turning /\ Turning' = {} /\ t \in Passed
    BY <1>8 DEF TurnRelease, Turning, TurnstileInv, Passed
  <2> QED BY <1>8, <2>1, <2>2 DEF TurnRelease, CounterInv, TurnstileInv
<1>9. CASE PrintAfter(t)
  <2>1. UNCHANGED <<Counted, HoldsMutex, Passed, Turning>>
    BY <1>9 DEF PrintAfter, Counted, HoldsMutex, Passed, Turning
  <2> QED BY <1>9, <2>1 DEF PrintAfter, CounterInv, TurnstileInv
<1> QED BY <1>1, <1>2, <1>3, <1>4, <1>5, <1>6, <1>7, <1>8, <1>9 DEF Worker

LEMMA Inductive == Spec => [](TypeOK /\ BarrierInv)
<1>1. TypeOK /\ BarrierInv /\ [Next]_vars => (TypeOK /\ BarrierInv)'
  <2>1. CASE UNCHANGED vars
    BY <2>1 DEF vars, TypeOK, BarrierInv, CounterInv, MutexOwned, TurnstileInv,
                Counted, HoldsMutex, Passed, Turning
  <2> QED BY <2>1, InvStep DEF Next, Terminated
<1> QED BY <1>1, InvInit, PTL DEF Spec

\* Neither semaphore of the barrier is ever released above 1.
THEOREM TypeCorrect == Spec => []TypeOK
BY Inductive, PTL

\* The turnstile opens once, when everybody has been counted.
THEOREM TurnstileCorrect == Spec => []BarrierInv
BY Inductive, PTL

\* barrier.cpp implements the abstract barrier: no worker gets through before
\* all have been counted.
THEOREM Refinement == Spec => Implements
<1>1. Init => Abstract!Init
  BY DEF Init, Abstract!Init, Counted, Passed
<1>2. TypeOK /\ BarrierInv /\ [Next]_vars => [Abstract!Next]_(Abstract!vars)
  <2> SUFFICES ASSUME TypeOK, BarrierInv, [Next]_vars
               PROVE  Abstract!Next \/ UNCHANGED <<Counted, Passed>>
    BY DEF Abstract!vars
  <2> USE DEF TypeOK, Goto
  <2>1. ASSUME NEW t \in Threads, Count(t) PROVE Abstract!Arrive(t)
    BY <2>1 DEF Count, Counted, Passed, Abstract!Arrive
  <2>2. ASSUME NEW t \in Threads, TurnAcquire(t) PROVE Abstract!Pass(t)
    <3>1. Counted = Threads /\ Counted' = Counted
      BY <2>2 DEF TurnAcquire, Acquire, BarrierInv, TurnstileInv, Counted
    <3> QED BY <2>2, <3>1 DEF TurnAcquire, Passed, Abstract!Pass
  <2>3. ASSUME NEW t \in Threads, Worker(t), ~Count(t), ~TurnAcquire(t)
        PROVE  UNCHANGED <<Counted, Passed>>
    BY <2>3 DEF Worker, PrintBefore, Lock, Test, Open, Unlock, TurnRelease,
                PrintAfter, Counted, Passed
  <2>4. CASE UNCHANGED vars
    BY <2>4 DEF vars, Counted, Passed
  <2> QED BY <2>1, <2>2, <2>3, <2>4 DEF Next, Terminated, Abstract!Next
<1> QED BY <1>1, <1>2, Inductive, PTL DEF Spec, Implements, Abstract!Spec

=============================================================================

--------------------- MODULE ReaderWriterNoStarveProofs ---------------------
(***************************************************************************)
(* Proofs about ReaderWriterNoStarve: it implements ReaderWriter, so the   *)
(* theorems of ReaderWriterProofs hold of it, and order_sem_ keeps readers *)
(* from overtaking a writer that has its turn.                             *)
(***************************************************************************)
EXTENDS ReaderWriterNoStarve, TLAPS

\* The theorems about the plain lock, for the labels of this one.
PlainProofs == INSTANCE ReaderWriterProofs WITH pc <- PlainPc

-----------------------------------------------------------------------------
(* What the refinement and the order rest on.                              *)

\* Every thread is at a statement of its own, and inside its loop only with
\* an iteration left.
PcOK ==
  /\ pc \in [Threads -> ReaderLabels \cup WriterLabels]
  /\ \A r \in Readers : pc[r] \in ReaderLabels
  /\ \A w \in Writers : pc[w] \in WriterLabels
  /\ i \in [Threads -> 0..NLoops]
  /\ \A t \in Threads : pc[t] \in {"rl_order", "wl_order"} \/ i[t] < NLoops
  /\ order_sem \in 0..1

OInv == PcOK /\ OrderOwned

LEMMA OrderInit == Init => OInv
<1> SUFFICES ASSUME Init PROVE OInv
  OBVIOUS
<1>1. PcOK
  BY NoStarveAssumption DEF Init, PcOK, Threads, ReaderLabels, WriterLabels
<1>2. Ordered = {}
  BY NoStarveAssumption DEF Init, Ordered, Threads
<1> QED BY <1>1, <1>2 DEF Init, OInv, OrderOwned

LEMMA OrderReader ==
  ASSUME OInv, NEW r \in Readers, Reader(r)
  PROVE  OInv'
<1> USE NoStarveAssumption DEF OInv, PcOK, Threads, Goto, Acquire, Release,
        ReaderLabels, WriterLabels, OrderOwned
<1>w. r \notin Writers
  OBVIOUS
<1>1. CASE ReadLockOrder(r)
  <2>1. Ordered = {} /\ Ordered' = {r}
    BY <1>1, <1>w DEF ReadLockOrder, Ordered
  <2> QED BY <1>1, <2>1 DEF ReadLockOrder
<1>2. CASE ReadLockOrderRelease(r)
  <2>1. r \in Ordered
    BY <1>2 DEF ReadLockOrderRelease, Ordered
  <2>2. Ordered' = Ordered \ {r}
    BY <1>2, <1>w DEF ReadLockOrderRelease, Ordered
  <2>3. Ordered' = {} /\ order_sem = 0
    BY <2>1, <2>2
  <2> QED BY <1>2, <2>3 DEF ReadLockOrderRelease
<1>3. CASE ReadLockAcquire(r)
  <2>1. Ordered' = Ordered
    BY <1>3, <1>w DEF ReadLockAcquire, Ordered
  <2> QED BY <1>3, <2>1 DEF ReadLockAcquire
<1>4. CASE ReadLockCount(r) \/ ReadLockTest(r) \/ ReadLockWait(r) \/ ReadLockRelease(r)
  <2>1. Ordered' = Ordered
    BY <1>4, <1>w DEF ReadLockCount, ReadLockTest, ReadLockWait, ReadLockRelease,
                      Ordered
  <2> QED BY <1>4, <2>1 DEF ReadLockCount, ReadLockTest, ReadLockWait, ReadLockRelease
<1>5. CASE PrintValue(r) \/ ReadUnlockAcquire(r) \/ ReadUnlockCount(r)
           \/ ReadUnlockTest(r) \/ ReadUnlockWriters(r) \/ ReadUnlockRelease(r)
  <2>1. Ordered' = Ordered
    BY <1>5, <1>w DEF PrintValue, ReadUnlockAcquire, ReadUnlockCount,
         ReadUnlockTest, ReadUnlockWriters, ReadUnlockRelease, Ordered
  <2> QED BY <1>5, <2>1 DEF PrintValue, ReadUnlockAcquire, ReadUnlockCount,
       ReadUnlockTest, ReadUnlockWriters, ReadUnlockRelease, NextIteration
<1> QED BY <1>1, <1>2, <1>3, <1>4, <1>5 DEF Reader

LEMMA OrderWriter ==
  ASSUME OInv, NEW w \in Writers, Writer(w)
  PROVE  OInv'
<1> USE NoStarveAssumption DEF OInv, PcOK, Threads, Goto, Acquire, Release,
        ReaderLabels, WriterLabels, OrderOwned
<1>r. w \notin Readers
  OBVIOUS
<1>1. CASE WriteLockOrder(w)
  <2>1. Ordered = {} /\ Ordered' = {w}
    BY <1>1, <1>r DEF WriteLockOrder, Ordered
  <2> QED BY <1>1, <2>1 DEF WriteLockOrder
<1>2. CASE WriteLockOrderRelease(w)
  <2>1. w \in Ordered
    BY <1>2 DEF WriteLockOrderRelease, Ordered
  <2>2. Ordered' = Ordered \ {w}
    BY <1>2, <1>r DEF WriteLockOrderRelease, Ordered
  <2>3. Ordered' = {} /\ order_sem = 0
    BY <2>1, <2>2
  <2> QED BY <1>2, <2>3 DEF WriteLockOrderRelease
<1>3. CASE WriteLockAcquire(w) \/ LoadValue(w) \/ StoreValue(w)
           \/ PrintWritten(w) \/ WriteUnlock(w)
  <2>1. Ordered' = Ordered
    BY <1>3, <1>r DEF WriteLockAcquire, LoadValue, StoreValue, PrintWritten,
         WriteUnlock, Ordered
  <2> QED BY <1>3, <2>1 DEF WriteLockAcquire, LoadValue, StoreValue,
       PrintWritten, WriteUnlock, NextIteration
<1> QED BY <1>1, <1>2, <1>3 DEF Writer

LEMMA OrderInvariant == Spec => []OInv
<1>1. OInv /\ [Next]_vars => OInv'
  <2> SUFFICES ASSUME OInv, [Next]_vars PROVE OInv'
    OBVIOUS
  <2>1. CASE UNCHANGED vars
    BY <2>1 DEF vars, OInv, PcOK, OrderOwned, Ordered
  <2> QED BY <2>1, OrderReader, OrderWriter DEF Next
<1> QED BY <1>1, OrderInit, PTL DEF Spec

-----------------------------------------------------------------------------
(* Step by step, this lock is the plain one.                               *)

\* A step moves its thread in the plain lock as well, or leaves it in place.
LEMMA PlainGoto ==
  ASSUME OInv, NEW t \in Threads, NEW from, NEW to, Goto(t, from, to)
  PROVE  /\ PlainPc[t] = PlainLabel(from)
         /\ PlainPc' = [PlainPc EXCEPT ![t] = PlainLabel(to)]
         /\ PlainLabel(from) = PlainLabel(to) => PlainPc' = PlainPc
<1>1. PlainPc[t] = PlainLabel(from)
  BY DEF Goto, PlainPc
<1>2. PlainPc' = [PlainPc EXCEPT ![t] = PlainLabel(to)]
  BY DEF OInv, PcOK, Goto, PlainPc
<1>3. [PlainPc EXCEPT ![t] = PlainPc[t]] = PlainPc
  BY DEF PlainPc
<1> QED BY <1>1, <1>2, <1>3

LEMMA Labels ==
  /\ \A l \in {"rl_acq", "rl_inc", "rl_test", "rl_wait", "rl_rel", "print",
               "ru_acq", "ru_dec", "ru_test", "ru_wrel", "ru_rel", "wl_acq",
               "w_load", "w_store", "w_print", "wu_rel"} : PlainLabel(l) = l
  /\ PlainLabel("rl_order") = "rl_acq" /\ PlainLabel("wl_order") = "wl_acq"
  /\ PlainLabel("rl_orel") = "print" /\ PlainLabel("wl_orel") = "w_load"
BY DEF PlainLabel

LEMMA ReaderStep ==
  ASSUME OInv, NEW r \in Readers, Reader(r)
  PROVE  PlainProofs!Reader(r) \/ UNCHANGED PlainProofs!vars
<1> USE Labels DEF PlainProofs!Goto, Acquire, Release,
        PlainProofs!Acquire, PlainProofs!Release
<1>0. r \in Threads
  BY DEF Threads
<1>1. CASE ReadLockOrder(r)
  BY <1>0, <1>1, PlainGoto DEF ReadLockOrder, PlainProofs!vars
<1>2. CASE ReadLockAcquire(r)
  <2>1. i[r] < NLoops
    BY <1>0, <1>2 DEF ReadLockAcquire, Goto, OInv, PcOK
  <2> QED BY <1>0, <1>2, <2>1, PlainGoto
          DEF ReadLockAcquire, PlainProofs!Reader, PlainProofs!ReadLockAcquire
<1>3. CASE ReadLockCount(r)
  BY <1>0, <1>3, PlainGoto
     DEF ReadLockCount, PlainProofs!Reader, PlainProofs!ReadLockCount
<1>4. CASE ReadLockTest(r)
  BY <1>0, <1>4, PlainGoto
     DEF ReadLockTest, PlainProofs!Reader, PlainProofs!ReadLockTest
<1>5. CASE ReadLockWait(r)
  BY <1>0, <1>5, PlainGoto
     DEF ReadLockWait, PlainProofs!Reader, PlainProofs!ReadLockWait
<1>6. CASE ReadLockRelease(r)
  BY <1>0, <1>6, PlainGoto
     DEF ReadLockRelease, PlainProofs!Reader, PlainProofs!ReadLockRelease
<1>7. CASE ReadLockOrderRelease(r)
  BY <1>0, <1>7, PlainGoto DEF ReadLockOrderRelease, PlainProofs!vars
<1>8. CASE PrintValue(r)
  BY <1>0, <1>8, PlainGoto
     DEF PrintValue, PlainProofs!Reader, PlainProofs!PrintValue
<1>9. CASE ReadUnlockAcquire(r)
  BY <1>0, <1>9, PlainGoto
     DEF ReadUnlockAcquire, PlainProofs!Reader, PlainProofs!ReadUnlockAcquire
<1>10. CASE ReadUnlockCount(r)
  BY <1>0, <1>10, PlainGoto
     DEF ReadUnlockCount, PlainProofs!Reader, PlainProofs!ReadUnlockCount
<1>11. CASE ReadUnlockTest(r)
  BY <1>0, <1>11, PlainGoto
     DEF ReadUnlockTest, PlainProofs!Reader, PlainProofs!ReadUnlockTest
<1>12. CASE ReadUnlockWriters(r)
  BY <1>0, <1>12, PlainGoto
     DEF ReadUnlockWriters, PlainProofs!Reader, PlainProofs!ReadUnlockWriters
<1>13. CASE ReadUnlockRelease(r)
  BY <1>0, <1>13, PlainGoto
     DEF ReadUnlockRelease, NextIteration, PlainProofs!Reader,
         PlainProofs!ReadUnlockRelease, PlainProofs!NextIteration
<1> QED BY <1>1, <1>2, <1>3, <1>4, <1>5, <1>6, <1>7, <1>8, <1>9, <1>10, <1>11,
           <1>12, <1>13 DEF Reader

LEMMA WriterStep ==
  ASSUME OInv, NEW w \in Writers, Writer(w)
  PROVE  PlainProofs!Writer(w) \/ UNCHANGED PlainProofs!vars
<1> USE Labels DEF PlainProofs!Goto, Acquire, Release,
        PlainProofs!Acquire, PlainProofs!Release
<1>0. w \in Threads
  BY DEF Threads
<1>1. CASE WriteLockOrder(w)
  BY <1>0, <1>1, PlainGoto DEF WriteLockOrder, PlainProofs!vars
<1>2. CASE WriteLockAcquire(w)
  <2>1. i[w] < NLoops
    BY <1>0, <1>2 DEF WriteLockAcquire, Goto, OInv, PcOK
  <2> QED BY <1>0, <1>2, <2>1, PlainGoto
          DEF WriteLockAcquire, PlainProofs!Writer, PlainProofs!WriteLock
<1>3. CASE WriteLockOrderRelease(w)
  BY <1>0, <1>3, PlainGoto DEF WriteLockOrderRelease, PlainProofs!vars
<1>4. CASE LoadValue(w)
  BY <1>0, <1>4, PlainGoto
     DEF LoadValue, PlainProofs!Writer, PlainProofs!LoadValue
<1>5. CASE StoreValue(w)
  BY <1>0, <1>5, PlainGoto
     DEF StoreValue, PlainProofs!Writer, PlainProofs!StoreValue
<1>6. CASE PrintWritten(w)
  BY <1>0, <1>6, PlainGoto
     DEF PrintWritten, PlainProofs!Writer, PlainProofs!PrintWritten
<1>7. CASE WriteUnlock(w)
  BY <1>0, <1>7, PlainGoto
     DEF WriteUnlock, NextIteration, PlainProofs!Writer,
         PlainProofs!WriteUnlock, PlainProofs!NextIteration
<1> QED BY <1>1, <1>2, <1>3, <1>4, <1>5, <1>6, <1>7 DEF Writer

-----------------------------------------------------------------------------
(* The theorems.                                                           *)

\* reader-writer-nostarve.cpp is reader-writer.cpp with more waiting: every
\* behaviour of it is a behaviour of the plain lock.
LEMMA PlainSpec == Spec => PlainProofs!Spec
<1>1. Init => PlainProofs!Init
  <2> SUFFICES ASSUME Init PROVE PlainProofs!Init
    OBVIOUS
  <2>1. PlainPc = [t \in Threads |-> IF t \in Readers THEN "rl_acq" ELSE "wl_acq"]
    BY Labels DEF Init, PlainPc
  <2> QED BY <2>1 DEF Init, PlainProofs!Init, PlainProofs!Threads, Threads
<1>2. OInv /\ [Next]_vars => [PlainProofs!Next]_(PlainProofs!vars)
  <2> SUFFICES ASSUME OInv, [Next]_vars
               PROVE  [PlainProofs!Next]_(PlainProofs!vars)
    OBVIOUS
  <2>1. CASE UNCHANGED vars
    BY <2>1 DEF vars, PlainProofs!vars, PlainPc
  <2> QED BY <2>1, ReaderStep, WriterStep DEF Next, PlainProofs!Next
<1> QED BY <1>1, <1>2, OrderInvariant, PTL DEF Spec, PlainProofs!Spec

\* The same, as the runs check it.
THEOREM Refinement == Spec => Implements
<1>1. Plain!Init <=> PlainProofs!Init
  BY DEF Plain!Init, PlainProofs!Init, Plain!Threads, PlainProofs!Threads
<1>2. Plain!vars = PlainProofs!vars
  BY DEF Plain!vars, PlainProofs!vars
<1>3. ASSUME NEW r \in Readers PROVE PlainProofs!Reader(r) => Plain!Reader(r)
  BY DEF Plain!Reader, PlainProofs!Reader, Plain!Goto, PlainProofs!Goto,
    Plain!Acquire, PlainProofs!Acquire, Plain!Release, PlainProofs!Release,
    Plain!NextIteration, PlainProofs!NextIteration,
    Plain!ReadLockAcquire, PlainProofs!ReadLockAcquire,
    Plain!ReadLockCount, PlainProofs!ReadLockCount,
    Plain!ReadLockTest, PlainProofs!ReadLockTest,
    Plain!ReadLockWait, PlainProofs!ReadLockWait,
    Plain!ReadLockRelease, PlainProofs!ReadLockRelease,
    Plain!PrintValue, PlainProofs!PrintValue,
    Plain!ReadUnlockAcquire, PlainProofs!ReadUnlockAcquire,
    Plain!ReadUnlockCount, PlainProofs!ReadUnlockCount,
    Plain!ReadUnlockTest, PlainProofs!ReadUnlockTest,
    Plain!ReadUnlockWriters, PlainProofs!ReadUnlockWriters,
    Plain!ReadUnlockRelease, PlainProofs!ReadUnlockRelease
<1>4. ASSUME NEW w \in Writers PROVE PlainProofs!Writer(w) => Plain!Writer(w)
  BY DEF Plain!Writer, PlainProofs!Writer, Plain!Goto, PlainProofs!Goto,
    Plain!Acquire, PlainProofs!Acquire, Plain!Release, PlainProofs!Release,
    Plain!NextIteration, PlainProofs!NextIteration,
    Plain!WriteLock, PlainProofs!WriteLock, Plain!LoadValue,
    PlainProofs!LoadValue, Plain!StoreValue, PlainProofs!StoreValue,
    Plain!PrintWritten, PlainProofs!PrintWritten, Plain!WriteUnlock,
    PlainProofs!WriteUnlock
<1>5. PlainProofs!Terminated => UNCHANGED PlainProofs!vars
  BY DEF PlainProofs!Terminated
<1>6. [PlainProofs!Next]_(PlainProofs!vars) => [Plain!Next]_(Plain!vars)
  BY <1>3, <1>4, <1>5
     DEF Plain!Next, PlainProofs!Next, Plain!vars, PlainProofs!vars
<1> QED BY <1>1, <1>2, <1>6, PlainSpec, PTL
        DEF Implements, Plain!Spec, PlainProofs!Spec

\* So it excludes like the plain lock: in the labels of the plain one, a writer
\* is alone with the lock.
THEOREM MutualExclusion == Spec => []Plain!Exclusion
<1>1. PlainProofs!Exclusion <=> Plain!Exclusion
  BY DEF PlainProofs!Exclusion, Plain!Exclusion, PlainProofs!Reading,
         Plain!Reading, PlainProofs!Writing, Plain!Writing
<1>2. Spec => []PlainProofs!Exclusion
  <2>0. PlainProofs!ReaderWriterAssumption
    BY NoStarveAssumption
       DEF PlainProofs!ReaderWriterAssumption, PlainProofs!IsFiniteSet, IsFiniteSet
  <2>1. PlainProofs!Spec => []PlainProofs!Exclusion
    BY <2>0, PlainProofs!MutualExclusion, PTL
  <2> QED BY <2>1, PlainSpec, PTL
<1> QED BY <1>1, <1>2, PTL

\* The three semaphores stay in 0..1.
THEOREM TypeCorrect == Spec => []TypeOK
<1>1. Spec => []PlainProofs!TypeOK
  <2>0. PlainProofs!ReaderWriterAssumption
    BY NoStarveAssumption
       DEF PlainProofs!ReaderWriterAssumption, PlainProofs!IsFiniteSet, IsFiniteSet
  <2>1. PlainProofs!Spec => []PlainProofs!TypeOK
    BY <2>0, PlainProofs!TypeCorrect, PTL
  <2> QED BY <2>1, PlainSpec, PTL
<1>2. OInv /\ PlainProofs!TypeOK => TypeOK
  BY DEF OInv, PcOK, TypeOK, PlainProofs!TypeOK
<1> QED BY <1>1, <1>2, OrderInvariant, PTL

\* While a writer has its turn and waits for the lock, no reader is counted
\* in: only readers that leave change readers_.
THEOREM NobodyOvertakes == Spec => NoOvertaking
<1>1. ASSUME OInv, TypeOK, [Next]_vars, NEW w \in Writers, pc[w] = "wl_acq"
      PROVE  readers' <= readers
  <2> USE NoStarveAssumption DEF OInv, PcOK, Threads, Goto
  <2>0. readers \in Nat
    BY <1>1 DEF TypeOK
  <2>1. ASSUME NEW r \in Readers, ReadLockCount(r) PROVE FALSE
    BY <1>1, <2>1 DEF ReadLockCount, OrderOwned, Ordered
  <2>2. ASSUME NEW r \in Readers, Reader(r) PROVE readers' <= readers
    BY <2>0, <2>1, <2>2 DEF Reader, ReadLockOrder, ReadLockAcquire, ReadLockTest,
       ReadLockWait, ReadLockRelease, ReadLockOrderRelease, PrintValue,
       ReadUnlockAcquire, ReadUnlockCount, ReadUnlockTest, ReadUnlockWriters,
       ReadUnlockRelease
  <2>3. ASSUME NEW v \in Writers, Writer(v) PROVE readers' <= readers
    BY <2>0, <2>3 DEF Writer, WriteLockOrder, WriteLockAcquire,
       WriteLockOrderRelease, LoadValue, StoreValue, PrintWritten, WriteUnlock
  <2>4. CASE UNCHANGED vars
    BY <2>0, <2>4 DEF vars
  <2> QED BY <1>1, <2>2, <2>3, <2>4 DEF Next
<1>2. OInv /\ TypeOK /\ [Next]_vars =>
        [\A w \in Writers : pc[w] = "wl_acq" => readers' <= readers]_vars
  BY <1>1
<1> QED BY <1>2, OrderInvariant, TypeCorrect, PTL DEF Spec, NoOvertaking

=============================================================================

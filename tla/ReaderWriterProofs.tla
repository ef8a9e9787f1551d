------------------------ MODULE ReaderWriterProofs ------------------------
(***************************************************************************)
(* Proofs about ReaderWriter, for any finite sets of readers and writers   *)
(* and any number of iterations.                                           *)
(***************************************************************************)
EXTENDS ReaderWriter, FiniteSetTheorems, TLAPS

\* The actions of the threads, and everything they are made of.
LEMMA CountedFinite ==
  ASSUME TypeOK
  PROVE  IsFiniteSet(Counted) /\ Cardinality(Counted) \in Nat
BY ReaderWriterAssumption, FS_Subset, FS_CardinalityType DEF Counted

-----------------------------------------------------------------------------
(* Types.                                                                  *)

\* The initial state is well typed, and every step of every thread keeps it so
\* when no semaphore is released by a thread that does not hold it.
LEMMA TypeInit == Init => TypeOK
BY ReaderWriterAssumption DEF Init, TypeOK, Threads, ReaderLabels, WriterLabels

LEMMA TypeReader ==
  ASSUME TypeOK, LockInv, NEW r \in Readers, Reader(r)
  PROVE  TypeOK'
<1> USE ReaderWriterAssumption DEF TypeOK, Threads, Goto, Acquire, Release,
        ReaderLabels, WriterLabels, HoldsReadSem, InGroup
<1>1. CASE ReadLockAcquire(r)
  BY <1>1 DEF ReadLockAcquire
<1>2. CASE ReadLockCount(r)
  BY <1>2 DEF ReadLockCount
<1>3. CASE ReadLockTest(r)
  BY <1>3 DEF ReadLockTest
<1>4. CASE ReadLockWait(r)
  BY <1>4 DEF ReadLockWait
<1>5. CASE ReadLockRelease(r)
  BY <1>5 DEF ReadLockRelease, LockInv, ReadSemOwned
<1>6. CASE PrintValue(r)
  BY <1>6 DEF PrintValue
<1>7. CASE ReadUnlockAcquire(r)
  BY <1>7 DEF ReadUnlockAcquire
<1>8. CASE ReadUnlockCount(r)
  <2>1. Counted # {}
    BY <1>8 DEF ReadUnlockCount, Counted
  <2>2. readers - 1 \in Nat
    BY <2>1, CountedFinite, FS_EmptySet DEF LockInv, ReadersCounted
  <2> QED BY <1>8, <2>2 DEF ReadUnlockCount
<1>9. CASE ReadUnlockTest(r)
  BY <1>9 DEF ReadUnlockTest
<1>10. CASE ReadUnlockWriters(r)
  BY <1>10 DEF ReadUnlockWriters, LockInv, WriteSemOwned
<1>11. CASE ReadUnlockRelease(r)
  BY <1>11 DEF ReadUnlockRelease, NextIteration, LockInv, ReadSemOwned
<1> QED BY <1>1, <1>2, <1>3, <1>4, <1>5, <1>6, <1>7, <1>8, <1>9, <1>10,
           <1>11 DEF Reader


LEMMA TypeWriter ==
  ASSUME TypeOK, LockInv, NEW w \in Writers, Writer(w)
  PROVE  TypeOK'
<1> USE ReaderWriterAssumption DEF TypeOK, Threads, Goto, Acquire, Release,
        ReaderLabels, WriterLabels, Writing
<1>1. CASE WriteLock(w)
  BY <1>1 DEF WriteLock
<1>2. CASE LoadValue(w)
  BY <1>2 DEF LoadValue
<1>3. CASE StoreValue(w)
  BY <1>3 DEF StoreValue
<1>4. CASE PrintWritten(w)
  BY <1>4 DEF PrintWritten
<1>5. CASE WriteUnlock(w)
  BY <1>5 DEF WriteUnlock, NextIteration, LockInv, WriteSemOwned
<1> QED BY <1>1, <1>2, <1>3, <1>4, <1>5 DEF Writer

-----------------------------------------------------------------------------
(* Who owns the semaphores.                                                *)

LEMMA LockInit == Init => LockInv
<1> SUFFICES ASSUME Init PROVE LockInv
  OBVIOUS
<1>1. /\ Counted = {} /\ HoldsReadSem = {} /\ InGroup = {} /\ Writing = {}
      /\ \A r \in Readers : pc[r] = "rl_acq"
  BY ReaderWriterAssumption
     DEF Init, Threads, Counted, HoldsReadSem, InGroup, Writing
<1> QED BY <1>1, FS_EmptySet
        DEF Init, LockInv, ReadersCounted, ReadSemOwned, WriteSemOwned, GroupEnds

\* What readers_ tells the reader that has just changed it and still holds
\* read_sem_: whether the others it counts are the rest of a group.
LEMMA FirstOrLast ==
  ASSUME TypeOK, LockInv, NEW r \in Readers
  PROVE  /\ pc[r] = "rl_test" /\ readers = 1 => Counted = {r}
         /\ pc[r] = "rl_test" /\ readers # 1 => InGroup # {}
         /\ pc[r] = "ru_test" /\ readers = 0 => Counted = {}
         /\ pc[r] = "ru_test" /\ readers # 0 => InGroup \ {r} # {}
<1> USE DEF LockInv, ReadersCounted
<1>1. IsFiniteSet(Counted)
  BY CountedFinite
<1>2. pc[r] \in {"rl_test", "ru_test"} => Counted \ {r} \subseteq InGroup
  BY DEF ReadSemOwned, HoldsReadSem, Counted, InGroup
<1>3. pc[r] = "rl_test" => r \in Counted
  BY DEF Counted
<1>4. pc[r] = "ru_test" => r \notin Counted
  BY DEF Counted
<1>5. readers = 1 => \E x : Counted = {x}
  BY <1>1, FS_Singleton
<1>6. readers # 1 => Counted # {r}
  BY FS_Singleton
<1>7. readers = 0 <=> Counted = {}
  BY <1>1, FS_EmptySet
<1> QED BY <1>2, <1>3, <1>4, <1>5, <1>6, <1>7

LEMMA LockReader ==
  ASSUME TypeOK, LockInv, NEW r \in Readers, Reader(r)
  PROVE  LockInv'
<1> USE DEF TypeOK, Threads, Goto, Acquire, Release, ReaderLabels, WriterLabels,
        LockInv, ReadSemOwned, WriteSemOwned, GroupEnds
<1>w. r \notin Writers
  BY ReaderWriterAssumption
<1>0. IsFiniteSet(Counted)
  BY CountedFinite
<1>1. CASE ReadLockAcquire(r)
  <2> USE <1>1 DEF ReadLockAcquire
  <2>1. /\ HoldsReadSem' = {r} /\ HoldsReadSem = {}
        /\ Counted' = Counted /\ InGroup' = InGroup /\ Writing' = Writing
    BY <1>w DEF HoldsReadSem, Counted, InGroup, Writing
  <2> QED BY <2>1 DEF ReadersCounted
<1>2. CASE ReadLockCount(r)
  <2> USE <1>2 DEF ReadLockCount
  <2>1. /\ Counted' = Counted \cup {r} /\ r \notin Counted
        /\ HoldsReadSem' = HoldsReadSem /\ r \in HoldsReadSem
        /\ InGroup' = InGroup /\ Writing' = Writing
    BY <1>w DEF HoldsReadSem, Counted, InGroup, Writing
  <2>2. ReadersCounted'
    BY <1>0, <2>1, FS_AddElement DEF ReadersCounted
  <2> QED BY <2>1, <2>2 DEF HoldsReadSem
<1>3. CASE ReadLockTest(r)
  <2> USE <1>3 DEF ReadLockTest
  <2>1. /\ Counted' = Counted
        /\ HoldsReadSem' = HoldsReadSem /\ r \in HoldsReadSem
        /\ InGroup' = IF readers = 1 THEN InGroup ELSE InGroup \cup {r}
        /\ Writing' = Writing
    BY <1>w DEF HoldsReadSem, Counted, InGroup, Writing
  <2>2. /\ readers = 1 => Counted = {r}
        /\ readers # 1 => InGroup # {}
    BY FirstOrLast
  <2> QED BY <2>1, <2>2 DEF ReadersCounted
<1>4. CASE ReadLockWait(r)
  <2> USE <1>4 DEF ReadLockWait
  <2>1. /\ Counted' = Counted
        /\ HoldsReadSem' = HoldsReadSem /\ r \in HoldsReadSem
        /\ InGroup = {} /\ InGroup' = {r}
        /\ Writing = {} /\ Writing' = {}
    BY <1>w DEF HoldsReadSem, Counted, InGroup, Writing
  <2> QED BY <2>1 DEF ReadersCounted
<1>5. CASE ReadLockRelease(r)
  <2> USE <1>5 DEF ReadLockRelease
  <2>1. /\ Counted' = Counted
        /\ HoldsReadSem' = {} /\ r \in HoldsReadSem
        /\ InGroup' = InGroup
        /\ Writing' = Writing
    BY <1>w DEF HoldsReadSem, Counted, InGroup, Writing
  <2> QED BY <2>1 DEF ReadersCounted
<1>6. CASE PrintValue(r)
  <2> USE <1>6 DEF PrintValue
  <2>1. /\ Counted' = Counted /\ HoldsReadSem' = HoldsReadSem
        /\ InGroup' = InGroup /\ Writing' = Writing
    BY <1>w DEF HoldsReadSem, Counted, InGroup, Writing
  <2> QED BY <2>1 DEF ReadersCounted
<1>7. CASE ReadUnlockAcquire(r)
  <2> USE <1>7 DEF ReadUnlockAcquire
  <2>1. /\ HoldsReadSem' = {r} /\ HoldsReadSem = {}
        /\ Counted' = Counted /\ InGroup' = InGroup /\ Writing' = Writing
    BY <1>w DEF HoldsReadSem, Counted, InGroup, Writing
  <2> QED BY <2>1 DEF ReadersCounted
<1>8. CASE ReadUnlockCount(r)
  <2> USE <1>8 DEF ReadUnlockCount
  <2>1. /\ Counted' = Counted \ {r} /\ r \in Counted
        /\ HoldsReadSem' = HoldsReadSem /\ r \in HoldsReadSem
        /\ InGroup' = InGroup /\ Writing' = Writing
    BY <1>w DEF HoldsReadSem, Counted, InGroup, Writing
  <2>2. ReadersCounted'
    BY <1>0, <2>1, FS_RemoveElement DEF ReadersCounted
  <2> QED BY <2>1, <2>2 DEF HoldsReadSem
<1>9. CASE ReadUnlockTest(r)
  <2> USE <1>9 DEF ReadUnlockTest
  <2>1. /\ Counted' = Counted
        /\ HoldsReadSem' = HoldsReadSem /\ r \in HoldsReadSem
        /\ InGroup' = IF readers = 0 THEN InGroup ELSE InGroup \ {r}
        /\ r \in InGroup
        /\ Writing' = Writing
    BY <1>w DEF HoldsReadSem, Counted, InGroup, Writing
  <2>2. /\ readers = 0 => Counted = {}
        /\ readers # 0 => InGroup \ {r} # {}
    BY FirstOrLast
  <2> QED BY <2>1, <2>2 DEF ReadersCounted
<1>10. CASE ReadUnlockWriters(r)
  <2> USE <1>10 DEF ReadUnlockWriters
  <2>1. /\ Counted' = Counted /\ Counted = {}
        /\ HoldsReadSem' = HoldsReadSem /\ HoldsReadSem = {r}
        /\ Writing' = Writing
    BY <1>w DEF HoldsReadSem, Counted, Writing
  <2>2. InGroup' = {} /\ r \in InGroup
    BY <2>1 DEF InGroup, Counted, HoldsReadSem
  <2> QED BY <2>1, <2>2 DEF ReadersCounted
<1>11. CASE ReadUnlockRelease(r)
  <2> USE <1>11 DEF ReadUnlockRelease
  <2>1. /\ Counted' = Counted
        /\ HoldsReadSem' = {} /\ r \in HoldsReadSem
        /\ InGroup' = InGroup
        /\ Writing' = Writing
    BY <1>w DEF HoldsReadSem, Counted, InGroup, Writing
  <2> QED BY <2>1 DEF ReadersCounted
<1> QED BY <1>1, <1>2, <1>3, <1>4, <1>5, <1>6, <1>7, <1>8, <1>9, <1>10,
           <1>11 DEF Reader


LEMMA LockWriter ==
  ASSUME TypeOK, LockInv, NEW w \in Writers, Writer(w)
  PROVE  LockInv'
<1> USE DEF TypeOK, Threads, Goto, Acquire, Release, ReaderLabels, WriterLabels,
        LockInv, ReadSemOwned, WriteSemOwned, GroupEnds
<1>1. /\ HoldsReadSem' = HoldsReadSem /\ Counted' = Counted
      /\ InGroup' = InGroup /\ read_sem' = read_sem /\ readers' = readers
      /\ \A r \in Readers : pc'[r] = pc[r]
  BY ReaderWriterAssumption
     DEF Writer, WriteLock, LoadValue, StoreValue, PrintWritten, WriteUnlock,
         HoldsReadSem, Counted, InGroup
<1>2. CASE WriteLock(w)
  <2>1. Writing = {} /\ Writing' = {w} /\ InGroup = {} /\ write_sem' = 0
    BY <1>2 DEF WriteLock, Writing
  <2> QED BY <1>1, <2>1 DEF ReadersCounted
<1>3. CASE LoadValue(w) \/ StoreValue(w) \/ PrintWritten(w)
  <2>1. Writing' = Writing /\ write_sem' = write_sem
    BY <1>3 DEF LoadValue, StoreValue, PrintWritten, Writing
  <2> QED BY <1>1, <2>1 DEF ReadersCounted
<1>4. CASE WriteUnlock(w)
  <2>1. Writing' = {} /\ w \in Writing /\ write_sem' = 1
    BY <1>4 DEF WriteUnlock, Writing
  <2> QED BY <1>1, <2>1 DEF ReadersCounted
<1> QED BY <1>2, <1>3, <1>4 DEF Writer

-----------------------------------------------------------------------------
(* value++.                                                                *)

\* A step of anyone but the writer that loads and stores keeps its register
\* fresh: it has the writers' semaphore in between.
LEMMA FreshStep ==
  ASSUME TypeOK, LockInv, FreshLoad, [Next]_vars
  PROVE  FreshLoad'
<1> USE ReaderWriterAssumption DEF TypeOK, Threads, FreshLoad, Goto
<1>1. ASSUME NEW r \in Readers, Reader(r) PROVE FreshLoad'
  BY <1>1 DEF Reader, ReadLockAcquire, ReadLockCount, ReadLockTest, ReadLockWait,
       ReadLockRelease, PrintValue, ReadUnlockAcquire, ReadUnlockCount,
       ReadUnlockTest, ReadUnlockWriters, ReadUnlockRelease
<1>2. ASSUME NEW w \in Writers, Writer(w) PROVE FreshLoad'
  <2>1. CASE StoreValue(w)
    BY <1>2, <2>1 DEF StoreValue, LockInv, WriteSemOwned, Writing
  <2>2. CASE ~StoreValue(w)
    BY <1>2, <2>2 DEF Writer, WriteLock, LoadValue, PrintWritten, WriteUnlock
  <2> QED BY <2>1, <2>2
<1>3. CASE UNCHANGED vars
  BY <1>3 DEF vars
<1> QED BY <1>1, <1>2, <1>3 DEF Next, Terminated

\* Adding one modulo m commutes with taking the remainder.
LEMMA SuccMod ==
  ASSUME NEW c \in Nat, NEW m \in Nat \ {0}
  PROVE  ((c % m) + 1) % m = (c + 1) % m
<1> DEFINE q == c \div m
           r == c % m
<1>1. q \in Nat /\ r \in 0..(m - 1)
  OBVIOUS
<1>2. c = m * q + r
  OBVIOUS
<1> HIDE DEF q, r
<1>3. CASE r + 1 < m
  <2>1. (m * q + (r + 1)) % m = r + 1
    BY <1>1, <1>3
  <2>2. (r + 1) % m = r + 1
    BY <1>1, <1>3
  <2>3. c + 1 = m * q + (r + 1)
    BY <1>1, <1>2
  <2> QED BY <2>1, <2>2, <2>3 DEF r
<1>4. CASE r + 1 = m
  <2>1. (m * (q + 1)) % m = 0
    BY <1>1
  <2>2. m % m = 0
    OBVIOUS
  <2>3. c + 1 = m * (q + 1)
    BY <1>1, <1>2, <1>4
  <2> QED BY <1>4, <2>1, <2>2, <2>3 DEF r
<1> QED BY <1>1, <1>3, <1>4

\* The writes made so far: writer w has made Writes(w) of them.
Writes(w) == i[w] + (IF pc[w] \in {"w_print", "wu_rel"} THEN 1 ELSE 0)
Written == {x \in Writers \X (0 .. NLoops - 1) : x[2] < Writes(x[1])}
NoLostUpdate == value = Cardinality(Written) % IntMod

LEMMA WrittenFinite == IsFiniteSet(Written) /\ Cardinality(Written) \in Nat
<1>1. NLoops - 1 \in Int /\ IsFiniteSet(Writers)
  BY ReaderWriterAssumption
<1>2. IsFiniteSet(0 .. NLoops - 1)
  BY <1>1, FS_Interval
<1>3. IsFiniteSet(Writers \X (0 .. NLoops - 1))
  BY <1>1, <1>2, FS_Product
<1> QED BY <1>3, FS_Subset, FS_CardinalityType DEF Written

LEMMA UpdateStep ==
  ASSUME ~Endless, TypeOK, LockInv, FreshLoad, NoLostUpdate, [Next]_vars
  PROVE  NoLostUpdate'
<1> USE ReaderWriterAssumption DEF TypeOK, Threads, Goto
<1>1. ASSUME value' = value, \A w \in Writers : Writes(w)' = Writes(w)
      PROVE  NoLostUpdate'
  BY <1>1 DEF NoLostUpdate, Written
<1>2. ASSUME NEW r \in Readers, Reader(r) PROVE NoLostUpdate'
  BY <1>1, <1>2 DEF Writes, NextIteration, Reader, ReadLockAcquire,
       ReadLockCount, ReadLockTest, ReadLockWait, ReadLockRelease, PrintValue,
       ReadUnlockAcquire, ReadUnlockCount, ReadUnlockTest, ReadUnlockWriters,
       ReadUnlockRelease
<1>3. ASSUME NEW w \in Writers, StoreValue(w) PROVE NoLostUpdate'
  <2> DEFINE c == Cardinality(Written)
  <2>1. i[w] \in 0 .. NLoops - 1 /\ Writes(w) = i[w]
    BY <1>3 DEF StoreValue, Writes
  <2>2. Writes(w)' = i[w] + 1 /\ \A v \in Writers \ {w} : Writes(v)' = Writes(v)
    BY <1>3 DEF StoreValue, Writes
  <2>3. /\ Written' = Written \cup {<<w, i[w]>>}
        /\ <<w, i[w]>> \notin Written
    BY <2>1, <2>2 DEF Written
  <2>4. Cardinality(Written') = c + 1
    BY <2>3, WrittenFinite, FS_AddElement
  <2>5. value' = (value + 1) % IntMod
    BY <1>3 DEF StoreValue, FreshLoad
  <2>6. value' = ((c % IntMod) + 1) % IntMod
    BY <2>5 DEF NoLostUpdate
  <2> QED BY <2>4, <2>6, WrittenFinite, SuccMod DEF NoLostUpdate
<1>4. ASSUME NEW w \in Writers, Writer(w), ~StoreValue(w) PROVE NoLostUpdate'
  BY <1>1, <1>4 DEF Writes, NextIteration, Writer, WriteLock, LoadValue,
       PrintWritten, WriteUnlock
<1>5. CASE UNCHANGED vars
  BY <1>1, <1>5 DEF vars, Writes
<1> QED BY <1>2, <1>3, <1>4, <1>5 DEF Next, Terminated

-----------------------------------------------------------------------------
(* The theorems.                                                           *)

\* What all of them follow from.
IInv == TypeOK /\ LockInv /\ FreshLoad

LEMMA Inductive == Spec => []IInv
<1>1. Init => IInv
  <2>1. Init => FreshLoad
    BY ReaderWriterAssumption DEF Init, FreshLoad, Threads
  <2> QED BY <2>1, TypeInit, LockInit DEF IInv
<1>2. IInv /\ [Next]_vars => IInv'
  <2> SUFFICES ASSUME TypeOK, LockInv, FreshLoad, [Next]_vars
               PROVE  TypeOK' /\ LockInv'
    BY FreshStep DEF IInv
  <2>1. ASSUME NEW r \in Readers, Reader(r) PROVE TypeOK' /\ LockInv'
    BY <2>1, TypeReader, LockReader
  <2>2. ASSUME NEW w \in Writers, Writer(w) PROVE TypeOK' /\ LockInv'
    BY <2>2, TypeWriter, LockWriter
  <2>3. CASE UNCHANGED vars
    BY <2>3 DEF vars, TypeOK, LockInv, ReadersCounted, ReadSemOwned,
                WriteSemOwned, GroupEnds, Counted, HoldsReadSem, InGroup, Writing
  <2> QED BY <2>1, <2>2, <2>3 DEF Next, Terminated
<1> QED BY <1>1, <1>2, PTL DEF Spec

\* Every semaphore counter stays in 0..1 and every thread at a statement of
\* its own: no release() of reader-writer.cpp breaks its precondition.
THEOREM TypeCorrect == Spec => []TypeOK
BY Inductive, PTL DEF IInv

\* A writer is alone between write_lock() and write_unlock().
THEOREM MutualExclusion == Spec => []Exclusion
<1>1. IInv => Exclusion
  BY DEF IInv, LockInv, WriteSemOwned, Exclusion, Reading, Writing, InGroup
<1> QED BY <1>1, Inductive, PTL

\* A finite run ends with value equal to the number of writes: the int wraps,
\* but no value++ is lost.
THEOREM NoUpdateLost == ASSUME ~Endless PROVE Spec => []FinalValue
<1>1. Init => NoLostUpdate
  <2> SUFFICES ASSUME Init PROVE NoLostUpdate
    OBVIOUS
  <2>1. Written = {}
    BY ReaderWriterAssumption DEF Init, Written, Writes, Threads
  <2> QED BY <2>1, ReaderWriterAssumption, FS_EmptySet DEF Init, NoLostUpdate
<1>2. IInv /\ NoLostUpdate /\ [Next]_vars => NoLostUpdate'
  BY UpdateStep DEF IInv
<1>3. IInv /\ NoLostUpdate => FinalValue
  <2> SUFFICES ASSUME IInv, NoLostUpdate, \A t \in Threads : Finished(t)
               PROVE  value = (Cardinality(Writers) * NLoops) % IntMod
    BY DEF FinalValue
  <2>1. \A w \in Writers : Writes(w) = NLoops
    BY ReaderWriterAssumption DEF IInv, TypeOK, Threads, Finished, Writes
  <2>2. Written = Writers \X (0 .. NLoops - 1)
    BY <2>1, ReaderWriterAssumption DEF Written
  <2>3. NLoops - 1 \in Int /\ IsFiniteSet(Writers)
    BY ReaderWriterAssumption
  <2>4. IsFiniteSet(0 .. NLoops - 1) /\ Cardinality(0 .. NLoops - 1) = NLoops
    BY <2>3, ReaderWriterAssumption, FS_Interval
  <2>5. Cardinality(Writers \X (0 .. NLoops - 1)) = Cardinality(Writers) * NLoops
    BY <2>3, <2>4, FS_Product
  <2> QED BY <2>2, <2>5 DEF NoLostUpdate
<1> QED BY <1>1, <1>2, <1>3, Inductive, PTL DEF Spec

\* reader-writer.cpp implements the abstract readers-writer lock.
THEOREM Refinement == Spec => Implements
<1> USE ReaderWriterAssumption
<1>1. Init => Abstract!Init
  BY DEF Init, Abstract!Init, Reading, Writing, Threads
<1>2. IInv /\ [Next]_vars => [Abstract!Next]_(Abstract!vars)
  <2> SUFFICES ASSUME IInv, [Next]_vars
               PROVE  Abstract!Next \/ UNCHANGED <<Reading, Writing, value>>
    BY DEF Abstract!vars
  <2> USE DEF IInv, TypeOK, Threads, Goto, Acquire, Release
  <2>1. ASSUME NEW r \in Readers, ReadLockRelease(r)
        PROVE  Abstract!BeginRead(r)
    BY <2>1 DEF ReadLockRelease, LockInv, WriteSemOwned, InGroup, Reading,
                Writing, Abstract!BeginRead
  <2>2. ASSUME NEW r \in Readers, ReadUnlockAcquire(r)
        PROVE  Abstract!EndRead(r)
    BY <2>2 DEF ReadUnlockAcquire, Reading, Writing, Abstract!EndRead
  <2>3. ASSUME NEW r \in Readers, Reader(r), ~ReadLockRelease(r),
               ~ReadUnlockAcquire(r)
        PROVE  UNCHANGED <<Reading, Writing, value>>
    BY <2>3 DEF Reader, ReadLockAcquire, ReadLockCount, ReadLockTest,
         ReadLockWait, PrintValue, ReadUnlockCount, ReadUnlockTest,
         ReadUnlockWriters, ReadUnlockRelease, Reading, Writing
  <2>4. ASSUME NEW w \in Writers, WriteLock(w) PROVE Abstract!BeginWrite(w)
    BY <2>4 DEF WriteLock, LockInv, WriteSemOwned, InGroup, Reading, Writing,
                Abstract!BeginWrite
  <2>5. ASSUME NEW w \in Writers, StoreValue(w) PROVE Abstract!Write(w)
    BY <2>5 DEF StoreValue, FreshLoad, Reading, Writing, Abstract!Write
  <2>6. ASSUME NEW w \in Writers, WriteUnlock(w) PROVE Abstract!EndWrite(w)
    BY <2>6 DEF WriteUnlock, LockInv, WriteSemOwned, Reading, Writing,
                Abstract!EndWrite
  <2>7. ASSUME NEW w \in Writers, LoadValue(w) \/ PrintWritten(w)
        PROVE  UNCHANGED <<Reading, Writing, value>>
    BY <2>7 DEF LoadValue, PrintWritten, Reading, Writing
  <2>8. CASE UNCHANGED vars
    BY <2>8 DEF vars, Reading, Writing
  <2> QED BY <2>1, <2>2, <2>3, <2>4, <2>5, <2>6, <2>7, <2>8
          DEF Next, Writer, Terminated, Abstract!Next
<1> QED BY <1>1, <1>2, Inductive, PTL DEF Spec, Implements, Abstract!Spec

=============================================================================

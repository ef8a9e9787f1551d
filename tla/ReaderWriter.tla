--------------------------- MODULE ReaderWriter ---------------------------
(***************************************************************************)
(* hw31-threads-sema/src/reader-writer.cpp: a readers-writer lock built    *)
(* from two semaphores, and the reader and writer threads that use it.     *)
(*                                                                         *)
(* A thread is at the statement named by pc[t]; every access to a shared   *)
(* variable or semaphore is a step of its own, so that nothing is atomic   *)
(* that the C++ does not make atomic.  `value++` is a load and a store.    *)
(***************************************************************************)
EXTENDS Semaphores, FiniteSets

CONSTANTS
  Readers,   \* threads that run reader()
  Writers,   \* threads that run writer()
  NLoops,    \* nloops: iterations of each thread
  Endless,   \* TRUE: nloops is too large for the end to matter
  IntMod     \* `value` is an int: it wraps at IntMod

ASSUME ReaderWriterAssumption ==
  /\ IsFiniteSet(Readers) /\ IsFiniteSet(Writers)
  /\ Readers \cap Writers = {}
  /\ NLoops \in Nat
  /\ Endless \in BOOLEAN
  /\ IntMod \in Nat \ {0}

VARIABLES
  pc,         \* the next statement of each thread
  i,          \* loop counter of each thread
  read_sem,   \* RWLock.read_sem_
  write_sem,  \* RWLock.write_sem_
  readers,    \* RWLock.readers_
  value,      \* the global `value`
  tmp         \* the register of a writer between the load and store of value++

vars == <<pc, i, read_sem, write_sem, readers, value, tmp>>

Threads == Readers \cup Writers

ReaderLabels == {"rl_acq", "rl_inc", "rl_test", "rl_wait", "rl_rel", "print",
                 "ru_acq", "ru_dec", "ru_test", "ru_wrel", "ru_rel"}
WriterLabels == {"wl_acq", "w_load", "w_store", "w_print", "wu_rel"}

Init ==
  /\ pc = [t \in Threads |-> IF t \in Readers THEN "rl_acq" ELSE "wl_acq"]
  /\ i = [t \in Threads |-> 0]
  /\ read_sem = 1 /\ write_sem = 1 /\ readers = 0
  /\ value = 0
  /\ tmp = [w \in Writers |-> 0]

Goto(t, from, to) == pc[t] = from /\ pc' = [pc EXCEPT ![t] = to]

NextIteration(t) == i' = IF Endless THEN i ELSE [i EXCEPT ![t] = @ + 1]

-----------------------------------------------------------------------------
(* reader(): read_lock(), the print of value, read_unlock().               *)

ReadLockAcquire(r) ==
  /\ i[r] < NLoops
  /\ Goto(r, "rl_acq", "rl_inc")
  /\ Acquire(read_sem)
  /\ UNCHANGED <<i, write_sem, readers, value, tmp>>

ReadLockCount(r) ==
  /\ Goto(r, "rl_inc", "rl_test")
  /\ readers' = readers + 1
  /\ UNCHANGED <<i, read_sem, write_sem, value, tmp>>

\* The first reader locks the writers out for the whole group.
ReadLockTest(r) ==
  /\ Goto(r, "rl_test", IF readers = 1 THEN "rl_wait" ELSE "rl_rel")
  /\ UNCHANGED <<i, read_sem, write_sem, readers, value, tmp>>

ReadLockWait(r) ==
  /\ Goto(r, "rl_wait", "rl_rel")
  /\ Acquire(write_sem)
  /\ UNCHANGED <<i, read_sem, readers, value, tmp>>

ReadLockRelease(r) ==
  /\ Goto(r, "rl_rel", "print")
  /\ Release(read_sem)
  /\ UNCHANGED <<i, write_sem, readers, value, tmp>>

PrintValue(r) ==
  /\ Goto(r, "print", "ru_acq")
  /\ UNCHANGED <<i, read_sem, write_sem, readers, value, tmp>>

ReadUnlockAcquire(r) ==
  /\ Goto(r, "ru_acq", "ru_dec")
  /\ Acquire(read_sem)
  /\ UNCHANGED <<i, write_sem, readers, value, tmp>>

ReadUnlockCount(r) ==
  /\ Goto(r, "ru_dec", "ru_test")
  /\ readers' = readers - 1
  /\ UNCHANGED <<i, read_sem, write_sem, value, tmp>>

\* Mutant of ReadUnlockTest: every leaving reader lets the writers in.
ReadUnlockTestAlways(r) ==
  /\ Goto(r, "ru_test", "ru_wrel")
  /\ UNCHANGED <<i, read_sem, write_sem, readers, value, tmp>>

\* Mutant of ReadUnlockTest: the last reader forgets the writers.
ReadUnlockTestNever(r) ==
  /\ Goto(r, "ru_test", "ru_rel")
  /\ UNCHANGED <<i, read_sem, write_sem, readers, value, tmp>>

\* The last reader lets the writers in.
ReadUnlockTest(r) ==
  /\ Goto(r, "ru_test", IF readers = 0 THEN "ru_wrel" ELSE "ru_rel")
  /\ UNCHANGED <<i, read_sem, write_sem, readers, value, tmp>>

ReadUnlockWriters(r) ==
  /\ Goto(r, "ru_wrel", "ru_rel")
  /\ Release(write_sem)
  /\ UNCHANGED <<i, read_sem, readers, value, tmp>>

ReadUnlockRelease(r) ==
  /\ Goto(r, "ru_rel", "rl_acq")
  /\ Release(read_sem)
  /\ NextIteration(r)
  /\ UNCHANGED <<write_sem, readers, value, tmp>>

Reader(r) ==
  \/ ReadLockAcquire(r) \/ ReadLockCount(r) \/ ReadLockTest(r)
  \/ ReadLockWait(r) \/ ReadLockRelease(r) \/ PrintValue(r)
  \/ ReadUnlockAcquire(r) \/ ReadUnlockCount(r) \/ ReadUnlockTest(r)
  \/ ReadUnlockWriters(r) \/ ReadUnlockRelease(r)

-----------------------------------------------------------------------------
(* writer(): write_lock(), value++, write_unlock().                        *)

\* Mutant of WriteLock: the writer does not wait for the semaphore.
WriteLockUnguarded(w) ==
  /\ i[w] < NLoops
  /\ Goto(w, "wl_acq", "w_load")
  /\ UNCHANGED <<i, read_sem, write_sem, readers, value, tmp>>

WriteLock(w) ==
  /\ i[w] < NLoops
  /\ Goto(w, "wl_acq", "w_load")
  /\ Acquire(write_sem)
  /\ UNCHANGED <<i, read_sem, readers, value, tmp>>

LoadValue(w) ==
  /\ Goto(w, "w_load", "w_store")
  /\ tmp' = [tmp EXCEPT ![w] = value]
  /\ UNCHANGED <<i, read_sem, write_sem, readers, value>>

StoreValue(w) ==
  /\ Goto(w, "w_store", "w_print")
  /\ value' = (tmp[w] + 1) % IntMod
  /\ UNCHANGED <<i, read_sem, write_sem, readers, tmp>>

PrintWritten(w) ==
  /\ Goto(w, "w_print", "wu_rel")
  /\ UNCHANGED <<i, read_sem, write_sem, readers, value, tmp>>

WriteUnlock(w) ==
  /\ Goto(w, "wu_rel", "wl_acq")
  /\ Release(write_sem)
  /\ NextIteration(w)
  /\ UNCHANGED <<read_sem, readers, value, tmp>>

Writer(w) ==
  \/ WriteLock(w) \/ LoadValue(w) \/ StoreValue(w) \/ PrintWritten(w)
  \/ WriteUnlock(w)

-----------------------------------------------------------------------------
(* main() joins every thread.                                              *)

Finished(t) == i[t] = NLoops

Terminated == (\A t \in Threads : Finished(t)) /\ UNCHANGED vars

Next ==
  \/ \E r \in Readers : Reader(r)
  \/ \E w \in Writers : Writer(w)
  \/ Terminated

Spec == Init /\ [][Next]_vars

\* The operating system never stops scheduling a thread that can run.
Fairness ==
  /\ \A r \in Readers : WF_vars(Reader(r))
  /\ \A w \in Writers : WF_vars(Writer(w))

FairSpec == Spec /\ Fairness

-----------------------------------------------------------------------------
(* Properties.                                                             *)

\* Both semaphores stay in 0..1: no release() ever breaks its precondition
\* (reader-writer.cpp:17, 24, 26, 34), whatever thread releases them.
TypeOK ==
  /\ pc \in [Threads -> ReaderLabels \cup WriterLabels]
  /\ \A r \in Readers : pc[r] \in ReaderLabels
  /\ \A w \in Writers : pc[w] \in WriterLabels
  /\ i \in [Threads -> 0..NLoops]
  /\ \A t \in Threads : pc[t] \in {"rl_acq", "wl_acq"} \/ i[t] < NLoops
  /\ read_sem \in 0..1 /\ write_sem \in 0..1
  /\ readers \in Nat
  /\ value \in 0..(IntMod - 1)
  /\ tmp \in [Writers -> 0..(IntMod - 1)]

\* A reader counted in readers_, a reader that holds the lock, a thread that
\* holds read_sem_, and a thread that has the writers locked out.
Counted == {r \in Readers : pc[r] \in
             {"rl_test", "rl_wait", "rl_rel", "print", "ru_acq", "ru_dec"}}
Reading == {r \in Readers : pc[r] \in {"print", "ru_acq"}}
Writing == {w \in Writers : pc[w] \in
             {"w_load", "w_store", "w_print", "wu_rel"}}
HoldsReadSem == {r \in Readers : pc[r] \in
                  {"rl_inc", "rl_test", "rl_wait", "rl_rel",
                   "ru_dec", "ru_test", "ru_wrel", "ru_rel"}}
InGroup == {r \in Readers : pc[r] \in
             {"rl_rel", "print", "ru_acq", "ru_dec", "ru_test", "ru_wrel"}}

\* A writer is alone between write_lock() and write_unlock()
\* (reader-writer.cpp:29-35): no second writer, and no reader between
\* read_lock() and read_unlock().
Exclusion ==
  \A w \in Writing : Reading = {} /\ Writing = {w}

\* readers_ counts the readers inside, although it is updated in two places
\* under a semaphore that is released in between (reader-writer.cpp:12-27).
ReadersCounted == readers = Cardinality(Counted)

\* Each semaphore is down exactly while somebody has it, and read_sem_ has one
\* holder.  write_sem_ has a writer or the whole group of readers: the reader
\* that took it need not be the one that gives it back.
ReadSemOwned ==
  /\ \A r, s \in HoldsReadSem : r = s
  /\ read_sem = 0 <=> HoldsReadSem # {}
WriteSemOwned ==
  /\ \A v, w \in Writing : v = w
  /\ Writing # {} => InGroup = {}
  /\ write_sem = 0 <=> Writing # {} \/ InGroup # {}

\* The reader that waits for the writers is the only one counted, and the one
\* that lets them in leaves no reader behind.
GroupEnds ==
  \A r \in Readers : /\ pc[r] = "rl_wait" => Counted = {r}
                     /\ pc[r] = "ru_wrel" => Counted = {}

\* What makes Exclusion inductive: who owns each semaphore, and that readers_
\* finds the first and the last reader of a group (reader-writer.cpp:11-27).
LockInv == ReadersCounted /\ ReadSemOwned /\ WriteSemOwned /\ GroupEnds

\* The register of a writer that is about to store holds the current value:
\* nobody wrote since it was loaded (reader-writer.cpp:56).
FreshLoad == \A w \in Writers : pc[w] = "w_store" => tmp[w] = value

\* value++ (reader-writer.cpp:56) loses no update: when every writer has
\* returned, value is the number of iterations they made.
FinalValue ==
  (\A t \in Threads : Finished(t)) =>
     value = (Cardinality(Writers) * NLoops) % IntMod

\* Every thread returns and main()'s joins (reader-writer.cpp:80-82) end.
Termination == <>(\A t \in Threads : Finished(t))

\* The lock keeps the promise of RWLockSpec.
Abstract == INSTANCE RWLockSpec WITH reading <- Reading, writing <- Writing
Implements == Abstract!Spec

=============================================================================

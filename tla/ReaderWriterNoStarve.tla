----------------------- MODULE ReaderWriterNoStarve -----------------------
(***************************************************************************)
(* hw31-threads-sema/src/reader-writer-nostarve.cpp: the lock of           *)
(* ReaderWriter behind a third semaphore, order_sem_, that every reader    *)
(* and writer takes first, so that readers that come after a waiting       *)
(* writer queue up behind it.                                              *)
(***************************************************************************)
EXTENDS Semaphores, FiniteSets

CONSTANTS
  Readers,   \* threads that run reader()
  Writers,   \* threads that run writer()
  NLoops,    \* nloops: iterations of each thread
  Endless,   \* TRUE: nloops is too large for the end to matter
  IntMod     \* `value` is an int: it wraps at IntMod

ASSUME NoStarveAssumption ==
  /\ IsFiniteSet(Readers) /\ IsFiniteSet(Writers)
  /\ Readers \cap Writers = {}
  /\ NLoops \in Nat
  /\ Endless \in BOOLEAN
  /\ IntMod \in Nat \ {0}

VARIABLES
  pc,         \* the next statement of each thread
  i,          \* loop counter of each thread
  read_sem,   \* RWLock.read_sem_
  write_sem,  \* RWLock.write_sem_
  order_sem,  \* RWLock.order_sem_
  readers,    \* RWLock.readers_
  value,      \* the global `value`
  tmp         \* the register of a writer between the load and store of value++

vars == <<pc, i, read_sem, write_sem, order_sem, readers, value, tmp>>

Threads == Readers \cup Writers

ReaderLabels == {"rl_order", "rl_acq", "rl_inc", "rl_test", "rl_wait",
                 "rl_rel", "rl_orel", "print", "ru_acq", "ru_dec", "ru_test",
                 "ru_wrel", "ru_rel"}
WriterLabels == {"wl_order", "wl_acq", "wl_orel", "w_load", "w_store",
                 "w_print", "wu_rel"}

Init ==
  /\ pc = [t \in Threads |-> IF t \in Readers THEN "rl_order" ELSE "wl_order"]
  /\ i = [t \in Threads |-> 0]
  /\ read_sem = 1 /\ write_sem = 1 /\ order_sem = 1 /\ readers = 0
  /\ value = 0
  /\ tmp = [w \in Writers |-> 0]

Goto(t, from, to) == pc[t] = from /\ pc' = [pc EXCEPT ![t] = to]

NextIteration(t) == i' = IF Endless THEN i ELSE [i EXCEPT ![t] = @ + 1]

-----------------------------------------------------------------------------
(* reader(): read_lock(), the print of value, read_unlock().               *)

\* Mutant of ReadLockOrder: readers do not queue behind a waiting writer.
ReadLockOrderNever(r) ==
  /\ i[r] < NLoops
  /\ Goto(r, "rl_order", "rl_acq")
  /\ UNCHANGED <<i, read_sem, write_sem, order_sem, readers, value, tmp>>

ReadLockOrder(r) ==
  /\ i[r] < NLoops
  /\ Goto(r, "rl_order", "rl_acq")
  /\ Acquire(order_sem)
  /\ UNCHANGED <<i, read_sem, write_sem, readers, value, tmp>>

ReadLockAcquire(r) ==
  /\ Goto(r, "rl_acq", "rl_inc")
  /\ Acquire(read_sem)
  /\ UNCHANGED <<i, write_sem, order_sem, readers, value, tmp>>

ReadLockCount(r) ==
  /\ Goto(r, "rl_inc", "rl_test")
  /\ readers' = readers + 1
  /\ UNCHANGED <<i, read_sem, write_sem, order_sem, value, tmp>>

\* Mutant of ReadLockTest: the first reader does not lock the writers out.
ReadLockTestNever(r) ==
  /\ Goto(r, "rl_test", "rl_rel")
  /\ UNCHANGED <<i, read_sem, write_sem, order_sem, readers, value, tmp>>

ReadLockTest(r) ==
  /\ Goto(r, "rl_test", IF readers = 1 THEN "rl_wait" ELSE "rl_rel")
  /\ UNCHANGED <<i, read_sem, write_sem, order_sem, readers, value, tmp>>

ReadLockWait(r) ==
  /\ Goto(r, "rl_wait", "rl_rel")
  /\ Acquire(write_sem)
  /\ UNCHANGED <<i, read_sem, order_sem, readers, value, tmp>>

ReadLockRelease(r) ==
  /\ Goto(r, "rl_rel", "rl_orel")
  /\ Release(read_sem)
  /\ UNCHANGED <<i, write_sem, order_sem, readers, value, tmp>>

ReadLockOrderRelease(r) ==
  /\ Goto(r, "rl_orel", "print")
  /\ Release(order_sem)
  /\ UNCHANGED <<i, read_sem, write_sem, readers, value, tmp>>

PrintValue(r) ==
  /\ Goto(r, "print", "ru_acq")
  /\ UNCHANGED <<i, read_sem, write_sem, order_sem, readers, value, tmp>>

ReadUnlockAcquire(r) ==
  /\ Goto(r, "ru_acq", "ru_dec")
  /\ Acquire(read_sem)
  /\ UNCHANGED <<i, write_sem, order_sem, readers, value, tmp>>

ReadUnlockCount(r) ==
  /\ Goto(r, "ru_dec", "ru_test")
  /\ readers' = readers - 1
  /\ UNCHANGED <<i, read_sem, write_sem, order_sem, value, tmp>>

ReadUnlockTest(r) ==
  /\ Goto(r, "ru_test", IF readers = 0 THEN "ru_wrel" ELSE "ru_rel")
  /\ UNCHANGED <<i, read_sem, write_sem, order_sem, readers, value, tmp>>

ReadUnlockWriters(r) ==
  /\ Goto(r, "ru_wrel", "ru_rel")
  /\ Release(write_sem)
  /\ UNCHANGED <<i, read_sem, order_sem, readers, value, tmp>>

ReadUnlockRelease(r) ==
  /\ Goto(r, "ru_rel", "rl_order")
  /\ Release(read_sem)
  /\ NextIteration(r)
  /\ UNCHANGED <<write_sem, order_sem, readers, value, tmp>>

Reader(r) ==
  \/ ReadLockOrder(r) \/ ReadLockAcquire(r) \/ ReadLockCount(r)
  \/ ReadLockTest(r) \/ ReadLockWait(r) \/ ReadLockRelease(r)
  \/ ReadLockOrderRelease(r) \/ PrintValue(r) \/ ReadUnlockAcquire(r)
  \/ ReadUnlockCount(r) \/ ReadUnlockTest(r) \/ ReadUnlockWriters(r)
  \/ ReadUnlockRelease(r)

-----------------------------------------------------------------------------
(* writer(): write_lock(), value++, the print of value, write_unlock().    *)

WriteLockOrder(w) ==
  /\ i[w] < NLoops
  /\ Goto(w, "wl_order", "wl_acq")
  /\ Acquire(order_sem)
  /\ UNCHANGED <<i, read_sem, write_sem, readers, value, tmp>>

WriteLockAcquire(w) ==
  /\ Goto(w, "wl_acq", "wl_orel")
  /\ Acquire(write_sem)
  /\ UNCHANGED <<i, read_sem, order_sem, readers, value, tmp>>

WriteLockOrderRelease(w) ==
  /\ Goto(w, "wl_orel", "w_load")
  /\ Release(order_sem)
  /\ UNCHANGED <<i, read_sem, write_sem, readers, value, tmp>>

LoadValue(w) ==
  /\ Goto(w, "w_load", "w_store")
  /\ tmp' = [tmp EXCEPT ![w] = value]
  /\ UNCHANGED <<i, read_sem, write_sem, order_sem, readers, value>>

StoreValue(w) ==
  /\ Goto(w, "w_store", "w_print")
  /\ value' = (tmp[w] + 1) % IntMod
  /\ UNCHANGED <<i, read_sem, write_sem, order_sem, readers, tmp>>

PrintWritten(w) ==
  /\ Goto(w, "w_print", "wu_rel")
  /\ UNCHANGED <<i, read_sem, write_sem, order_sem, readers, value, tmp>>

WriteUnlock(w) ==
  /\ Goto(w, "wu_rel", "wl_order")
  /\ Release(write_sem)
  /\ NextIteration(w)
  /\ UNCHANGED <<read_sem, order_sem, readers, value, tmp>>

Writer(w) ==
  \/ WriteLockOrder(w) \/ WriteLockAcquire(w) \/ WriteLockOrderRelease(w)
  \/ LoadValue(w) \/ StoreValue(w) \/ PrintWritten(w) \/ WriteUnlock(w)

-----------------------------------------------------------------------------
(* main() starts the threads and joins them: it takes no part.              *)

Next ==
  \/ \E r \in Readers : Reader(r)
  \/ \E w \in Writers : Writer(w)

Spec == Init /\ [][Next]_vars

\* The operating system never stops scheduling a thread that can run.
Fairness ==
  /\ \A r \in Readers : WF_vars(Reader(r))
  /\ \A w \in Writers : WF_vars(Writer(w))

FairSpec == Spec /\ Fairness

\* In addition, no thread is passed over for ever by the threads that take
\* the same semaphore: the least a semaphore must give for any lock built
\* on it to be free of starvation.
SemaphoreFairness ==
  /\ \A r \in Readers : SF_vars(ReadLockOrder(r)) /\ SF_vars(ReadLockAcquire(r))
                          /\ SF_vars(ReadUnlockAcquire(r))
  /\ \A w \in Writers : SF_vars(WriteLockOrder(w))

-----------------------------------------------------------------------------
(* Properties.                                                             *)

\* The three semaphores stay in 0..1: no release() breaks its precondition.
TypeOK ==
  /\ pc \in [Threads -> ReaderLabels \cup WriterLabels]
  /\ \A r \in Readers : pc[r] \in ReaderLabels
  /\ \A w \in Writers : pc[w] \in WriterLabels
  /\ i \in [Threads -> 0..NLoops]
  /\ \A t \in Threads : pc[t] \in {"rl_order", "wl_order"} \/ i[t] < NLoops
  /\ read_sem \in 0..1 /\ write_sem \in 0..1 /\ order_sem \in 0..1
  /\ readers \in Nat
  /\ value \in 0..(IntMod - 1)
  /\ tmp \in [Writers -> 0..(IntMod - 1)]

\* order_sem_ is down exactly while one thread has its turn.
Ordered == {r \in Readers : pc[r] \in {"rl_acq", "rl_inc", "rl_test", "rl_wait",
                                     "rl_rel", "rl_orel"}}
             \cup {w \in Writers : pc[w] \in {"wl_acq", "wl_orel"}}
OrderOwned ==
  /\ \A s, t \in Ordered : s = t
  /\ order_sem = 0 <=> Ordered # {}

\* While a writer that has its turn waits for the lock, readers only leave
\* (reader-writer-nostarve.cpp:31-35): nobody is let in ahead of it.
NoOvertaking ==
  [][\A w \in Writers : pc[w] = "wl_acq" => readers' <= readers]_vars

\* With its turn taken, a writer gets the lock although readers come back for
\* ever, and nothing but running threads is needed for it: this is what
\* order_sem_ is for (reader-writer-nostarve.cpp:31-35).
WriterServed ==
  \A w \in Writers : pc[w] = "wl_acq" ~> pc[w] = "wl_orel"

\* Every thread that asks for the lock gets it, again and again.
AllServed ==
  /\ \A w \in Writers : []<>(pc[w] = "w_load")
  /\ \A r \in Readers : []<>(pc[r] = "print")

\* "How can you ensure that all readers and writers eventually make progress?"
\* (manual.md): a waiting writer does under any scheduler, everybody does if
\* the semaphores pass nobody over for ever.
Progress == WriterServed /\ (SemaphoreFairness => AllServed)

\* The order semaphore adds waiting and nothing else: without it the lock is
\* that of ReaderWriter, label by label.
PlainLabel(l) ==
  CASE l = "rl_order" -> "rl_acq"
    [] l = "rl_orel" -> "print"
    [] l = "wl_order" -> "wl_acq"
    [] l = "wl_orel" -> "w_load"
    [] OTHER -> l
PlainPc == [t \in Threads |-> PlainLabel(pc[t])]
Plain == INSTANCE ReaderWriter WITH pc <- PlainPc
Implements == Plain!Spec

=============================================================================

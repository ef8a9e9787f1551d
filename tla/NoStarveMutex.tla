--------------------------- MODULE NoStarveMutex ---------------------------
(***************************************************************************)
(* hw31-threads-sema/src/mutex-nostarve.cpp: a mutex whose unlock() waits  *)
(* on a std::barrier for all the other threads to have had their turn, the *)
(* workers that take turns with it, and the main() that starts them while  *)
(* the vector they count in is still growing.                              *)
(*                                                                         *)
(* main() and the workers race on `counters`: push_back may move the       *)
(* elements to another buffer while a worker that already runs increments  *)
(* its own.  A store to the old buffer is lost, whether it comes after the *)
(* element was copied or after the buffer was freed; what the worker       *)
(* loaded is lost with it.  Other damage that a write to freed memory can  *)
(* do is not modelled.                                                     *)
(***************************************************************************)
EXTENDS Semaphores, Sequences, FiniteSets

CONSTANTS
  NThreads,  \* nthreads
  NLoops,    \* nloops, the turns the workers share
  Endings,   \* which `endless` to choose from
  IntMod     \* an element of counters is an int: it wraps at IntMod

\* nloops is an int, too (mutex-nostarve.cpp:29).
ASSUME MutexAssumption ==
  /\ NThreads \in Nat \ {0}
  /\ IntMod \in Nat \ {0, 1}
  /\ NLoops \in 0 .. IntMod - 1
  /\ Endings \in SUBSET BOOLEAN

VARIABLES
  endless,   \* nloops is too large for the end to matter
  main,      \* the next statement of main()
  pc,        \* the next statement of each worker
  leaving,   \* workers that have found nloops at 0
  sem,       \* Mutex.sem_
  expected,  \* Mutex.barrier_: threads of a phase,
  pending,   \*   arrivals that the current phase lacks,
  waiting,   \*   threads that wait for it to end
  nloops,    \* the global nloops
  counters,  \* the global vector; worker t counts in counters[t]
  capacity,  \* its capacity()
  fresh,     \* the buffer that push_back is about to install
  stale,     \* workers that hold the address of a freed buffer
  tmp,       \* the register of a worker in counters[id]++
  turns      \* history: the times each worker has decremented nloops

mutexVars == <<sem, expected, pending, waiting>>
vectorVars == <<counters, capacity, fresh, stale>>
vars == <<endless, main, pc, leaving, mutexVars, nloops, vectorVars, tmp, turns>>

Threads == 1 .. NThreads   \* worker(id) is thread id + 1

Init ==
  /\ endless \in Endings
  /\ main = "push"
  /\ pc = [t \in Threads |-> "unborn"]
  /\ leaving = {}
  /\ sem = 1
  /\ expected = NThreads /\ pending = NThreads /\ waiting = {}
  /\ nloops = NLoops
  /\ counters = <<>> /\ capacity = 0 /\ fresh = <<>> /\ stale = {}
  /\ tmp = [t \in Threads |-> 0]
  /\ turns = [t \in Threads |-> 0]

Goto(t, from, to) == pc[t] = from /\ pc' = [pc EXCEPT ![t] = to]

-----------------------------------------------------------------------------
(* main(): for every thread a push_back and an emplace_back, then joins.   *)

\* push_back(0) with room left.
Push ==
  /\ main = "push" /\ Len(counters) < capacity
  /\ main' = "spawn"
  /\ counters' = Append(counters, 0)
  /\ UNCHANGED <<endless, pc, leaving, mutexVars, nloops, capacity, fresh,
                 stale, tmp, turns>>

\* push_back(0) without room: a copy into a new buffer, ...
Copy ==
  /\ main = "push" /\ Len(counters) = capacity
  /\ main' = "install"
  /\ fresh' = Append(counters, 0)
  /\ UNCHANGED <<endless, pc, leaving, mutexVars, nloops, counters, capacity,
                 stale, tmp, turns>>

\* ... which then takes the place of the old one.
Install ==
  /\ main = "install"
  /\ main' = "spawn"
  /\ counters' = fresh
  /\ capacity' = IF capacity = 0 THEN 1 ELSE 2 * capacity
  /\ fresh' = <<>>
  /\ stale' = {t \in Threads : pc[t] = "store"}
  /\ UNCHANGED <<endless, pc, leaving, mutexVars, nloops, tmp, turns>>

Spawn ==
  /\ main = "spawn"
  /\ main' = IF Len(counters) = NThreads THEN "join" ELSE "push"
  /\ pc' = [pc EXCEPT ![Len(counters)] = "lock"]
  /\ UNCHANGED <<endless, leaving, mutexVars, nloops, vectorVars, tmp, turns>>

Main == Push \/ Copy \/ Install \/ Spawn

-----------------------------------------------------------------------------
(* worker(): lock(), one turn and unlock() until nloops is 0, then         *)
(* unlock() and drop().                                                    *)

\* Mutant of Lock: the semaphore is not taken.
LockNever(t) ==
  /\ Goto(t, "lock", "while")
  /\ UNCHANGED <<endless, main, leaving, mutexVars, nloops, vectorVars, tmp,
                 turns>>

Lock(t) ==
  /\ Goto(t, "lock", "while")
  /\ Acquire(sem)
  /\ UNCHANGED <<endless, main, leaving, expected, pending, waiting, nloops,
                 vectorVars,
                 tmp, turns>>

While(t) ==
  /\ Goto(t, "while", IF nloops > 0 THEN "load" ELSE "release")
  /\ leaving' = IF nloops > 0 THEN leaving ELSE leaving \cup {t}
  /\ UNCHANGED <<endless, main, mutexVars, nloops, vectorVars, tmp, turns>>

\* counters[id]++ takes the address of the element and its value, ...
LoadCounter(t) ==
  /\ Goto(t, "load", "store")
  /\ tmp' = [tmp EXCEPT ![t] = counters[t]]
  /\ UNCHANGED <<endless, main, leaving, mutexVars, nloops, vectorVars, turns>>

\* ... and stores through that address, even if the vector has moved.
StoreCounter(t) ==
  /\ Goto(t, "store", "dec")
  /\ counters' = IF t \in stale THEN counters
                 ELSE [counters EXCEPT ![t] = (tmp[t] + 1) % IntMod]
  /\ stale' = stale \ {t}
  /\ UNCHANGED <<endless, main, leaving, mutexVars, nloops, capacity, fresh,
                 tmp, turns>>

DecrementLoops(t) ==
  /\ Goto(t, "dec", "release")
  /\ IF endless THEN UNCHANGED <<endless, nloops, turns>>
     ELSE /\ nloops' = nloops - 1
          /\ turns' = [turns EXCEPT ![t] = @ + 1]
  /\ UNCHANGED <<endless, main, leaving, mutexVars, vectorVars, tmp>>

UnlockRelease(t) ==
  /\ Goto(t, "release", "arrive")
  /\ Release(sem)
  /\ UNCHANGED <<endless, main, leaving, expected, pending, waiting, nloops,
                 vectorVars,
                 tmp, turns>>

\* Mutant of UnlockArrive: a plain mutex, without the barrier.
UnlockArriveNever(t) ==
  /\ Goto(t, "arrive", "wait")
  /\ UNCHANGED <<endless, main, leaving, mutexVars, nloops, vectorVars, tmp,
                 turns>>

\* Mutant of UnlockArrive: the phase ends one arrival early.
UnlockArriveEarly(t) ==
  /\ Goto(t, "arrive", "wait")
  /\ IF pending <= 2
     THEN pending' = expected /\ waiting' = {}
     ELSE pending' = pending - 1 /\ waiting' = waiting \cup {t}
  /\ UNCHANGED <<endless, main, leaving, sem, expected, nloops, vectorVars,
                 tmp, turns>>

\* barrier_.arrive_and_wait(): the last arrival ends the phase.
UnlockArrive(t) ==
  /\ Goto(t, "arrive", "wait")
  /\ IF pending = 1
     THEN pending' = expected /\ waiting' = {}
     ELSE pending' = pending - 1 /\ waiting' = waiting \cup {t}
  /\ UNCHANGED <<endless, main, leaving, sem, expected, nloops, vectorVars,
                 tmp, turns>>

UnlockWait(t) ==
  /\ t \notin waiting
  /\ Goto(t, "wait", IF t \in leaving THEN "drop" ELSE "lock")
  /\ UNCHANGED <<endless, main, leaving, mutexVars, nloops, vectorVars, tmp,
                 turns>>

\* Mutant of Drop: the worker returns without drop().
DropNever(t) ==
  /\ Goto(t, "drop", "done")
  /\ UNCHANGED <<endless, main, leaving, mutexVars, nloops, vectorVars, tmp,
                 turns>>

\* barrier_.arrive_and_drop(): one thread less from the next phase on.
Drop(t) ==
  /\ Goto(t, "drop", "done")
  /\ expected' = expected - 1
  /\ IF pending = 1
     THEN pending' = expected - 1 /\ waiting' = {}
     ELSE pending' = pending - 1 /\ UNCHANGED waiting
  /\ UNCHANGED <<endless, main, leaving, sem, nloops, vectorVars, tmp, turns>>

Worker(t) ==
  \/ Lock(t) \/ While(t) \/ LoadCounter(t) \/ StoreCounter(t)
  \/ DecrementLoops(t) \/ UnlockRelease(t) \/ UnlockArrive(t) \/ UnlockWait(t)
  \/ Drop(t)

Joined == main = "join" /\ \A t \in Threads : pc[t] = "done"

Terminated == Joined /\ UNCHANGED vars

Next == Main \/ (\E t \in Threads : Worker(t)) \/ Terminated

Spec == Init /\ [][Next]_vars

\* The operating system never stops scheduling a thread that can run.
FairSpec == Spec /\ WF_vars(Main) /\ \A t \in Threads : WF_vars(Worker(t))

-----------------------------------------------------------------------------
(* Properties.                                                             *)

\* sem_ stays in 0..1, and the barrier never has more arrivals to wait for
\* than threads.
TypeOK ==
  /\ endless \in BOOLEAN
  /\ main \in {"push", "install", "spawn", "join"}
  /\ pc \in [Threads -> {"unborn", "lock", "while", "load", "store", "dec",
                         "release", "arrive", "wait", "drop", "done"}]
  /\ leaving \in SUBSET Threads
  /\ sem \in 0..1
  /\ expected \in 0..NThreads /\ pending \in 0..expected
  /\ waiting \in SUBSET Threads
  /\ nloops \in 0..NLoops
  /\ counters \in Seq(0 .. IntMod - 1) /\ Len(counters) <= NThreads
  /\ capacity \in Nat
  /\ fresh \in Seq(0 .. IntMod - 1)
  /\ stale \in SUBSET Threads
  /\ tmp \in [Threads -> 0 .. IntMod - 1]
  /\ turns \in [Threads -> 0..NLoops]

Holding == {t \in Threads : pc[t] \in {"while", "load", "store", "dec", "release"}}

\* One worker at a time is between lock() and unlock()
\* (mutex-nostarve.cpp:11-18), and it is the one sem_ is down for.
MutexOwned ==
  /\ \A s, t \in Holding : s = t
  /\ sem = 0 <=> Holding # {}

\* No worker is ever two turns ahead of another (mutex-nostarve.cpp:15-18:
\* unlock() waits for everybody), although semaphores wake whom they like.
FairTurns == \A s, t \in Threads : turns[s] - turns[t] \in -1 .. 1

\* The race of main() and the workers on `counters` (mutex-nostarve.cpp:34, 56)
\* costs a worker its first increment at most, and the last worker nothing:
\* nobody has a second turn before all are started.
FinalCounts ==
  Joined => /\ \A t \in Threads : turns[t] - counters[t] \in 0 .. 1
            /\ turns[NThreads] = counters[NThreads]
            /\ NLoops > 0 => nloops = 0

\* "any thread that tries to acquire the mutex will eventually obtain it"
\* (answers.md:11), whoever the semaphore prefers and however often the others
\* come back; and main()'s joins (mutex-nostarve.cpp:59-61) end: the workers that
\* leave and the ones that still wait on the barrier do not lock each other up.
Served ==
  /\ \A t \in Threads : pc[t] = "lock" ~> pc[t] = "while"
  /\ ~endless => <>Joined

=============================================================================

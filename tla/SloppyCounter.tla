--------------------------- MODULE SloppyCounter ---------------------------
(***************************************************************************)
(* hw29-threads-locks-usage/src/counter_sloppy.cpp: a counter split over   *)
(* the CPUs.  increment() counts in the counter of one CPU, under its      *)
(* mutex, and moves it to the global counter once it reaches a threshold;  *)
(* at its end a worker moves what is left, and does that without the       *)
(* mutex.  An access of a counter that two threads can reach at once is a  *)
(* load or a store of its own (the program is built with -O0); the global  *)
(* counter is touched under its mutex only.                                *)
(***************************************************************************)
EXTENDS Integers, FiniteSetsExt

CONSTANTS NThreads, NLoops, NCpus, Threshold

VARIABLES
  pc,           \* the next statement of each worker
  loops,        \* the iterations each worker has ended
  loaded,       \* the count each worker loaded to increment it
  countLocal, mutexLocal,    \* by CPU; a mutex holds its owner or None
  countGlobal, mutexGlobal,
  got           \* what main's get() returned, or -1

vars == <<pc, loops, loaded, countLocal, mutexLocal, countGlobal,
          mutexGlobal, got>>

Workers == 0..(NThreads - 1)
Cpus == 0..(NCpus - 1)
None == -1
Cpu(t) == t % NCpus

Init ==
  /\ pc = [t \in Workers |-> "loop"]
  /\ loops = [t \in Workers |-> 0]
  /\ loaded = [t \in Workers |-> 0]
  /\ countLocal = [c \in Cpus |-> 0]
  /\ mutexLocal = [c \in Cpus |-> None]
  /\ countGlobal = 0
  /\ mutexGlobal = None
  /\ got = -1

Goto(t, from, to) == pc[t] = from /\ pc' = [pc EXCEPT ![t] = to]

-----------------------------------------------------------------------------
(* increment().                                                            *)

\* Mutant of LockLocal: nobody waits for the mutex.
LockLocalNoWait(t) ==
  /\ loops[t] < NLoops /\ Goto(t, "loop", "load")
  /\ mutexLocal' = [mutexLocal EXCEPT ![Cpu(t)] = t]
  /\ UNCHANGED <<loops, loaded, countLocal, countGlobal, mutexGlobal, got>>

LockLocal(t) ==
  /\ loops[t] < NLoops /\ Goto(t, "loop", "load")
  /\ mutexLocal[Cpu(t)] = None
  /\ mutexLocal' = [mutexLocal EXCEPT ![Cpu(t)] = t]
  /\ UNCHANGED <<loops, loaded, countLocal, countGlobal, mutexGlobal, got>>

LoadLocal(t) ==
  /\ Goto(t, "load", "store")
  /\ loaded' = [loaded EXCEPT ![t] = countLocal[Cpu(t)]]
  /\ UNCHANGED <<loops, countLocal, mutexLocal, countGlobal, mutexGlobal, got>>

StoreLocal(t) ==
  /\ Goto(t, "store", "test")
  /\ countLocal' = [countLocal EXCEPT ![Cpu(t)] = loaded[t] + 1]
  /\ UNCHANGED <<loops, loaded, mutexLocal, countGlobal, mutexGlobal, got>>

Full(count) == count >= Threshold

TestThreshold(t) ==
  /\ Goto(t, "test", IF Full(countLocal[Cpu(t)]) THEN "update" ELSE "unlock")
  /\ UNCHANGED <<loops, loaded, countLocal, mutexLocal, countGlobal,
                 mutexGlobal, got>>

\* The mutex is released and the iteration ends.
UnlockLocal(t) ==
  /\ Goto(t, "unlock", "loop")
  /\ mutexLocal' = [mutexLocal EXCEPT ![Cpu(t)] = None]
  /\ loops' = [loops EXCEPT ![t] = @ + 1]
  /\ UNCHANGED <<loaded, countLocal, countGlobal, mutexGlobal, got>>

-----------------------------------------------------------------------------
(* update(), from increment() at the threshold, or from worker() after the *)
(* loop.                                                                   *)

LockGlobal(t) ==
  /\ \/ Goto(t, "update", "add")
     \/ loops[t] = NLoops /\ Goto(t, "loop", "add")
  /\ mutexGlobal = None /\ mutexGlobal' = t
  /\ UNCHANGED <<loops, loaded, countLocal, mutexLocal, countGlobal, got>>

AddLocal(t) ==
  /\ Goto(t, "add", "reset")
  /\ countGlobal' = countGlobal + countLocal[Cpu(t)]
  /\ UNCHANGED <<loops, loaded, countLocal, mutexLocal, mutexGlobal, got>>

ResetLocal(t) ==
  /\ Goto(t, "reset", "unlockGlobal")
  /\ countLocal' = [countLocal EXCEPT ![Cpu(t)] = 0]
  /\ UNCHANGED <<loops, loaded, mutexLocal, countGlobal, mutexGlobal, got>>

UnlockGlobal(t) ==
  /\ Goto(t, "unlockGlobal", IF loops[t] < NLoops THEN "unlock" ELSE "done")
  /\ mutexGlobal' = None
  /\ UNCHANGED <<loops, loaded, countLocal, mutexLocal, countGlobal, got>>

-----------------------------------------------------------------------------

\* main() joins the workers, then asserts on get(), whose mutex is free then.
Get ==
  /\ \A t \in Workers : pc[t] = "done"
  /\ got = -1 /\ mutexGlobal = None
  /\ got' = countGlobal
  /\ UNCHANGED <<pc, loops, loaded, countLocal, mutexLocal, countGlobal,
                 mutexGlobal>>

Worker(t) ==
  \/ LockLocal(t) \/ LoadLocal(t) \/ StoreLocal(t) \/ TestThreshold(t)
  \/ UnlockLocal(t)
  \/ LockGlobal(t) \/ AddLocal(t) \/ ResetLocal(t) \/ UnlockGlobal(t)

Ended == got # -1 /\ UNCHANGED vars

Next == Get \/ (\E t \in Workers : Worker(t)) \/ Ended

Spec == Init /\ [][Next]_vars

-----------------------------------------------------------------------------
(* Properties.                                                             *)

\* No counter is negative or beyond the number of increments asked for.
TypeOK ==
  LET Counts == 0..(NThreads * NLoops)
  IN  /\ pc \in [Workers -> {"loop", "load", "store", "test", "update", "add",
                             "reset", "unlockGlobal", "unlock", "done"}]
      /\ loops \in [Workers -> 0..NLoops]
      /\ loaded \in [Workers -> Counts]
      /\ countLocal \in [Cpus -> Counts]
      /\ mutexLocal \in [Cpus -> Workers \cup {None}]
      /\ countGlobal \in Counts
      /\ mutexGlobal \in Workers \cup {None}
      /\ got \in Counts \cup {-1}

\* The increments whose store a worker has done.
Stored(t) ==
  loops[t] + IF \/ pc[t] \in {"test", "update", "unlock"}
                \/ pc[t] \in {"add", "reset", "unlockGlobal"} /\ loops[t] < NLoops
             THEN 1 ELSE 0

\* What AddLocal has added and ResetLocal not yet taken away.
Doubled(c) ==
  IF \E t \in Workers : Cpu(t) = c /\ pc[t] = "reset" THEN countLocal[c] ELSE 0

\* worker() is past its loop and in the update() without the local mutex.
InLastUpdate(t) == loops[t] = NLoops /\ pc[t] # "loop"

SharesCpu(t) == \E u \in Workers \ {t} : Cpu(u) = Cpu(t)

\* The global and local counters add up to the increments done at every
\* moment: none is lost or counted twice between increment() and the update()
\* it calls under two mutexes; nor by the update() that worker() calls without
\* the local one, when its CPU has no other thread.
NothingLost ==
  (\A t \in Workers : InLastUpdate(t) => ~SharesCpu(t)) =>
    countGlobal + MapThenSumSet(LAMBDA c : countLocal[c] - Doubled(c), Cpus)
      = MapThenSumSet(LAMBDA t : Stored(t), Workers)

\* The counter is sloppy by less than a threshold for each CPU, except for a
\* CPU that is about to call update().
SloppyByThreshold ==
  \A c \in Cpus :
    \/ countLocal[c] < Threshold
    \/ \E t \in Workers : /\ Cpu(t) = c
                          /\ pc[t] \in {"test", "update", "add", "reset"}

\* main()'s assert(counter.get() == nthreads * nloops), line 72.
AssertGet == got \in {-1, NThreads * NLoops}

=============================================================================

---------------------------- MODULE Rendezvous ----------------------------
(***************************************************************************)
(* hw31-threads-sema/src/rendezvous.cpp: two workers meet at two           *)
(* semaphores.  worker(0) runs while main() is still pushing the second    *)
(* semaphore to the vector: push_back moves the first unique_ptr to a new  *)
(* buffer, frees the old one and only then lets the vector point to the    *)
(* new one.  A worker that dereferences what is left behind brings the     *)
(* program down.                                                           *)
(***************************************************************************)
EXTENDS Semaphores

VARIABLES
  main,   \* the next statement of main()
  pc,     \* the next statement of each worker
  held,   \* the buffer whose address each worker has: 1 or 2, 0 for none
  begin,  \* the buffer the vector points to
  moved,  \* TRUE when the unique_ptr in buffer 1 is gone
  sem,    \* the counters of the two semaphores
  crashed

vars == <<main, pc, held, begin, moved, sem, crashed>>

Workers == {0, 1}

Init ==
  /\ main = "push0"
  /\ pc = [w \in Workers |-> "unborn"]
  /\ held = [w \in Workers |-> 0]
  /\ begin = 0 /\ moved = FALSE
  /\ sem = [w \in Workers |-> 0]
  /\ crashed = FALSE

Goto(w, from, to) == pc[w] = from /\ pc' = [pc EXCEPT ![w] = to]

-----------------------------------------------------------------------------
(* main().                                                                 *)

MainStep(from, to) == ~crashed /\ main = from /\ main' = to

PushFirst ==
  /\ MainStep("push0", "spawn0")
  /\ begin' = 1
  /\ UNCHANGED <<pc, held, moved, sem, crashed>>

Spawn(w, from, to) ==
  /\ MainStep(from, to)
  /\ pc' = [pc EXCEPT ![w] = "before"]
  /\ UNCHANGED <<held, begin, moved, sem, crashed>>

\* make_unique() of the second semaphore, then the steps of push_back.
MakeSecond ==
  /\ MainStep("make1", "push1")
  /\ UNCHANGED <<pc, held, begin, moved, sem, crashed>>

MoveFirst ==
  /\ MainStep("push1", "free1")
  /\ moved' = TRUE
  /\ UNCHANGED <<pc, held, begin, sem, crashed>>

FreeFirst ==
  /\ MainStep("free1", "install1")
  /\ UNCHANGED <<pc, held, begin, moved, sem, crashed>>

InstallSecond ==
  /\ MainStep("install1", "spawn1")
  /\ begin' = 2
  /\ UNCHANGED <<pc, held, moved, sem, crashed>>

\* The joins, in order.
Join(w, from, to) ==
  /\ pc[w] = "done"
  /\ MainStep(from, to)
  /\ UNCHANGED <<pc, held, begin, moved, sem, crashed>>

Main ==
  \/ PushFirst \/ Spawn(0, "spawn0", "make1")
  \/ MakeSecond \/ MoveFirst \/ FreeFirst \/ InstallSecond
  \/ Spawn(1, "spawn1", "join0")
  \/ Join(0, "join0", "join1") \/ Join(1, "join1", "end")

-----------------------------------------------------------------------------
(* worker(i): a print, two semaphores, a print.                            *)

PrintBefore(w) ==
  /\ Goto(w, "before", "index1")
  /\ UNCHANGED <<main, held, begin, moved, sem, crashed>>

PrintAfter(w) ==
  /\ Goto(w, "after", "done")
  /\ UNCHANGED <<main, held, begin, moved, sem, crashed>>

\* semaphores[...]: the address of the element, ...
Index(w, from, to) ==
  /\ Goto(w, from, to)
  /\ held' = [held EXCEPT ![w] = begin]
  /\ UNCHANGED <<main, begin, moved, sem, crashed>>

Dangling(w) == held[w] = 1 /\ moved

\* ... the pointer in it, which is gone when the element was moved, ...
LoadPointer(w, from, to) ==
  /\ ~Dangling(w)
  /\ Goto(w, from, to)
  /\ UNCHANGED <<main, held, begin, moved, sem, crashed>>

Crash(w, at) ==
  /\ pc[w] = at /\ Dangling(w)
  /\ crashed' = TRUE
  /\ UNCHANGED <<main, pc, held, begin, moved, sem>>

\* ... and the semaphore, which itself never moves.
AcquireOwn(w, from, to) ==
  /\ Goto(w, from, to)
  /\ sem[w] > 0 /\ sem' = [sem EXCEPT ![w] = @ - 1]
  /\ UNCHANGED <<main, held, begin, moved, crashed>>

ReleaseOther(w, from, to) ==
  /\ Goto(w, from, to)
  /\ sem' = [sem EXCEPT ![1 - w] = @ + 1]
  /\ UNCHANGED <<main, held, begin, moved, crashed>>

\* Worker 0 acquires its own semaphore first; the last worker releases the
\* other's first.
UseSemaphores(w) ==
  \/ w = 0 /\ AcquireOwn(w, "use1", "index2")
  \/ w = 0 /\ ReleaseOther(w, "use2", "after")
  \/ w = 1 /\ ReleaseOther(w, "use1", "index2")
  \/ w = 1 /\ AcquireOwn(w, "use2", "after")

Worker(w) ==
  /\ ~crashed
  /\ \/ PrintBefore(w)
     \/ Index(w, "index1", "load1") \/ Index(w, "index2", "load2")
     \/ LoadPointer(w, "load1", "use1") \/ LoadPointer(w, "load2", "use2")
     \/ Crash(w, "load1") \/ Crash(w, "load2")
     \/ UseSemaphores(w)
     \/ PrintAfter(w)

Ended == (main = "end" \/ crashed) /\ UNCHANGED vars

Next == Main \/ (\E w \in Workers : Worker(w)) \/ Ended

Spec == Init /\ [][Next]_vars

-----------------------------------------------------------------------------
(* Properties.                                                             *)

\* Both semaphores stay in 0..1.
TypeOK ==
  /\ main \in {"push0", "spawn0", "make1", "push1", "free1", "install1",
               "spawn1", "join0", "join1", "end"}
  /\ pc \in [Workers -> {"unborn", "before", "index1", "load1", "use1",
                         "index2", "load2", "use2", "after", "done"}]
  /\ held \in [Workers -> 0..2]
  /\ begin \in 0..2
  /\ moved \in BOOLEAN
  /\ sem \in [Workers -> 0..1]
  /\ crashed \in BOOLEAN

\* "Neither should exit this part of the code before the other enters it"
\* (answers.md:3).
NeitherEarly ==
  \A w \in Workers : pc[w] \in {"after", "done"} =>
                       pc[1 - w] \notin {"unborn", "before"}

\* The race on the vector can hit the first access of worker 0 and no other:
\* after it, the rendezvous orders worker 0 behind the second push_back, and
\* worker 1 never gets past a worker 0 that was hit.
OnlyFirstAccessRaces ==
  crashed => pc[0] = "load1" /\ pc[1] \notin {"after", "done"}

=============================================================================

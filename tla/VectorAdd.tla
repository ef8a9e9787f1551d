------------------------------ MODULE VectorAdd ------------------------------
(***************************************************************************)
(* hw32-threads-bugs/src: five programs in which threads add vectors to    *)
(* vectors.  main-common.c starts the threads with the same two vectors    *)
(* (or, with -p, two of their own); with -d every other thread adds in the *)
(* other direction.  The programs differ in how vector_add() takes the     *)
(* locks of the two.  The retries that vector-try-wait.c counts are left    *)
(* out.                                                                    *)
(***************************************************************************)
EXTENDS Integers, FiniteSets

CONSTANTS
  NThreads, NLoops, Size,
  Runs      \* the runs of programs: records of a program and its options

VARIABLES
  run,      \* [program, d, p]
  pc,       \* the next statement of each thread
  loops,    \* the calls each thread has ended
  el,       \* the element each thread is at
  loaded,   \* what it has loaded for that element
  global,   \* the lock around the locks: its owner or None
  lock,     \* the lock of each vector
  values

vars == <<run, pc, loops, el, loaded, global, lock, values>>

Programs == {"deadlock", "global-order", "try-wait", "avoid-hold-and-wait",
             "nolock"}
Threads == 0..(NThreads - 1)
None == -1

-----------------------------------------------------------------------------
(* main() and the arguments of the threads.                                *)

Vectors == 0..(2 * NThreads - 1)

Start == [v \in Vectors |-> [e \in 1..Size |-> v]]

Pair(t) == IF run.p THEN <<2 * t, 2 * t + 1>> ELSE <<0, 1>>

Turned(t) == run.d /\ t % 2 = 1

Dst(t) == IF Turned(t) THEN Pair(t)[2] ELSE Pair(t)[1]
Src(t) == IF Turned(t) THEN Pair(t)[1] ELSE Pair(t)[2]

Init ==
  /\ run \in Runs
  /\ pc = [t \in Threads |-> "loop"]
  /\ loops = [t \in Threads |-> 0]
  /\ el = [t \in Threads |-> 1]
  /\ loaded = [t \in Threads |-> 0]
  /\ global = None
  /\ lock = [v \in Vectors |-> None]
  /\ values = Start

Goto(t, from, to) == pc[t] = from /\ pc' = [pc EXCEPT ![t] = to]

Lock(t, v) == lock[v] = None /\ lock' = [lock EXCEPT ![v] = t]

-----------------------------------------------------------------------------
(* The locks.                                                              *)

\* worker() calls vector_add().
Call(t) ==
  /\ loops[t] < NLoops
  /\ Goto(t, "loop", CASE run.program = "avoid-hold-and-wait" -> "global"
                       [] run.program = "nolock" -> "load"
                       [] OTHER -> "first")
  /\ UNCHANGED <<run, loops, el, loaded, global, lock, values>>

\* Mutant of FirstLocked: the order is that of the arguments.
FirstLockedDst(t) == Dst(t)

\* vector-global-order.c takes the lock of the lower address first; the vectors
\* of a thread are never the same, so its third case does not occur.
FirstLocked(t) ==
  IF run.program = "global-order" /\ Src(t) < Dst(t) THEN Src(t) ELSE Dst(t)

SecondLocked(t) == IF FirstLocked(t) = Dst(t) THEN Src(t) ELSE Dst(t)

LockGlobal(t) ==
  /\ Goto(t, "global", "first")
  /\ global = None /\ global' = t
  /\ UNCHANGED <<run, loops, el, loaded, lock, values>>

\* Mutant of LockFirst: its result is not looked at.
LockFirstUnchecked(t) ==
  /\ Goto(t, "first", "second")
  /\ lock' = [lock EXCEPT ![FirstLocked(t)] = t]
  /\ UNCHANGED <<run, loops, el, loaded, global, values>>

\* Also the trylock that succeeds; one that fails only tries again.
LockFirst(t) ==
  /\ Goto(t, "first", "second")
  /\ Lock(t, FirstLocked(t))
  /\ UNCHANGED <<run, loops, el, loaded, global, values>>

TryFirstAgain(t) ==
  /\ run.program = "try-wait" /\ pc[t] = "first"
  /\ lock[Dst(t)] # None
  /\ UNCHANGED vars

LockSecond(t) ==
  /\ Goto(t, "second", IF run.program = "avoid-hold-and-wait"
                       THEN "unlockGlobal" ELSE "load")
  /\ Lock(t, SecondLocked(t))
  /\ UNCHANGED <<run, loops, el, loaded, global, values>>

TrySecondFails(t) ==
  /\ run.program = "try-wait"
  /\ Goto(t, "second", "giveUp")
  /\ lock[Src(t)] # None
  /\ UNCHANGED <<run, loops, el, loaded, global, lock, values>>

\* The first lock is given back and all starts again.
GiveUp(t) ==
  /\ Goto(t, "giveUp", "first")
  /\ lock' = [lock EXCEPT ![Dst(t)] = None]
  /\ UNCHANGED <<run, loops, el, loaded, global, values>>

UnlockGlobal(t) ==
  /\ Goto(t, "unlockGlobal", "load")
  /\ global' = None
  /\ UNCHANGED <<run, loops, el, loaded, lock, values>>

-----------------------------------------------------------------------------
(* The addition.  Only vector-nolock.c reads the destination and writes it *)
(* back in one step, with xaddl; it reads the source before.               *)

Load(t) ==
  /\ Goto(t, "load", "store")
  /\ loaded' = [loaded EXCEPT ![t] =
       values[Src(t)][el[t]]
         + IF run.program = "nolock" THEN 0 ELSE values[Dst(t)][el[t]]]
  /\ UNCHANGED <<run, loops, el, global, lock, values>>

\* The next element, or the end of the loop.
Advance(t) ==
  /\ pc' = [pc EXCEPT ![t] = IF el[t] < Size THEN "load"
                             ELSE IF run.program = "nolock" THEN "return"
                             ELSE "unlock"]
  /\ el' = [el EXCEPT ![t] = IF @ < Size THEN @ + 1 ELSE 1]

Store(t) ==
  /\ pc[t] = "store"
  /\ values' = [values EXCEPT ![Dst(t)][el[t]] =
       IF run.program = "nolock" THEN @ + loaded[t] ELSE loaded[t]]
  /\ Advance(t)
  /\ UNCHANGED <<run, loops, loaded, global, lock>>

\* vector-global-order.c unlocks the source first, the others the destination.
UnlockOne(t) ==
  /\ Goto(t, "unlock", "unlockOther")
  /\ lock' = [lock EXCEPT ![IF run.program = "global-order"
                            THEN Src(t) ELSE Dst(t)] = None]
  /\ UNCHANGED <<run, loops, el, loaded, global, values>>

UnlockOther(t) ==
  /\ Goto(t, "unlockOther", "return")
  /\ lock' = [lock EXCEPT ![IF run.program = "global-order"
                            THEN Dst(t) ELSE Src(t)] = None]
  /\ UNCHANGED <<run, loops, el, loaded, global, values>>

ReturnFromAdd(t) ==
  /\ Goto(t, "return", "loop")
  /\ loops' = [loops EXCEPT ![t] = @ + 1]
  /\ UNCHANGED <<run, el, loaded, global, lock, values>>

-----------------------------------------------------------------------------

Worker(t) ==
  \/ Call(t)
  \/ LockGlobal(t) \/ LockFirst(t) \/ TryFirstAgain(t)
  \/ LockSecond(t) \/ TrySecondFails(t) \/ GiveUp(t) \/ UnlockGlobal(t)
  \/ Load(t) \/ Store(t)
  \/ UnlockOne(t) \/ UnlockOther(t) \/ ReturnFromAdd(t)

AllDone == \A t \in Threads : pc[t] = "loop" /\ loops[t] = NLoops

\* main() has joined the threads.
Ended == AllDone /\ UNCHANGED vars

Next == (\E t \in Threads : Worker(t)) \/ Ended

Spec == Init /\ [][Next]_vars

-----------------------------------------------------------------------------
(* Properties.                                                             *)

Locking == run.program # "nolock"

\* A thread that adds has both locks.
TypeOK ==
  /\ run \in [program : Programs, d : BOOLEAN, p : BOOLEAN]
  /\ pc \in [Threads -> {"loop", "global", "first", "second", "giveUp",
       "unlockGlobal", "load", "store", "unlock", "unlockOther", "return"}]
  /\ loops \in [Threads -> 0..NLoops]
  /\ el \in [Threads -> 1..Size]
  /\ loaded \in [Threads -> Nat]
  /\ global \in Threads \cup {None}
  /\ lock \in [Vectors -> Threads \cup {None}]
  /\ values \in [Vectors -> [1..Size -> Nat]]
  /\ Locking => \A t \in Threads : pc[t] \in {"load", "store", "unlock"} =>
                                     lock[Dst(t)] = t /\ lock[Src(t)] = t

\* vector_add() takes effect when the last element is stored: what a thread has
\* stored before is not there yet.  (Its source does not change meanwhile.)
Before(t) ==
  IF pc[t] \in {"load", "store"} THEN {e \in 1..Size : e < el[t]} ELSE {}

Whole ==
  [v \in Vectors |-> [e \in 1..Size |->
     IF \E t \in Threads : Dst(t) = v /\ e \in Before(t)
     THEN LET t == CHOOSE u \in Threads : Dst(u) = v /\ e \in Before(u)
          IN  values[v][e] - values[Src(t)][e]
     ELSE values[v][e]]]

Abstract == INSTANCE VectorSpec WITH values <- Whole

\* When all add in one direction no addition is lost, vector-nolock.c's
\* fetch-and-add included.
NoAdditionLost ==
  (AllDone /\ ~run.d) =>
    \A t \in Threads : \A e \in 1..Size :
      values[Dst(t)][e] = Dst(t) + (IF run.p THEN NLoops ELSE NThreads * NLoops)
                                     * Src(t)

\* A thread of vector-try-wait.c has failed to get the second lock because
\* another one adds in the other direction.
GivesUp ==
  /\ run.program = "try-wait" /\ run.d /\ ~run.p
  /\ \E t \in Threads : pc[t] = "giveUp"

=============================================================================

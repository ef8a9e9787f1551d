--------------------------- MODULE ThreadPrograms ---------------------------
(***************************************************************************)
(* The thread programs of several homeworks, to be checked together: which *)
(* one runs is chosen at the start.  They share nothing, and what a        *)
(* program does not use stays Unused.                                      *)
(***************************************************************************)
EXTENDS Integers

CONSTANTS
  Running,      \* the programs, of those below
  CounterThreads, CounterLoops, Threshold, SharedCpus,    \* their arguments
  ListThreads, ListLoops,
  VectorThreads, VectorLoops, VectorSize,
  TreeThreads, TreeLoops

ASSUME ThreadProgramsAssumption ==
  /\ {CounterThreads, CounterLoops, ListThreads, ListLoops, VectorThreads,
      VectorLoops, TreeThreads, TreeLoops} \subseteq Nat
  /\ {Threshold, SharedCpus, VectorSize} \subseteq Nat \ {0}

VARIABLES
  program,
  pc, loops, loaded,                                              \* of several
  countLocal, mutexLocal, countGlobal, mutexGlobal, got,          \* counters
  mode, arg, node, mutex, locked, head, size, key, next,          \* list
  run, el, global, lock, values,                                  \* vectors
  main, held, begin, moved, sem, crashed,                         \* rendezvous
  kind, current, parent, rwMutex, tree, root, height,             \* trees
  api, owner, balance, done, semaphore, sleeping, printed         \* thread API

counterVars == <<countLocal, mutexLocal, countGlobal, mutexGlobal, got>>
listVars == <<mode, arg, node, mutex, locked, head, size, key, next>>
vectorVars == <<run, el, global, lock, values>>
rendezvousVars == <<main, held, begin, moved, sem, crashed>>
treeVars == <<kind, current, parent, rwMutex, tree, root, height>>
apiVars == <<api, owner, balance, done, semaphore, sleeping, printed>>
vars == <<program, pc, loops, loaded, counterVars, listVars, vectorVars,
          rendezvousVars, treeVars, apiVars>>

\* counter_sloppy.cpp with a CPU for each thread, and with fewer.
OwnCpu == INSTANCE SloppyCounter WITH
  NThreads <- CounterThreads, NLoops <- CounterLoops, NCpus <- CounterThreads
SharedCpu == INSTANCE SloppyCounter WITH
  NThreads <- CounterThreads, NLoops <- CounterLoops, NCpus <- SharedCpus

\* list_hoh.cpp.
List == INSTANCE HandOverHandList WITH
  NThreads <- ListThreads, NLoops <- ListLoops, Modes <- {"test", "interleave"}

\* hw32's programs with all their options, but for vector-deadlock.c with -d,
\* which is there to deadlock.
VectorRuns ==
  {r \in [program : {"deadlock", "global-order", "try-wait",
                     "avoid-hold-and-wait", "nolock"},
          d : BOOLEAN, p : BOOLEAN] :
     ~(r.program = "deadlock" /\ r.d /\ ~r.p)}
Vectors == INSTANCE VectorAdd WITH
  NThreads <- VectorThreads, NLoops <- VectorLoops, Size <- VectorSize,
  Runs <- VectorRuns

Meeting == INSTANCE Rendezvous

\* bst_simple.cpp and bst_better.cpp.
Tree == INSTANCE ConcurrentTree WITH
  NThreads <- TreeThreads, NLoops <- TreeLoops, Modes <- {"test", "interleave"},
  Kinds <- {"simple", "better"}

API == INSTANCE ThreadAPI WITH
  Programs <- {"main-deadlock", "main-deadlock-global", "main-race", "main-race-fix",
               "main-signal", "main-signal-cv", "fork-join"}

-----------------------------------------------------------------------------
(* One of them runs.                                                       *)

Unused == "unused"

NoLoops == loops = Unused /\ loaded = Unused
NoCounter ==
  /\ countLocal = Unused /\ mutexLocal = Unused /\ countGlobal = Unused
  /\ mutexGlobal = Unused /\ got = Unused
NoList ==
  /\ mode = Unused /\ arg = Unused /\ node = Unused /\ mutex = Unused
  /\ locked = Unused /\ head = Unused /\ size = Unused /\ key = Unused
  /\ next = Unused
NoVectors ==
  run = Unused /\ el = Unused /\ global = Unused /\ lock = Unused /\ values = Unused
NoMeeting ==
  /\ main = Unused /\ held = Unused /\ begin = Unused /\ moved = Unused
  /\ sem = Unused /\ crashed = Unused
NoTree ==
  /\ kind = Unused /\ current = Unused /\ parent = Unused /\ rwMutex = Unused
  /\ tree = Unused /\ root = Unused /\ height = Unused
NoAPI ==
  /\ api = Unused /\ owner = Unused /\ balance = Unused /\ done = Unused
  /\ semaphore = Unused /\ sleeping = Unused /\ printed = Unused

Init ==
  /\ program \in Running
  /\ \/ /\ program = "own CPU" /\ OwnCpu!Init
        /\ NoList /\ NoVectors /\ NoMeeting /\ NoTree /\ NoAPI
     \/ /\ program = "shared CPU" /\ SharedCpu!Init
        /\ NoList /\ NoVectors /\ NoMeeting /\ NoTree /\ NoAPI
     \/ /\ program = "list" /\ List!Init
        /\ loaded = Unused
        /\ NoCounter /\ NoVectors /\ NoMeeting /\ NoTree /\ NoAPI
     \/ /\ program = "vectors" /\ Vectors!Init
        /\ NoCounter /\ NoList /\ NoMeeting /\ NoTree /\ NoAPI
     \/ /\ program = "rendezvous" /\ Meeting!Init
        /\ NoLoops /\ NoCounter /\ NoList /\ NoVectors /\ NoTree /\ NoAPI
     \/ /\ program = "tree" /\ Tree!Init
        /\ loaded = Unused /\ node = Unused /\ mutex = Unused /\ locked = Unused
        /\ head = Unused /\ key = Unused /\ next = Unused
        /\ NoCounter /\ NoVectors /\ NoMeeting /\ NoAPI
     \/ /\ program = "API" /\ API!Init
        /\ loops = Unused
        /\ NoCounter /\ NoList /\ NoVectors /\ NoMeeting /\ NoTree

Worker(t) ==
  /\ UNCHANGED program
  /\ \/ /\ t \in OwnCpu!Workers
        /\ \/ program = "own CPU" /\ OwnCpu!Worker(t)
           \/ program = "shared CPU" /\ SharedCpu!Worker(t)
        /\ UNCHANGED <<listVars, vectorVars, rendezvousVars, treeVars, apiVars>>
     \/ /\ program = "list" /\ t \in List!Threads /\ List!Worker(t)
        /\ UNCHANGED <<loaded, counterVars, vectorVars, rendezvousVars, treeVars, apiVars>>
     \/ /\ program = "vectors" /\ t \in Vectors!Threads /\ Vectors!Worker(t)
        /\ UNCHANGED <<counterVars, listVars, rendezvousVars, treeVars, apiVars>>
     \/ /\ program = "rendezvous" /\ t \in Meeting!Workers /\ Meeting!Worker(t)
        /\ UNCHANGED <<loops, loaded, counterVars, listVars, vectorVars, treeVars, apiVars>>
     \/ /\ program = "tree" /\ t \in Tree!Threads /\ Tree!Worker(t)
        /\ UNCHANGED <<loaded, node, mutex, locked, head, key, next>>
        /\ UNCHANGED <<counterVars, vectorVars, rendezvousVars, apiVars>>
     \/ /\ program = "API" /\ t \in API!Threads /\ API!Thread(t)
        /\ UNCHANGED <<loops, counterVars, listVars, vectorVars, rendezvousVars, treeVars>>

\* What main() does while the workers run or when they are joined.
Main ==
  /\ UNCHANGED <<program, treeVars, apiVars>>
  /\ \/ /\ program \in {"own CPU", "shared CPU"} /\ OwnCpu!Get
        /\ UNCHANGED <<listVars, vectorVars, rendezvousVars>>
     \/ /\ program = "rendezvous" /\ Meeting!Main
        /\ UNCHANGED <<loops, loaded, counterVars, listVars, vectorVars>>

\* What the library may do and need not.
Spurious ==
  /\ program = "API" /\ ~API!AllDone /\ API!SpuriousWakeup(API!Main)
  /\ UNCHANGED <<program, loops, counterVars, listVars, vectorVars, rendezvousVars, treeVars>>

Returned ==
  \/ program \in {"own CPU", "shared CPU"} /\ got # -1
  \/ program = "list" /\ List!AllDone
  \/ program = "vectors" /\ Vectors!AllDone
  \/ program = "rendezvous" /\ (main = "end" \/ crashed)
  \/ program = "tree" /\ Tree!AllDone
  \/ program = "API" /\ API!AllDone

Deadlocked == program = "API" /\ API!CircularWait

Ended == (Returned \/ Deadlocked) /\ UNCHANGED vars

Threads ==
  UNION {OwnCpu!Workers, List!Threads, Vectors!Threads, Meeting!Workers, Tree!Threads,
         API!Threads}

Next == Main \/ (\E t \in Threads : Worker(t)) \/ Spurious \/ Ended

Spec == Init /\ [][Next]_vars

\* The operating system never stops scheduling a thread that can run.
FairSpec == Spec /\ WF_vars(Main) /\ \A t \in Threads : WF_vars(Worker(t))

-----------------------------------------------------------------------------
(* Properties.                                                             *)

\* Every counter, mutex, node and statement is of its kind; a thread that walks
\* over the list or a tree, or adds vectors, has the locks for it.
TypeOK ==
  /\ program = "own CPU" => OwnCpu!TypeOK
  /\ program = "list" => List!TypeOK
  /\ program = "vectors" => Vectors!TypeOK
  /\ program = "rendezvous" => Meeting!TypeOK
  /\ program = "tree" => Tree!TypeOK
  /\ program = "API" => API!TypeOK

\* The parts of a sloppy counter add up to the increments done, and the part of
\* a CPU stays below the threshold (counter_sloppy.cpp:14-28).
CountsAddUp ==
  /\ program = "own CPU" => OwnCpu!NothingLost /\ OwnCpu!SloppyByThreshold
  /\ program = "shared CPU" => SharedCpu!NothingLost /\ SharedCpu!SloppyByThreshold

\* What the programs assert of themselves holds (counter_sloppy.cpp:72 when no
\* CPU is shared, shared.hpp:42-44 and 93), trees can be searched
\* (bst_better.cpp:44-66), additions of vectors that all go one way and
\* increments under a lock are all there in the end, and what a line of
\* main-signal*.c says is printed last is.  No worker of rendezvous.cpp goes on
\* before the other has arrived, and the race on its growing vector hits no
\* access but the first.
ResultsHold ==
  /\ program = "own CPU" => OwnCpu!AssertGet
  /\ program = "list" => List!WorkerTestAsserts /\ List!NothingSkipped
  /\ program = "vectors" => Vectors!NoAdditionLost
  /\ program = "tree" => Tree!WorkerTestAsserts /\ Tree!Searchable
  /\ program = "API" => API!ResultsHold
  /\ program = "rendezvous" => Meeting!NeitherEarly /\ Meeting!OnlyFirstAccessRaces

\* Insertions, searches and additions that interleave lock by lock and element
\* by element look atomic (list_hoh.cpp:29-55, bst_better.cpp:34-66,
\* vector_add() where it locks), and threads that walk over a list never pass
\* one another (list_hoh.cpp:47-51).
Atomic ==
  /\ program = "list" => List!Abstract!Init
  /\ program = "tree" => Tree!Abstract!Init
  /\ program = "vectors" => Vectors!Abstract!Init
  /\ [][/\ program = "list" => [List!Abstract!Next]_(List!Abstract!vars)
        /\ program = "tree" => [Tree!Abstract!Next]_(Tree!Abstract!vars)]_vars
  /\ [][program = "vectors" =>
          (Vectors!Locking => Vectors!Abstract!Next)]_(Vectors!Whole)
  /\ [][program = "list" => List!NobodyPasses]_vars

\* Nobody blocks: whatever the order in which locks and semaphores are taken,
\* every program returns.  Only main-deadlock.c may deadlock, as it should, and
\* the threads of vector-try-wait.c that add in both directions may give up for
\* one another for ever; and no thread is woken for nothing for ever.
EverybodyReturns ==
  \/ <>(Returned \/ Deadlocked)
  \/ []<>(program = "vectors" /\ Vectors!GivesUp)
  \/ []<><<Spurious>>_vars

=============================================================================

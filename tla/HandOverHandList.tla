-------------------------- MODULE HandOverHandList --------------------------
(***************************************************************************)
(* hw29-threads-locks-usage/src/list_hoh.cpp: a linked list with a mutex   *)
(* for its head and one for every node.  insert() holds the list, its      *)
(* first node and the new one; search() locks a node before it unlocks the *)
(* one in front of it, and reads head_ after it has unlocked the list.     *)
(* The threads are the workers of shared.hpp that insert and search.       *)
(***************************************************************************)
EXTENDS Integers, FiniteSets

CONSTANTS NThreads, NLoops, Modes

VARIABLES
  mode,     \* "test" for worker_test, "interleave" for worker_interleave
  pc,       \* the next statement of each thread
  loops,    \* the iterations each thread has ended
  arg,      \* the key each thread inserts or looks for
  node,     \* the node each thread has created or has arrived at
  mutex,    \* the list's mutex_: its owner or None
  locked,   \* the mutex of every node
  head, size,
  key, next \* of the nodes that exist

vars == <<mode, pc, loops, arg, node, mutex, locked, head, size, key, next>>

Threads == 0..(NThreads - 1)
Keys == 0..NLoops           \* search(nloops) looks for a key nobody inserts
None == -1
End == 0                    \* the node END; others are numbered as created
NULL == -1
Nodes == DOMAIN key

Init ==
  /\ mode \in Modes
  /\ pc = [t \in Threads |-> "loop"]
  /\ loops = [t \in Threads |-> 0]
  /\ arg = [t \in Threads |-> 0]
  /\ node = [t \in Threads |-> NULL]
  /\ mutex = None
  /\ locked = [n \in {End} |-> None]
  /\ head = End /\ size = 0
  /\ key = [n \in {End} |-> NULL]       \* INT_MAX, which search() never reads
  /\ next = [n \in {End} |-> NULL]

Goto(t, from, to) == pc[t] = from /\ pc' = [pc EXCEPT ![t] = to]

\* The list's mutex and those of the nodes.
Lock(t) == mutex = None /\ mutex' = t
Unlock(t) == mutex' = None
LockNode(t, n) == locked[n] = None /\ locked' = [locked EXCEPT ![n] = t]
UnlockNode(n) == locked' = [locked EXCEPT ![n] = None]

-----------------------------------------------------------------------------
(* insert(key).                                                            *)

\* An iteration inserts its number, or any key, and takes the list.
Insert(t) ==
  /\ loops[t] < NLoops /\ Goto(t, "loop", "insHead")
  /\ \E k \in IF mode = "test" THEN {loops[t]} ELSE Keys :
       arg' = [arg EXCEPT ![t] = k]
  /\ Lock(t)
  /\ UNCHANGED <<mode, loops, node, locked, head, size, key, next>>

\* head_ cannot change while a thread that holds the list waits for its node.
InsertLockHead(t) ==
  /\ Goto(t, "insHead", "insNew")
  /\ LockNode(t, head)
  /\ UNCHANGED <<mode, loops, arg, node, mutex, head, size, key, next>>

\* The new node, whose mutex nobody can have.
InsertNew(t) ==
  LET new == Cardinality(Nodes)
  IN  /\ Goto(t, "insNew", "insLink")
      /\ node' = [node EXCEPT ![t] = new]
      /\ key' = [n \in Nodes \cup {new} |-> IF n = new THEN arg[t] ELSE key[n]]
      /\ next' = [n \in Nodes \cup {new} |-> IF n = new THEN NULL ELSE next[n]]
      /\ locked' = [n \in Nodes \cup {new} |-> IF n = new THEN t ELSE locked[n]]
      /\ UNCHANGED <<mode, loops, arg, mutex, head, size>>

InsertLink(t) ==
  /\ Goto(t, "insLink", "insPublish")
  /\ next' = [next EXCEPT ![node[t]] = head]
  /\ UNCHANGED <<mode, loops, arg, node, mutex, locked, head, size, key>>

InsertPublish(t) ==
  /\ Goto(t, "insPublish", "insCount")
  /\ head' = node[t]
  /\ UNCHANGED <<mode, loops, arg, node, mutex, locked, size, key, next>>

InsertCount(t) ==
  /\ Goto(t, "insCount", "insUnlock")
  /\ size' = size + 1
  /\ UNCHANGED <<mode, loops, arg, node, mutex, locked, head, key, next>>

\* The mutexes are released in the order of insert(): the new node, the node
\* behind it, the list.
InsertUnlockNode(t) ==
  /\ Goto(t, "insUnlock", "insUnlockNext")
  /\ UnlockNode(node[t])
  /\ UNCHANGED <<mode, loops, arg, node, mutex, head, size, key, next>>

InsertUnlockNext(t) ==
  /\ Goto(t, "insUnlockNext", "insEnd")
  /\ UnlockNode(next[node[t]])
  /\ UNCHANGED <<mode, loops, arg, node, mutex, head, size, key, next>>

InsertEnd(t) ==
  /\ Goto(t, "insEnd", "search")
  /\ Unlock(t)
  /\ UNCHANGED <<mode, loops, arg, node, locked, head, size, key, next>>

-----------------------------------------------------------------------------
(* search(key).                                                            *)

\* worker_test looks for the key it inserted and, at its end, for nloops;
\* worker_interleave for any key.
Search(t) ==
  /\ \/ Goto(t, "search", "seaHead")
     \/ mode = "test" /\ loops[t] = NLoops /\ Goto(t, "loop", "seaHead")
  /\ \E k \in IF mode = "interleave" THEN Keys
              ELSE IF loops[t] = NLoops THEN {NLoops} ELSE {arg[t]} :
       arg' = [arg EXCEPT ![t] = k]
  /\ Lock(t)
  /\ UNCHANGED <<mode, loops, node, locked, head, size, key, next>>

SearchLockHead(t) ==
  /\ Goto(t, "seaHead", "seaUnlock")
  /\ LockNode(t, head)
  /\ UNCHANGED <<mode, loops, arg, node, mutex, head, size, key, next>>

\* Mutant of SearchUnlock: the head is released with the list.
SearchUnlockBoth(t) ==
  /\ Goto(t, "seaUnlock", "seaFirst")
  /\ Unlock(t) /\ UnlockNode(head)
  /\ UNCHANGED <<mode, loops, arg, node, head, size, key, next>>

SearchUnlock(t) ==
  /\ Goto(t, "seaUnlock", "seaFirst")
  /\ Unlock(t)
  /\ UNCHANGED <<mode, loops, arg, node, locked, head, size, key, next>>

\* head_ is read again, after mutex_ was released.
SearchFirst(t) ==
  /\ Goto(t, "seaFirst", "seaAt")
  /\ node' = [node EXCEPT ![t] = head]
  /\ UNCHANGED <<mode, loops, arg, mutex, locked, head, size, key, next>>

\* Mutant of Stop: the search ends at the node before END.
StopAtLast(t) ==
  \/ node[t] = End \/ next[node[t]] = End
  \/ key[node[t]] = arg[t]

Stop(t) == node[t] = End \/ key[node[t]] = arg[t]

SearchNext(t) ==
  /\ Goto(t, "seaAt", "seaNext") /\ ~Stop(t)
  /\ LockNode(t, next[node[t]])
  /\ UNCHANGED <<mode, loops, arg, node, mutex, head, size, key, next>>

SearchUnlockThis(t) ==
  /\ Goto(t, "seaNext", "seaMove")
  /\ UnlockNode(node[t])
  /\ UNCHANGED <<mode, loops, arg, node, mutex, head, size, key, next>>

SearchMove(t) ==
  /\ Goto(t, "seaMove", "seaAt")
  /\ node' = [node EXCEPT ![t] = next[node[t]]]
  /\ UNCHANGED <<mode, loops, arg, mutex, locked, head, size, key, next>>

\* The last node is unlocked, END becomes NULL.
SearchEnd(t) ==
  /\ Goto(t, "seaAt", "return") /\ Stop(t)
  /\ UnlockNode(node[t])
  /\ node' = [node EXCEPT ![t] = IF @ # End THEN @ ELSE NULL]
  /\ UNCHANGED <<mode, loops, arg, mutex, head, size, key, next>>

\* The worker has looked at the result.
SearchReturn(t) ==
  /\ IF loops[t] = NLoops
     THEN Goto(t, "return", "done") /\ UNCHANGED loops
     ELSE /\ Goto(t, "return", "loop")
          /\ loops' = [loops EXCEPT ![t] = @ + 1]
  /\ node' = [node EXCEPT ![t] = NULL]
  /\ UNCHANGED <<mode, arg, mutex, locked, head, size, key, next>>

-----------------------------------------------------------------------------

\* worker_interleave() returns after its loop.
Return(t) ==
  /\ mode = "interleave" /\ loops[t] = NLoops /\ Goto(t, "loop", "done")
  /\ UNCHANGED <<mode, loops, arg, node, mutex, locked, head, size, key, next>>

Worker(t) ==
  \/ Insert(t) \/ InsertLockHead(t) \/ InsertNew(t) \/ InsertLink(t)
  \/ InsertPublish(t) \/ InsertCount(t) \/ InsertUnlockNode(t)
  \/ InsertUnlockNext(t) \/ InsertEnd(t)
  \/ Search(t) \/ SearchLockHead(t) \/ SearchUnlock(t) \/ SearchFirst(t)
  \/ SearchNext(t) \/ SearchUnlockThis(t) \/ SearchMove(t) \/ SearchEnd(t)
  \/ SearchReturn(t) \/ Return(t)

AllDone == \A t \in Threads : pc[t] = "done"

Ended == AllDone /\ UNCHANGED vars

Next == (\E t \in Threads : Worker(t)) \/ Ended

Spec == Init /\ [][Next]_vars

-----------------------------------------------------------------------------
(* Properties.                                                             *)

\* A search that walks is on a node it has locked.
TypeOK ==
  /\ mode \in Modes
  /\ pc \in [Threads -> {"loop", "insHead", "insNew", "insLink", "insPublish",
       "insCount", "insUnlock", "insUnlockNext", "insEnd", "search", "seaHead",
       "seaUnlock", "seaFirst", "seaAt", "seaNext", "seaMove", "return", "done"}]
  /\ loops \in [Threads -> 0..NLoops]
  /\ arg \in [Threads -> Keys]
  /\ Nodes = 0..(Cardinality(Nodes) - 1)
  /\ node \in [Threads -> Nodes \cup {NULL}]
  /\ mutex \in Threads \cup {None}
  /\ locked \in [Nodes -> Threads \cup {None}]
  /\ head \in Nodes /\ size \in 0..(NThreads * NLoops)
  /\ key \in [Nodes -> Keys \cup {NULL}]
  /\ next \in [Nodes -> Nodes \cup {NULL}]
  /\ \A t \in Threads : pc[t] \in {"seaAt", "seaNext"} => locked[node[t]] = t

\* The threads that walk over a list never pass one another: who is nearer to
\* the end stays so (nodes are numbered from the end).
Walking(t) == pc[t] \in {"seaAt", "seaNext", "seaMove"}

Front(t) == IF pc[t] = "seaAt" THEN node[t] ELSE next[node[t]]

NobodyPasses ==
  \A t, u \in Threads :
    (/\ Walking(t) /\ Walking(u) /\ Front(t) < Front(u)
     /\ Walking(t)' /\ Walking(u)') => Front(t)' < Front(u)'

\* The assertions of worker_test (shared.hpp:42 and 44): a thread finds the key
\* it inserted, and never the key nobody inserts; and of main_collection (:93):
\* the list has every insertion.
WorkerTestAsserts ==
  mode = "test" =>
    /\ \A t \in Threads : pc[t] = "return" =>
         IF loops[t] < NLoops
         THEN node[t] # NULL /\ key[node[t]] = arg[t]
         ELSE node[t] = NULL
    /\ AllDone => size = NThreads * NLoops

InList == {n \in Nodes : n # End /\ n <= head}

\* Every node a search can reach is linked to the one inserted before it: no
\* insertion is lost, and there is no cycle.
NothingSkipped == \A n \in InList : next[n] = n - 1

\* insert() takes effect when head_ is assigned, search() when it locks the
\* head: what it walks over is then decided, whatever is inserted meanwhile.
Answer(t) ==
  IF pc[t] \in {"seaUnlock", "seaFirst"}
  THEN IF \E n \in InList : key[n] = arg[t] THEN "found" ELSE "missing"
  ELSE IF Walking(t)
  THEN IF \E n \in InList : n <= node[t] /\ key[n] = arg[t]
       THEN "found" ELSE "missing"
  ELSE IF pc[t] = "return"
  THEN IF node[t] # NULL THEN "found" ELSE "missing"
  ELSE "none"

Abstract ==
  INSTANCE ListSpec WITH
    keys <- {key[n] : n \in InList},
    size <- size + Cardinality({t \in Threads : pc[t] = "insCount"}),
    answer <- [t \in Threads |-> Answer(t)]

=============================================================================

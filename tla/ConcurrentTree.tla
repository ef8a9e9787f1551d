--------------------------- MODULE ConcurrentTree ---------------------------
(***************************************************************************)
(* hw29-threads-locks-usage/src: bst_simple.cpp, a binary search tree with *)
(* one mutex, and bst_better.cpp, with a shared mutex that searches take   *)
(* together.  The threads are the workers of shared.hpp that insert and    *)
(* search.                                                                 *)
(***************************************************************************)
EXTENDS Integers, FiniteSets

CONSTANTS NThreads, NLoops, Modes, Kinds

VARIABLES
  kind,     \* "simple" or "better"
  mode,     \* "test" for worker_test, "interleave" for worker_interleave
  pc,       \* the next statement of each thread
  loops,    \* the iterations each thread has ended
  arg,      \* the key each thread inserts or looks for
  current, parent,   \* the nodes each thread walks over
  rwMutex,  \* who has the mutex: exclusively, or shared
  tree,     \* the nodes that exist, numbered as created
  root, size, height

vars == <<kind, mode, pc, loops, arg, current, parent, rwMutex, tree, root, size, height>>

Threads == 0..(NThreads - 1)
Keys == 0..NLoops           \* search(nloops) looks for a key nobody inserts
None == -1
NULL == -1
Nodes == DOMAIN tree

Init ==
  /\ kind \in Kinds /\ mode \in Modes
  /\ pc = [t \in Threads |-> "loop"]
  /\ loops = [t \in Threads |-> 0]
  /\ arg = [t \in Threads |-> 0]
  /\ current = [t \in Threads |-> NULL]
  /\ parent = [t \in Threads |-> NULL]
  /\ rwMutex = [exclusive |-> None, shared |-> {}]
  /\ tree = <<>>
  /\ root = NULL /\ size = 0 /\ height = 0

Goto(t, from, to) == pc[t] = from /\ pc' = [pc EXCEPT ![t] = to]

\* std::shared_mutex; lock_shared() is lock() where the mutex is a std::mutex.
Lock(t) ==
  /\ rwMutex.exclusive = None /\ rwMutex.shared = {}
  /\ rwMutex' = [rwMutex EXCEPT !.exclusive = t]

LockShared(t) ==
  IF kind = "simple" THEN Lock(t)
  ELSE /\ rwMutex.exclusive = None
       /\ rwMutex' = [rwMutex EXCEPT !.shared = @ \cup {t}]

Unlock(t) ==
  rwMutex' = [exclusive |-> IF rwMutex.exclusive = t THEN None ELSE rwMutex.exclusive,
              shared |-> rwMutex.shared \ {t}]

\* Where the walk goes from a node.
Child(n, k) == IF k < tree[n].key THEN tree[n].left ELSE tree[n].right

-----------------------------------------------------------------------------
(* insert(key).                                                            *)

\* An iteration inserts its number, or any key.
Insert(t) ==
  /\ loops[t] < NLoops /\ Goto(t, "loop", "insWalk")
  /\ Lock(t)
  /\ \E k \in IF mode = "test" THEN {loops[t]} ELSE Keys :
       arg' = [arg EXCEPT ![t] = k]
  /\ current' = [current EXCEPT ![t] = root]
  /\ UNCHANGED <<kind, mode, loops, parent, tree, root, size, height>>

InsertWalk(t) ==
  /\ Goto(t, "insWalk", "insWalk") /\ current[t] # NULL
  /\ parent' = [parent EXCEPT ![t] = current[t]]
  /\ current' = [current EXCEPT ![t] = Child(@, arg[t])]
  /\ UNCHANGED <<kind, mode, loops, arg, rwMutex, tree, root, size, height>>

InsertNew(t) ==
  LET new == Cardinality(Nodes)
      above == IF parent[t] = NULL THEN -1 ELSE tree[parent[t]].height
      node == [key |-> arg[t], height |-> above + 1, left |-> NULL, right |-> NULL]
  IN  /\ Goto(t, "insWalk", "insLink") /\ current[t] = NULL
      /\ tree' = [n \in Nodes \cup {new} |-> IF n = new THEN node ELSE tree[n]]
      /\ current' = [current EXCEPT ![t] = new]
      /\ UNCHANGED <<kind, mode, loops, arg, parent, rwMutex, root, size, height>>

InsertLink(t) ==
  LET p == parent[t]
      n == current[t]
  IN  /\ Goto(t, "insLink", "insCount")
      /\ IF p = NULL
         THEN root' = n /\ UNCHANGED tree
         ELSE /\ tree' = IF tree[n].key < tree[p].key
                         THEN [tree EXCEPT ![p].left = n]
                         ELSE [tree EXCEPT ![p].right = n]
              /\ UNCHANGED root
      /\ UNCHANGED <<kind, mode, loops, arg, current, parent, rwMutex, size, height>>

InsertCount(t) ==
  LET new == tree[current[t]].height
  IN  /\ Goto(t, "insCount", "insUnlock")
      /\ size' = size + 1
      /\ height' = IF height < new THEN new ELSE height
      /\ UNCHANGED <<kind, mode, loops, arg, current, parent, rwMutex, tree, root>>

\* Its local variables end with it.
InsertUnlock(t) ==
  /\ Goto(t, "insUnlock", "search")
  /\ Unlock(t)
  /\ current' = [current EXCEPT ![t] = NULL]
  /\ parent' = [parent EXCEPT ![t] = NULL]
  /\ UNCHANGED <<kind, mode, loops, arg, tree, root, size, height>>

-----------------------------------------------------------------------------
(* search(key).                                                            *)

\* worker_test looks for the key it inserted and, at its end, for nloops;
\* worker_interleave for any key.
Search(t) ==
  /\ \/ Goto(t, "search", "seaWalk")
     \/ mode = "test" /\ loops[t] = NLoops /\ Goto(t, "loop", "seaWalk")
  /\ LockShared(t)
  /\ \E k \in IF mode = "interleave" THEN Keys
              ELSE IF loops[t] = NLoops THEN {NLoops} ELSE {arg[t]} :
       arg' = [arg EXCEPT ![t] = k]
  /\ current' = [current EXCEPT ![t] = root]
  /\ UNCHANGED <<kind, mode, loops, parent, tree, root, size, height>>

Arrived(t) == current[t] # NULL => tree[current[t]].key = arg[t]

SearchWalk(t) ==
  /\ Goto(t, "seaWalk", "seaWalk") /\ ~Arrived(t)
  /\ current' = [current EXCEPT ![t] = Child(@, arg[t])]
  /\ UNCHANGED <<kind, mode, loops, arg, parent, rwMutex, tree, root, size, height>>

SearchEnd(t) ==
  /\ Goto(t, "seaWalk", "return") /\ Arrived(t)
  /\ Unlock(t)
  /\ UNCHANGED <<kind, mode, loops, arg, current, parent, tree, root, size, height>>

\* The worker has looked at the result.
SearchReturn(t) ==
  /\ IF loops[t] = NLoops
     THEN Goto(t, "return", "done") /\ UNCHANGED loops
     ELSE /\ Goto(t, "return", "loop")
          /\ loops' = [loops EXCEPT ![t] = @ + 1]
  /\ current' = [current EXCEPT ![t] = NULL]
  /\ arg' = [arg EXCEPT ![t] = 0]
  /\ UNCHANGED <<kind, mode, parent, rwMutex, tree, root, size, height>>

-----------------------------------------------------------------------------

\* worker_interleave() returns after its loop.
Return(t) ==
  /\ mode = "interleave" /\ loops[t] = NLoops /\ Goto(t, "loop", "done")
  /\ UNCHANGED <<kind, mode, loops, arg, current, parent, rwMutex, tree, root, size,
                 height>>

Worker(t) ==
  \/ Insert(t) \/ InsertWalk(t) \/ InsertNew(t) \/ InsertLink(t) \/ InsertCount(t)
  \/ InsertUnlock(t) \/ Search(t) \/ SearchWalk(t) \/ SearchEnd(t)
  \/ SearchReturn(t) \/ Return(t)

AllDone == \A t \in Threads : pc[t] = "done"

Ended == AllDone /\ UNCHANGED vars

Next == (\E t \in Threads : Worker(t)) \/ Ended

Spec == Init /\ [][Next]_vars

-----------------------------------------------------------------------------
(* Properties.                                                             *)

Inserting(t) == pc[t] \in {"insWalk", "insLink", "insCount", "insUnlock"}

\* Who changes the tree has it alone; and only bst_better.cpp lets several
\* search at a time.
TypeOK ==
  /\ rwMutex.exclusive \in Threads \cup {None} /\ rwMutex.shared \subseteq Threads
  /\ rwMutex.exclusive # None => rwMutex.shared = {}
  /\ kind = "simple" => rwMutex.shared = {}
  /\ \A t \in Threads :
       /\ Inserting(t) => rwMutex.exclusive = t
       /\ pc[t] = "seaWalk" => t = rwMutex.exclusive \/ t \in rwMutex.shared

\* The nodes on the way from the root to where a key is or would be.
Path(k) ==
  LET walk[n \in Nodes \cup {NULL}] ==
        IF n = NULL THEN {} ELSE {n} \cup walk[Child(n, k)]
  IN  walk[root]

\* All that is linked is found by its key, but behind those of equal keys, and
\* lies as deep as it says; size and height are those of the tree.
Searchable ==
  LET linked == IF \E t \in Threads : pc[t] = "insLink"
                THEN Nodes \ {Cardinality(Nodes) - 1} ELSE Nodes
  IN  /\ \A n \in linked : n \in Path(tree[n].key)
      /\ \A n \in linked :
           tree[n].height = Cardinality({m \in linked : m # n /\ m \in Path(tree[n].key)
                                           /\ m < n})
      /\ (\A t \in Threads : ~Inserting(t)) =>
           /\ size = Cardinality(Nodes)
           /\ height = IF Nodes = {} THEN 0
                       ELSE CHOOSE h \in {tree[n].height : n \in Nodes} :
                              \A n \in Nodes : tree[n].height <= h

\* The assertions of worker_test (shared.hpp:42 and 44): a thread finds the key
\* it inserted, and never the key nobody inserts; and of main_collection (:93):
\* the tree has every insertion.
WorkerTestAsserts ==
  mode = "test" =>
    /\ \A t \in Threads : pc[t] = "return" =>
         IF loops[t] < NLoops
         THEN current[t] # NULL /\ tree[current[t]].key = arg[t]
         ELSE current[t] = NULL
    /\ AllDone => size = NThreads * NLoops

\* insert() takes effect when it links the node, search() when it takes the
\* mutex: what it finds is then decided.
Linked == {tree[n].key : n \in UNION {Path(k) : k \in Keys}}

Answer(t) ==
  IF pc[t] = "seaWalk" THEN IF arg[t] \in Linked THEN "found" ELSE "missing"
  ELSE IF pc[t] = "return" THEN IF current[t] # NULL THEN "found" ELSE "missing"
  ELSE "none"

Abstract ==
  INSTANCE ListSpec WITH
    keys <- Linked,
    size <- size + Cardinality({t \in Threads : pc[t] = "insCount"}),
    answer <- [t \in Threads |-> Answer(t)]

=============================================================================

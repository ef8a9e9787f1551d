SPECIFICATION FairSpec
\* 3 increments are not a multiple of the threshold, and two threads share a CPU;
\* three threads meet in lists of up to three nodes, two in trees of up to four.
CONSTANTS
  Running = {"own CPU", "shared CPU", "list", "vectors", "rendezvous", "tree", "API"}
  CounterThreads = 3 CounterLoops = 3 Threshold = 2 SharedCpus = 2
  ListThreads = 3 ListLoops = 1
  VectorThreads = 3 VectorLoops = 1 VectorSize = 2
  TreeThreads = 2 TreeLoops = 2
INVARIANTS
  TypeOK
  CountsAddUp
  ResultsHold
PROPERTIES
  Atomic
  EverybodyReturns

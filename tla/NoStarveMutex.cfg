CONSTANTS
  NThreads = 4
  NLoops = 6
  Endings = {TRUE, FALSE}
  IntMod = 8
SPECIFICATION FairSpec
INVARIANTS
  TypeOK
  MutexOwned
  FairTurns
  FinalCounts
PROPERTY Served

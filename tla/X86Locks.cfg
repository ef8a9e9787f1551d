SPECIFICATION FairSpec
CONSTANTS
  Programs <- MCPrograms
  Options <- MCOptions
  Addresses <- MCAddresses
  LoadAddr = 1000
  MemSize = 128
INVARIANTS TypeOK MutualExclusion CountExact
PROPERTIES RunReturns Implements

SPECIFICATION FairSpec
CONSTANTS
  Programs <- MCPrograms
  Options <- FlagCallRetOptions
  Addresses <- MCAddresses
  LoadAddr = 1000
  MemSize = 128
INVARIANT MutexHeld

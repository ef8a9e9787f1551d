CONSTANT
  Simulated = {"vsfs", "fsck", "ffs", "raid", "raid-graphics", "disk", "process-run",
               "scheduler", "lottery", "fork", "generator", "malloc", "paging-policy",
               "translation", "multilevel"}
SPECIFICATION FairSpec
INVARIANTS
  TypeOK
  StorageSound
  PlacesDistinct
  PoliciesHold
  CPUShared
PROPERTIES
  StepsInOrder
  NamesKept
  EveryRunEnds

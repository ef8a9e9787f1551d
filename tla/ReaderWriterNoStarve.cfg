CONSTANTS
  Readers = {r1, r2}
  Writers = {w1, w2}
  NLoops = 1
  Endless = TRUE
  IntMod = 2
SPECIFICATION FairSpec
INVARIANT TypeOK
PROPERTIES
  NoOvertaking
  Implements
  Progress

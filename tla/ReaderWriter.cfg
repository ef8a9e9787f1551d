CONSTANTS
  Readers = {r1, r2}
  Writers = {w1, w2}
  NLoops = 2
  Endless = FALSE
  IntMod = 16
SPECIFICATION FairSpec
INVARIANTS
  TypeOK
  FinalValue
PROPERTIES
  Termination
  Implements

\* Two threads share a CPU.
SPECIFICATION Spec
CONSTANTS
  NThreads = 2
  NLoops = 2
  NCpus = 1
  Threshold = 2
INVARIANT AssertGet

SPECIFICATION FairSpec
CONSTANTS
  NumJobs = 3
  NumQueues = 3
  Options <- EagerBoost
  JobInputs <- LongJobs
INVARIANT BoostAvoidsStarvation

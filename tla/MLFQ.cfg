SPECIFICATION FairSpec
CONSTANTS
  NumJobs = 3
  NumQueues = 3
  Options <- MCOptions
  JobInputs <- MCJobInputs
INVARIANT TypeOK Placement Budget WaitBounded
PROPERTY DemotedWhenUsedUp AllJobsFinish

\* The cache does not show the clean-up Job yet.
SPECIFICATION FairSpec
CONSTANTS
  MaxLives = 1
  MaxFaults = 0
  Faults = {"staleJobs"}
PROPERTY FinishedJobGoes
CHECK_DEADLOCK FALSE

\* The cache does not show a Job just created.
SPECIFICATION FairSpec
CONSTANTS
  i1 = i1  i2 = i2  e1 = e1  e2 = e2
  Image = {i1, i2}
  Export = {e1}
  ExportOf <- OneExport
  FullName <- TwoNames
  Storage <- InS3
  MaxConcurrentJobs <- OneAtATime
  NoImage = NoImage
  RetryLimit = 1
  MaxRestarts = 1
  MaxDrift = 1
  Faults = {"staleJobs"}
PROPERTY EventuallySettled
CHECK_DEADLOCK FALSE

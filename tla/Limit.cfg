\* The limits on Jobs and retries, with restarts, stale Pods and lost Jobs.
SPECIFICATION Spec
CONSTANTS
  i1 = i1  i2 = i2  e1 = e1  e2 = e2
  Image = {i1, i2}
  Export = {e1}
  ExportOf <- OneExport
  FullName <- TwoNames
  Storage <- InS3
  MaxConcurrentJobs <- OneAtATime
  NoImage = NoImage
  RetryLimit = 2
  MaxRestarts = 1
  MaxDrift = 1
  Faults = {"restarts", "stalePods", "lostJobs"}
SYMMETRY SwapImages
INVARIANT TypeOK
INVARIANT JobsWithinLimit
INVARIANT GivesUpAtTheLimit
PROPERTY CompletedExportIsDone
PROPERTY CompletedUndoneByOldPods
CHECK_DEADLOCK FALSE

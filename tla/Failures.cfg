\* Crashes, failing calls and a lagging cache of Jobs, all in one run.
SPECIFICATION Spec
CONSTANTS
  i1 = i1  i2 = i2  e1 = e1  e2 = e2
  Image = {i1, i2}
  Export = {e1}
  ExportOf <- OneExport
  FullName <- TwoNames
  Storage <- InS3
  MaxConcurrentJobs <- TwoAtATime
  NoImage = NoImage
  RetryLimit = 1
  MaxRestarts = 1
  MaxDrift = 1
  Faults = {"crashes", "apiErrors", "lostReplies", "staleJobs"}
SYMMETRY SwapImages
INVARIANT LifecycleInv
INVARIANT CompletedWasUploaded
PROPERTY OutcomeRecordedFirst
CHECK_DEADLOCK FALSE

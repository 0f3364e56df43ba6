\* Two exports have the same image.
SPECIFICATION Spec
CONSTANTS
  i1 = i1  i2 = i2  e1 = e1  e2 = e2
  Image = {i1, i2}
  Export = {e1, e2}
  ExportOf <- TwoExports
  FullName <- SameName
  Storage <- InS3
  MaxConcurrentJobs <- TwoAtATime
  NoImage = NoImage
  RetryLimit = 1
  MaxRestarts = 1
  MaxDrift = 1
  Faults = {}
SYMMETRY SwapExports
INVARIANT NoneMissed
CHECK_DEADLOCK FALSE

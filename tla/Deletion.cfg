\* An export is deleted, created again and deleted again, with all faults.
SPECIFICATION FairSpec
CONSTANTS
  MaxLives = 3
  MaxFaults = 3
  Faults = {"staleExport", "staleJobs", "conflicts", "apiErrors", "lostReplies", "crashes", "removals"}
INVARIANT CleanedBeforeRelease
PROPERTIES BackupsSurvive EventuallyReleased WaitersDelete
CHECK_DEADLOCK FALSE

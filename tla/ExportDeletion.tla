--------------------------- MODULE ExportDeletion ---------------------------
(***************************************************************************)
(* handleDeletion (clusterimageexport_controller.go): an export that is    *)
(* deleted is held by its finalizer until a clean-up Job has been created. *)
(* That Job removes the directory of the export's files, and a goroutine   *)
(* waits for it and deletes it. The directory and the Job are named after  *)
(* the export, and a user may create an export of the same name again.     *)
(*                                                                         *)
(* An export is there from the moment it has its finalizer: there are no   *)
(* images before (FinalizerFirst, ClusterImageExportReconciler).           *)
(***************************************************************************)
EXTENDS Naturals

CONSTANTS
  MaxLives,   \* bound: how often the export is created
  Faults,     \* the faults that the environment may produce
  MaxFaults   \* bound: how many of them, late caches not counted

FaultKinds ==
  { "staleExport",   \* the cache of the exports lags behind
    "staleJobs",     \* the cache of the Jobs lags behind
    "conflicts",     \* the other controller writes the status of the export
    "apiErrors",     \* a write fails and has no effect
    "lostReplies",   \* a write takes effect and the caller gets an error
    "crashes",       \* the operator's process dies and starts again
    "removals" }     \* removeAllJobsAndContainers finds the clean-up Job

ASSUME ConstantsAssumption ==
  /\ MaxLives \in Nat
  /\ Faults \subseteq FaultKinds
  /\ MaxFaults \in Nat

VARIABLES
  export,      \* the export of that name
  exportSeen,  \* the cache's copy of it
  latest,      \* who holds its latest version
  lives,       \* how many exports there have been
  job,         \* the clean-up Job
  jobSeen,     \* the cache's copy of it
  files,       \* the export of now has files in the directory
  due,         \* the export is in the work queue
  pc,          \* where the worker is in handleDeletion
  waiting,     \* the number of goroutines that wait for the Job
  deleting,    \* the number of those that are about to delete it
  cleaned,     \* history: a Job was created after the deletion of the export
  hasty,       \* history: something of the last export was left at the creation
  faults       \* history: the number of faults

exportVars == <<export, exportSeen, latest, lives, hasty>>
jobVars    == <<job, jobSeen, files, cleaned>>
waiters    == <<waiting, deleting>>
vars == <<exportVars, jobVars, waiters, due, pc, faults>>

ExportState == {"none", "live", "deleted"}
JobState == {"none", "active", "succeeded", "failed"}
Finished == {"succeeded", "failed"}
Holder == {"cache", "worker"}

Init ==
  /\ export = "none" /\ exportSeen = "none" /\ latest = {"cache"}
  /\ lives = 0
  /\ job = "none" /\ jobSeen = "none"
  /\ files = FALSE
  /\ due = FALSE /\ pc = "idle"
  /\ waiting = 0 /\ deleting = 0
  /\ cleaned = FALSE /\ hasty = FALSE
  /\ faults = 0

Fault(f) == f \in Faults /\ faults < MaxFaults /\ faults' = faults + 1
NoFault == UNCHANGED faults

Return(again) == pc' = "idle" /\ due' = (due \/ again)
Goto(step) == pc' = step /\ UNCHANGED due

-----------------------------------------------------------------------------
\* handleDeletion. A live export is left to ClusterImageExportReconciler.

Reconcile ==
  /\ pc = "idle" /\ due
  /\ "cache" \in latest \/ "staleExport" \in Faults
  /\ due' = FALSE
  /\ pc' = IF exportSeen = "deleted" THEN "createJob" ELSE "idle"
  /\ latest' = IF "cache" \in latest THEN latest \cup {"worker"} ELSE latest \ {"worker"}
  /\ UNCHANGED <<export, exportSeen, lives, hasty, jobVars, waiters, faults>>

JobCreated ==
  /\ job = "none"
  /\ job' = "active"
  /\ cleaned' = (cleaned \/ export = "deleted")

\* Mutant: a Job that is there already is as good as a new one.
CreateJob_ExistsIsFine ==
  /\ pc = "createJob"
  /\ \/ JobCreated /\ waiting' = waiting + 1
     \/ job # "none" /\ UNCHANGED <<job, cleaned, waiting>>
  /\ Goto("removeFinalizer")
  /\ UNCHANGED <<exportVars, jobSeen, files, deleting, faults>>

\* runCleanupJob. A Job that is there already is an error.
CreateJob ==
  /\ pc = "createJob"
  /\ \/ JobCreated /\ waiting' = waiting + 1 /\ Goto("removeFinalizer") /\ NoFault
     \/ /\ (job # "none" /\ NoFault) \/ Fault("apiErrors")
        /\ Return(TRUE) /\ UNCHANGED <<job, cleaned, waiting>>
     \/ JobCreated /\ Fault("lostReplies") /\ Return(TRUE) /\ UNCHANGED waiting
  /\ UNCHANGED <<exportVars, jobSeen, files, deleting>>

Released ==
  /\ "worker" \in latest
  /\ export' = "none"
  /\ latest' = {}

\* Mutant: the error is not returned.
RemoveFinalizer_ErrorDropped ==
  /\ pc = "removeFinalizer"
  /\ \/ Released /\ NoFault
     \/ /\ ("worker" \notin latest /\ NoFault) \/ Fault("apiErrors")
        /\ UNCHANGED <<export, latest>>
  /\ Return(FALSE)
  /\ UNCHANGED <<exportSeen, lives, hasty, jobVars, waiters>>

RemoveFinalizer ==
  /\ pc = "removeFinalizer"
  /\ \/ Released /\ Return(FALSE) /\ NoFault
     \/ Released /\ Return(TRUE) /\ Fault("lostReplies")
     \/ /\ ("worker" \notin latest /\ NoFault) \/ Fault("apiErrors")
        /\ Return(TRUE)
        /\ UNCHANGED <<export, latest>>
  /\ UNCHANGED <<exportSeen, lives, hasty, jobVars, waiters>>

-----------------------------------------------------------------------------
\* waitForJobCompletionAndDelete, by any of the goroutines that run it.

ReadsJob == jobSeen = job \/ "staleJobs" \in Faults

Ends == waiting' = waiting - 1 /\ UNCHANGED deleting

\* Mutant: a Job that is not there is created again.
Poll_CreatesAgain ==
  /\ waiting > 0 /\ ReadsJob
  /\ \/ jobSeen = "none" /\ JobCreated /\ UNCHANGED waiters
     \/ jobSeen \in Finished /\ waiting' = waiting - 1 /\ deleting' = deleting + 1
        /\ UNCHANGED <<job, cleaned>>
  /\ UNCHANGED <<exportVars, jobSeen, files, due, pc, faults>>

\* Mutant: only a Job that has succeeded is deleted.
Poll_SucceededOnly ==
  /\ waiting > 0 /\ ReadsJob
  /\ \/ jobSeen = "none" /\ Ends
     \/ jobSeen = "succeeded" /\ waiting' = waiting - 1 /\ deleting' = deleting + 1
  /\ UNCHANGED <<exportVars, jobVars, due, pc, faults>>

\* A look at a Job that is not there ends the wait, one at a finished Job leads to its
\* deletion; an active Job is looked at again.
Poll ==
  /\ waiting > 0 /\ ReadsJob
  /\ \/ jobSeen = "none" /\ Ends
     \/ jobSeen \in Finished /\ waiting' = waiting - 1 /\ deleting' = deleting + 1
  /\ UNCHANGED <<exportVars, jobVars, due, pc, faults>>

\* By name: whatever Job has it now.
DeleteJob ==
  /\ deleting > 0
  /\ deleting' = deleting - 1
  /\ \/ job' = "none" /\ NoFault
     \/ UNCHANGED job /\ Fault("apiErrors")
  /\ UNCHANGED <<exportVars, jobSeen, files, cleaned, due, pc, waiting>>

-----------------------------------------------------------------------------
\* Kubernetes and the users.

\* A Job that fails may have removed the files.
JobEnds ==
  /\ job = "active"
  /\ job' \in Finished
  /\ files' \in (IF job' = "succeeded" THEN {FALSE} ELSE {files, FALSE})
  /\ UNCHANGED <<exportVars, jobSeen, cleaned, waiters, due, pc, faults>>

RemoveAllJobs ==
  /\ jobSeen # "none" /\ job # "none"
  /\ Fault("removals")
  /\ job' = "none"
  /\ UNCHANGED <<exportVars, jobSeen, files, cleaned, waiters, due, pc>>

CreateExport ==
  /\ export = "none" /\ lives < MaxLives
  /\ export' = "live" /\ latest' = {}
  /\ lives' = lives + 1
  /\ hasty' = (exportSeen # "none" \/ pc # "idle" \/ job # "none")
  /\ files' = FALSE /\ cleaned' = FALSE
  /\ UNCHANGED <<exportSeen, job, jobSeen, waiters, due, pc, faults>>

DeleteExport ==
  /\ export = "live"
  /\ export' = "deleted" /\ latest' = {}
  /\ UNCHANGED <<exportSeen, lives, hasty, jobVars, waiters, due, pc, faults>>

\* A backup Job of the export ends.
Upload ==
  /\ export # "none"
  /\ files' = TRUE
  /\ UNCHANGED <<exportVars, job, jobSeen, cleaned, waiters, due, pc, faults>>

StatusWritten ==
  /\ export # "none"
  /\ Fault("conflicts")
  /\ latest' = {}
  /\ UNCHANGED <<export, exportSeen, lives, hasty, jobVars, waiters, due, pc>>

SyncExport ==
  /\ "cache" \notin latest
  /\ exportSeen' = export /\ latest' = latest \cup {"cache"}
  /\ due' = TRUE
  /\ UNCHANGED <<export, lives, hasty, jobVars, waiters, pc, faults>>

SyncJob ==
  /\ jobSeen # job
  /\ jobSeen' = job
  /\ UNCHANGED <<exportVars, job, files, cleaned, waiters, due, pc, faults>>

\* An image of the export changes: the export is looked at again.
ImageEvent ==
  /\ ~ due /\ exportSeen # "none"
  /\ due' = TRUE
  /\ UNCHANGED <<exportVars, jobVars, waiters, pc, faults>>

Crash ==
  /\ Fault("crashes")
  /\ exportSeen' = export /\ latest' = {"cache"} /\ jobSeen' = job
  /\ due' = TRUE /\ pc' = "idle" /\ waiting' = 0 /\ deleting' = 0
  /\ UNCHANGED <<export, lives, hasty, job, files, cleaned>>

Operator == Reconcile \/ CreateJob \/ RemoveFinalizer \/ Poll \/ DeleteJob \/ Crash
Cluster == JobEnds \/ RemoveAllJobs \/ SyncExport \/ SyncJob \/ ImageEvent
Users == CreateExport \/ DeleteExport \/ Upload \/ StatusWritten

Next == Operator \/ Cluster \/ Users

Spec == Init /\ [][Next]_vars

\* The worker, the goroutines and the watches go on, and the Job ends.
Fairness ==
  /\ WF_vars(Reconcile) /\ WF_vars(CreateJob) /\ WF_vars(RemoveFinalizer)
  /\ WF_vars(Poll) /\ WF_vars(DeleteJob)
  /\ WF_vars(JobEnds) /\ WF_vars(SyncExport) /\ WF_vars(SyncJob)

FairSpec == Spec /\ Fairness

-----------------------------------------------------------------------------
\* Properties.

TypeOK ==
  /\ export \in ExportState /\ exportSeen \in ExportState
  /\ latest \subseteq Holder
  /\ lives \in 0 .. MaxLives
  /\ job \in JobState /\ jobSeen \in JobState
  /\ pc \in {"idle", "createJob", "removeFinalizer"}
  /\ waiting \in Nat /\ deleting \in Nat
  /\ {files, due, cleaned, hasty} \subseteq BOOLEAN
  /\ faults \in 0 .. MaxFaults

\* An export goes only after a clean-up Job was created for it, one that began after
\* its deletion (the finalizer, handleDeletion).
CleanedBeforeRelease == export = "none" /\ lives > 0 => cleaned

\* No clean-up removes the files of a live export, unless it was created while the
\* last export of its name, or its clean-up, was still somewhere.
BackupsSurvive == [][export = "live" /\ files /\ ~ files' => hasty]_vars

\* There is a clean-up Job, and no goroutine that would delete it.
Orphaned == job # "none" /\ waiting = 0 /\ deleting = 0

\* A deleted export is let go in the end, however often creations, updates and
\* crashes make handleDeletion begin again, unless a Job without a goroutine has
\* taken the name (runCleanupJob).
EventuallyReleased == export = "deleted" ~> (export # "deleted" \/ Orphaned)

\* A clean-up Job goes in the end if a goroutine is left that waits for it.
WaitersDelete == job # "none" ~> (job = "none" \/ Orphaned)

\* "Wait for the job to complete", "delete it" (waitForJobCompletionAndDelete).
FinishedJobGoes == job \in Finished ~> job = "none"
=============================================================================

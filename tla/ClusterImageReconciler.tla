----------------------- MODULE ClusterImageReconciler -----------------------
(***************************************************************************)
(* The controller of the ClusterImages                                     *)
(* (internal/controller/raczylo.com/clusterimage_controller.go): one       *)
(* worker that takes an image from the work queue, runs Reconcile on it    *)
(* and puts it back when Reconcile asks for it or fails.  A step is one    *)
(* call to the API server, or the reads of the caches and the computation  *)
(* between two such calls; pc names the call the worker is about to make.  *)
(***************************************************************************)
EXTENDS Cluster

CONSTANT NoImage   \* the worker holds no image

ASSUME NoImageAssumption == NoImage \notin Image

VARIABLES
  queue,        \* keys of the work queue
  pc,           \* where the worker is in Reconcile
  cur,          \* the image it reconciles
  obj,          \* its local copy of the image's status
  todo,         \* Jobs removeAllJobsAndContainers has still to delete
  newStatus,    \* the status it is about to give the export
  activeJobs    \* r.ActiveJobs

workerVars == <<pc, cur, obj, todo, newStatus>>
vars == <<clusterVars, queue, workerVars, activeJobs>>

Steps ==
  { "setPending", "checkImageExists", "setPresent", "createBackupJob",
    "setRunning", "confirmRunning", "getJob", "recordOutcome", "deleteJob",
    "deletePods", "listPods", "setFailed", "setRetrying", "listJobs",
    "removeJobs", "finalUpdate", "exportStatus", "setExport" }

WorkerTypeOK ==
  /\ queue \subseteq Image
  /\ pc \in Steps \cup {"idle"}
  /\ cur \in Image \cup {NoImage}
  /\ pc # "idle" => cur \in Image
  /\ obj \in ImageStatus
  /\ todo \subseteq Image
  /\ newStatus \in Progress
  /\ activeJobs \in Int

TypeOK == ClusterTypeOK /\ WorkerTypeOK

Init ==
  /\ ClusterInit
  /\ queue = {}
  /\ pc = "idle"
  /\ cur = NoImage
  /\ obj = NoStatus
  /\ todo = {}
  /\ newStatus = Absent
  /\ activeJobs = 0

-----------------------------------------------------------------------------
\* What the steps are made of.

May(f) == MayFault(f, activeJobs)

\* The worker's next read of o finds the latest version, or caches may lag.
Reads(o) == o \in current["cache"] \/ May("staleObjects")

Continue(step, o) ==
  /\ pc' = step
  /\ obj' = o
  /\ UNCHANGED <<cur, queue, todo, newStatus>>

\* Reconcile returns; "again" is {cur} when it asks to be called again.
Return(again) ==
  /\ pc' = "idle"
  /\ cur' = NoImage
  /\ obj' = NoStatus
  /\ todo' = {}
  /\ newStatus' = Absent
  /\ queue' = queue \cup again

\* Reconcile returns an error: the work queue is given the key again.
Fail == Return({cur}) /\ UNCHANGED activeJobs

\* The API server accepts an update only of the latest version of the object.
UpToDate_Patch(o) == TRUE   \* a Patch() without the resourceVersion
UpToDate(o) == o \in current["imageCtl"]

\* r.Status().Update(ctx, clusterImage) with the status o: accepted, refused
\* (a conflict, no such object, an API error), or accepted and the reply lost.
StatusUpdate(o, Then) ==
  \/ /\ UpToDate(cur)
     /\ PutImage("imageCtl", cur, o)
     /\ Then
  \/ /\ ~ UpToDate(cur) \/ May("apiErrors")
     /\ UNCHANGED <<image, current>>
     /\ Fail
  \/ /\ UpToDate(cur)
     /\ May("lostReplies")
     /\ PutImage("imageCtl", cur, o)
     /\ Fail

\* The calls on a Job or on Pods, which need no resourceVersion.
Call(Effect, NoEffect, Then) ==
  \/ Effect /\ Then
  \/ May("apiErrors") /\ NoEffect /\ Fail
  \/ May("lostReplies") /\ Effect /\ Fail

-----------------------------------------------------------------------------
\* Reconcile.

Fetch(i) ==
  /\ pc = "idle"
  /\ i \in queue
  /\ Reads(i)
  /\ Reads(ExportOf[i])

\* The statuses handlePendingClusterImage is called for.
IsPending_FailedToo(p) == p \in {PENDING, FAILED}
IsPending(p) == p = PENDING

\* The one gate on the number of Jobs: r.ActiveJobs < r.MaxParallelJobs.
Room_OneMore(i) == activeJobs <= MaxConcurrentJobs[ExportOf[i]]
Room(i) == activeJobs < MaxConcurrentJobs[ExportOf[i]]

Enter(i, step, o) ==
  /\ pc' = step
  /\ cur' = i
  /\ obj' = o
  /\ queue' = queue \ {i}
  /\ current' = ReadBy("imageCtl", i)
  /\ UNCHANGED <<image, export, imageSeen, exportSeen, hidden, jobVars,
                 todo, newStatus, activeJobs>>

\* No such image, or nothing left to do for it: not called again.
ReconcileNothing(i) ==
  /\ Fetch(i)
  /\ \/ SeenProgress(i) = Absent
     \/ /\ exportSeen[ExportOf[i]] # Absent
        /\ SeenProgress(i) \in {SUCCESS, FAILED, PRESENT}
  /\ queue' = queue \ {i}
  /\ UNCHANGED <<clusterVars, workerVars, activeJobs>>

\* No such export (an error), or as many active Jobs as the export allows
\* (again in 30 seconds): the key goes back into the queue.
ReconcileLater(i) ==
  /\ Fetch(i)
  /\ SeenProgress(i) # Absent
  /\ \/ exportSeen[ExportOf[i]] = Absent
     \/ /\ ~ Room(i)
        /\ IsPending(SeenProgress(i))
  /\ UNCHANGED vars

ReconcileNew(i) ==
  /\ Fetch(i)
  /\ exportSeen[ExportOf[i]] # Absent
  /\ SeenProgress(i) = New
  /\ Enter(i, "setPending", Status(PENDING, imageSeen[i].retry))

ReconcilePending(i) ==
  /\ Fetch(i)
  /\ exportSeen[ExportOf[i]] # Absent
  /\ IsPending(SeenProgress(i))
  /\ Room(i)
  /\ Enter(i, "checkImageExists", imageSeen[i])

\* Mutant: a COMPLETED image is looked at again.
ReconcileRunning_CompletedToo(i) ==
  /\ Fetch(i)
  /\ exportSeen[ExportOf[i]] # Absent
  /\ SeenProgress(i) \in {RUNNING, RETRYING, SUCCESS}
  /\ Enter(i, "getJob", imageSeen[i])

ReconcileRunning(i) ==
  /\ Fetch(i)
  /\ exportSeen[ExportOf[i]] # Absent
  /\ SeenProgress(i) \in {RUNNING, RETRYING}
  /\ Enter(i, "getJob", imageSeen[i])

Reconcile(i) ==
  \/ ReconcileNothing(i)
  \/ ReconcileLater(i)
  \/ ReconcileNew(i)
  \/ ReconcilePending(i)
  \/ ReconcileRunning(i)

\* The update to PENDING, of a new image and of one whose Job is gone.
SetPending ==
  /\ pc = "setPending"
  /\ StatusUpdate(obj, Return({cur}) /\ UNCHANGED activeJobs)
  /\ UNCHANGED <<export, imageSeen, exportSeen, hidden, jobVars>>

-----------------------------------------------------------------------------
\* handlePendingClusterImage.

\* The statuses in which another image of the same name makes this one PRESENT.
Covers_Queued(p) == p \in {SUCCESS, PRESENT, RUNNING, PENDING}
Covers(p) == p \in {SUCCESS, PRESENT, RUNNING}

ImageExists(i) ==
  \/ \E j \in Image \ {i} : FullName[j] = FullName[i] /\ Covers(SeenProgress(j))
  \/ obj.progress = SUCCESS

CheckImageExists ==
  /\ pc = "checkImageExists"
  /\ \A j \in Image : Reads(j)
  /\ \/ /\ ImageExists(cur)
        /\ Continue("setPresent", Status(PRESENT, obj.retry))
     \/ /\ ~ ImageExists(cur)
        /\ exportSeen[ExportOf[cur]] # Absent
        /\ Continue("createBackupJob", obj)
     \/ /\ ~ ImageExists(cur)
        /\ exportSeen[ExportOf[cur]] = Absent
        /\ Return({cur})
  /\ UNCHANGED <<clusterVars, activeJobs>>

SetPresent ==
  /\ pc = "setPresent"
  /\ StatusUpdate(obj, Return({}) /\ UNCHANGED activeJobs)
  /\ UNCHANGED <<export, imageSeen, exportSeen, hidden, jobVars>>

\* The Job's name is the image's: while one exists, no other can be created.
JobCreated ==
  /\ job[cur] = "none"
  /\ job' = [job EXCEPT ![cur] = "active"]
  /\ restartsSeen' = [restartsSeen EXCEPT ![cur] = 0]
  /\ attempted' = attempted \cup {cur}

Started_Starting == Status("STARTING", obj.retry)
Started == Status(RUNNING, obj.retry)

CreateBackupJob ==
  /\ pc = "createBackupJob"
  /\ \/ Call(JobCreated, UNCHANGED <<job, restartsSeen, attempted>>,
             /\ Continue("setRunning", Started)
             /\ UNCHANGED activeJobs)
     \/ /\ job[cur] # "none"
        /\ UNCHANGED <<job, restartsSeen, attempted>>
        /\ Fail
  /\ UNCHANGED <<objectVars, deleting, jobSeen, succeeded>>

\* createBackupJob ends with the first of two updates to RUNNING ...
SetRunning ==
  /\ pc = "setRunning"
  /\ StatusUpdate(obj, Continue("confirmRunning", obj) /\ UNCHANGED activeJobs)
  /\ UNCHANGED <<export, imageSeen, exportSeen, hidden, jobVars>>

\* ... and only after the second does the worker count the Job.
ConfirmRunning ==
  /\ pc = "confirmRunning"
  /\ StatusUpdate(obj, Return({cur}) /\ activeJobs' = activeJobs + 1)
  /\ UNCHANGED <<export, imageSeen, exportSeen, hidden, jobVars>>

-----------------------------------------------------------------------------
\* handleRunningClusterImage.

GetJob ==
  /\ pc = "getJob"
  /\ jobSeen[cur] = job[cur] \/ May("staleJobs")
  /\ UNCHANGED clusterVars

JobMissing_Done ==
  /\ GetJob
  /\ jobSeen[cur] = "none"
  /\ Continue("recordOutcome", Status(SUCCESS, obj.retry))
  /\ UNCHANGED activeJobs

JobMissing ==
  /\ GetJob
  /\ jobSeen[cur] = "none"
  /\ Continue("setPending", Status(PENDING, obj.retry))
  /\ UNCHANGED activeJobs

JobActive ==
  /\ GetJob
  /\ jobSeen[cur] = "active"
  /\ Continue("listPods", obj)
  /\ UNCHANGED activeJobs

JobSucceeded_CleansUpFirst ==
  /\ GetJob
  /\ jobSeen[cur] = "succeeded"
  /\ Continue("deleteJob", Status(SUCCESS, obj.retry))
  /\ activeJobs' = activeJobs - 1

JobSucceeded_KeepsJob ==
  /\ GetJob
  /\ jobSeen[cur] = "succeeded"
  /\ Continue("finalUpdate", Status(SUCCESS, obj.retry))
  /\ activeJobs' = activeJobs - 1

JobSucceeded ==
  /\ GetJob
  /\ jobSeen[cur] = "succeeded"
  /\ Continue("recordOutcome", Status(SUCCESS, obj.retry))
  /\ activeJobs' = activeJobs - 1

RetriesLeft_OneMore == obj.retry <= RetryLimit
RetriesLeft == obj.retry < RetryLimit

JobRetried ==
  /\ GetJob
  /\ jobSeen[cur] = "failed"
  /\ RetriesLeft
  /\ Continue("recordOutcome", Status(RETRYING, obj.retry + 1))
  /\ UNCHANGED activeJobs

JobGivenUp_KeepsCount ==
  /\ GetJob
  /\ jobSeen[cur] = "failed"
  /\ ~ RetriesLeft
  /\ Continue("recordOutcome", Status(FAILED, obj.retry))
  /\ UNCHANGED activeJobs

JobGivenUp ==
  /\ GetJob
  /\ jobSeen[cur] = "failed"
  /\ ~ RetriesLeft
  /\ Continue("recordOutcome", Status(FAILED, obj.retry))
  /\ activeJobs' = activeJobs - 1

RecordOutcome ==
  /\ pc = "recordOutcome"
  /\ StatusUpdate(obj, Continue("deleteJob", obj) /\ UNCHANGED activeJobs)
  /\ UNCHANGED <<export, imageSeen, exportSeen, hidden, jobVars>>

\* cleanupJobAndPods: a background deletion, then the Pods.
DeleteJob ==
  /\ pc = "deleteJob"
  /\ Call(job' = [job EXCEPT ![cur] = "none"] /\ deleting' = deleting \ {cur},
          UNCHANGED <<job, deleting>>,
          Continue("deletePods", obj) /\ UNCHANGED activeJobs)
  /\ UNCHANGED <<objectVars, jobSeen, restartsSeen, succeeded, attempted>>

PodsDeleted ==
  \/ restartsSeen' = [restartsSeen EXCEPT ![cur] = 0]
  \/ May("stalePods") /\ UNCHANGED restartsSeen

\* After a retry's clean-up Reconcile returns; after the others it goes on.
DeletePods ==
  /\ pc = "deletePods"
  /\ Call(PodsDeleted, UNCHANGED restartsSeen,
          \/ /\ obj.progress = RETRYING
             /\ Return({cur})
             /\ activeJobs' = activeJobs - 1
          \/ /\ obj.progress # RETRYING
             /\ Continue("listPods", obj)
             /\ UNCHANGED activeJobs)
  /\ UNCHANGED <<objectVars, job, deleting, jobSeen, succeeded, attempted>>

-----------------------------------------------------------------------------
\* handleJobRestarts, run on a Job that is active and on one just cleaned up.

RestartedRetry == obj.retry + restartsSeen[cur]

ListPods ==
  /\ pc = "listPods"
  /\ \/ /\ restartsSeen[cur] = 0
        /\ Continue("finalUpdate", obj)
     \/ /\ restartsSeen[cur] > 0
        /\ RestartedRetry >= RetryLimit
        /\ Continue("setFailed", Status(FAILED, RestartedRetry))
     \/ /\ restartsSeen[cur] > 0
        /\ RestartedRetry < RetryLimit
        /\ Continue("setRetrying", Status(RETRYING, RestartedRetry))
  /\ UNCHANGED <<clusterVars, activeJobs>>

SetFailed ==
  /\ pc = "setFailed"
  /\ StatusUpdate(obj, Continue("listJobs", obj) /\ UNCHANGED activeJobs)
  /\ UNCHANGED <<export, imageSeen, exportSeen, hidden, jobVars>>

SetRetrying ==
  /\ pc = "setRetrying"
  /\ StatusUpdate(obj, Continue("finalUpdate", obj) /\ UNCHANGED activeJobs)
  /\ UNCHANGED <<export, imageSeen, exportSeen, hidden, jobVars>>

\* removeAllJobsAndContainers: every Job of the namespace, whatever its image.
ListJobs ==
  /\ pc = "listJobs"
  /\ todo' = {j \in Image : jobSeen[j] # "none"}
  /\ pc' = "removeJobs"
  /\ UNCHANGED <<clusterVars, queue, cur, obj, newStatus, activeJobs>>

RemoveJob(j) ==
  /\ pc = "removeJobs"
  /\ j \in todo
  /\ Call(deleting' = IF job[j] = "none" THEN deleting ELSE deleting \cup {j},
          UNCHANGED deleting,
          /\ todo' = todo \ {j}
          /\ UNCHANGED <<pc, cur, obj, newStatus, queue, activeJobs>>)
  /\ UNCHANGED <<objectVars, job, jobSeen, restartsSeen, succeeded, attempted>>

JobsRemoved ==
  /\ pc = "removeJobs"
  /\ todo = {}
  /\ Continue("finalUpdate", obj)
  /\ UNCHANGED <<clusterVars, activeJobs>>

FinalUpdate ==
  /\ pc = "finalUpdate"
  /\ StatusUpdate(obj, Continue("exportStatus", obj) /\ UNCHANGED activeJobs)
  /\ UNCHANGED <<export, imageSeen, exportSeen, hidden, jobVars>>

-----------------------------------------------------------------------------
\* updateClusterImageExportStatus.

\* "Requeue: true" unless all are completed.
Again(status) == IF status = SUCCESS THEN {} ELSE {cur}

ExportStatus ==
  /\ pc = "exportStatus"
  /\ \A o \in Image \cup Export : Reads(o)
  /\ LET e == ExportOf[cur]
         status == Aggregate(SeenStatuses(e))
     IN \/ /\ exportSeen[e] = Absent
           /\ Return({cur})
           /\ UNCHANGED <<current, hidden>>
        \/ /\ exportSeen[e] = status
           /\ Return(Again(status))
           /\ UNCHANGED <<current, hidden>>
        \/ /\ exportSeen[e] \notin {Absent, status}
           /\ pc' = "setExport"
           /\ newStatus' = status
           /\ current' = ReadBy("imageCtl", e)
           /\ hidden' = [hidden EXCEPT !["imageCtl"] =
                           IF status = SUCCESS THEN Hidden(e) ELSE {}]
           /\ UNCHANGED <<cur, obj, todo, queue>>
  /\ UNCHANGED <<image, export, imageSeen, exportSeen, jobVars, activeJobs>>

SetExport ==
  /\ pc = "setExport"
  /\ LET e == ExportOf[cur]
     IN \/ /\ UpToDate(e)
           /\ PutExport("imageCtl", e, newStatus)
           /\ Return(Again(newStatus))
        \/ /\ ~ UpToDate(e) \/ May("apiErrors")
           /\ UNCHANGED <<export, current>>
           /\ Return({cur})
        \/ /\ UpToDate(e)
           /\ May("lostReplies")
           /\ PutExport("imageCtl", e, newStatus)
           /\ Return({cur})
  /\ hidden' = [h \in Controller |->
                  IF h = "imageCtl" \/ current'[h] = {} THEN {} ELSE hidden[h]]
  /\ UNCHANGED <<image, imageSeen, exportSeen, jobVars, activeJobs>>

-----------------------------------------------------------------------------

Step ==
  \/ SetPending \/ CheckImageExists \/ SetPresent \/ CreateBackupJob
  \/ SetRunning \/ ConfirmRunning
  \/ JobMissing \/ JobActive \/ JobSucceeded \/ JobRetried \/ JobGivenUp
  \/ RecordOutcome \/ DeleteJob \/ DeletePods
  \/ ListPods \/ SetFailed \/ SetRetrying
  \/ ListJobs \/ (\E j \in Image : RemoveJob(j)) \/ JobsRemoved
  \/ FinalUpdate \/ ExportStatus \/ SetExport

\* The process dies: its queue, its worker and r.ActiveJobs are gone, and the
\* new one reconciles every image there is.
Crash ==
  /\ May("crashes")
  /\ RestartCaches
  /\ queue' = {i \in Image : image[i].progress # Absent}
  /\ pc' = "idle"
  /\ cur' = NoImage
  /\ obj' = NoStatus
  /\ todo' = {}
  /\ newStatus' = Absent
  /\ activeJobs' = 0

\* A change of an image or of the Job it owns makes its key due.
ImageEvent(i) ==
  /\ SyncImage(i) \/ SyncJob(i)
  /\ queue' = queue \cup {i}
  /\ UNCHANGED <<workerVars, activeJobs>>

\* The controller of the exports lists the images through the same caches.
CheckCompleted(e) == (\A i \in ImagesOf(e) : Reads(i)) /\ CheckImages(e)

\* A step outside the worker.
Outside(Event) == Event /\ UNCHANGED <<queue, workerVars, activeJobs>>

Environment ==
  \/ \E i \in Image : Outside(\/ JobSucceeds(i) \/ JobFails(i) \/ JobGoes(i)
                              \/ PodRestarts(i) \/ CreateImage(i) \/ CollectImage(i))
  \/ \E e \in Export : Outside(\/ SyncExport(e) \/ RemoveExport(e)
                               \/ SetRunningAgain(e) \/ SetExportFailed(e)
                               \/ CheckCompleted(e) \/ SetExportCompleted(e))

Next ==
  \/ \E i \in Image : Reconcile(i) \/ ImageEvent(i)
  \/ Step
  \/ Crash
  \/ Environment

Spec == Init /\ [][Next]_vars

\* The work queue is first in, first out, so that the worker comes round to
\* every key; it goes on running, and in the end without crashing; watches
\* deliver; a Pod ends and a deletion that has begun finishes. Nothing makes
\* Kubernetes produce a fault, an image or a removal.
JobEnds(i) == job[i] = "active" /\ (JobSucceeds(i) \/ JobFails(i))

Fairness ==
  /\ \A i \in Image : /\ SF_vars(Reconcile(i))
                      /\ WF_vars(ImageEvent(i))
                      /\ WF_vars(Outside(JobEnds(i)))
                      /\ WF_vars(Outside(i \in deleting /\ JobGoes(i)))
  /\ \A e \in Export : WF_vars(Outside(SyncExport(e)))
  /\ WF_vars(Step)
  /\ <>[][~ Crash]_vars

FairSpec == Spec /\ Fairness

-----------------------------------------------------------------------------
\* Safety.

Progressed(i, P) == image[i].progress \in P

\* An image is COMPLETED only if a Job of its own has run to its end, however late the
\* cache of Jobs is (handleRunningClusterImage), and so is in its storage if that is S3.
\* One whose storage is "file" is COMPLETED without an upload (createBackupJob).
CompletedWasUploaded ==
  \A i \in Image : Progressed(i, {SUCCESS}) =>
    IF Storage[i] = STORAGE_S3 THEN i \in uploaded ELSE i \in succeeded

\* An image is taken for PRESENT only if a backup of an image of the same name
\* was at least started (checkImageExists).
PresentHasAttempt ==
  \A i \in Image : Progressed(i, {PRESENT}) =>
    \E j \in attempted : FullName[j] = FullName[i]

\* An image is FAILED only when its retries are used up, and one that is not
\* FAILED has never had more (handleRunningClusterImage, handleJobRestarts).
GivesUpAtTheLimit ==
  \A i \in Image : /\ Progressed(i, {FAILED}) => image[i].retry >= RetryLimit
                   /\ image[i].retry > RetryLimit => Progressed(i, {FAILED})

\* FAILED and PRESENT are final: only the garbage collector changes such an
\* image. (COMPLETED is not: see CompletedIsFinal.)
FinalIsFinal ==
  [][\A i \in Image : Progressed(i, {FAILED, PRESENT}) =>
       image'[i].progress \in {image[i].progress, Absent}]_vars

\* COMPLETED is undone only after the Job is gone, and only because the cache still
\* lists a restarted Pod of it (handleJobRestarts, run after cleanupJobAndPods).
CompletedUndoneByOldPods ==
  [][\A i \in Image :
       Progressed(i, {SUCCESS}) /\ image'[i].progress \notin {SUCCESS, Absent} =>
         job[i] = "none" /\ restartsSeen[i] > 0]_vars

\* No Job is created for an image that is COMPLETED or FAILED, although
\* Reconcile decides to create it on a copy from the cache, and creates it
\* before the API server checks that copy (createBackupJob).
DoneStartsNoJob ==
  [][\A i \in Image : job[i] = "none" /\ job'[i] # "none" =>
       ~ Progressed(i, {SUCCESS, FAILED})]_vars

\* The worker deletes a Job only after it has recorded an outcome ("Update the status
\* before cleaning up the job"), of this Job or of one before: whatever fails in
\* between, no Job goes unrecorded while the image is there. Deletions by others, which leave the
\* worker where it is, and by removeAllJobsAndContainers are not meant.
OutcomeRecordedFirst ==
  [][\A i \in Image : job[i] # "none" /\ job'[i] = "none" /\ pc' # pc /\ i \notin deleting =>
       Progressed(i, {SUCCESS, RETRYING, FAILED, Absent})]_vars

\* An export is FAILED only if one of its images is
\* (updateClusterImageExportStatus, which reads the cache).
FailedExportHasFailedImage ==
  \A e \in Export : export[e] = FAILED =>
    \E i \in Image : ExportOf[i] = e /\ Progressed(i, {FAILED})

\* An export becomes COMPLETED only when each image of it is PRESENT or a Job of its own
\* has succeeded, although either controller writes that from a list it has made before
\* (updateClusterImageExportStatus, checkAllClusterImagesCompleted): of an image that
\* waits or runs meanwhile, a backup has been made. Exempt are the images whose status
\* that list, made from the cache, did not show: neither controller waits for those.
CompletedExportIsDone ==
  [][\A e \in Export : export[e] # SUCCESS /\ export'[e] = SUCCESS =>
       LET writer == IF pc' # pc THEN "imageCtl" ELSE "exportCtl"
       IN \A i \in ImagesOf(e) \ hidden[writer] :
            i \in succeeded \/ Progressed(i, {PRESENT})]_vars

\* At most maxConcurrentJobs Jobs of an export are unfinished at a time ("If
\* we've reached the maximum number of parallel jobs, requeue").
Unfinished(e) == {i \in Image : ExportOf[i] = e /\ job[i] \in {"active", "failed"}}

JobsWithinLimit ==
  \A e \in Export :
    Unfinished(e) # {} => Cardinality(Unfinished(e)) <= MaxConcurrentJobs[e]

\* The images whose Job the counter is for.
InSlot == {i \in Image : Progressed(i, {RUNNING, RETRYING}) /\ job[i] # "none"}

\* Every Job that was counted is counted off when it is over, although the worker counts
\* in three places, before and after calls that may be refused (r.ActiveJobs-- in
\* handleRunningClusterImage): an idle worker has no Job counted that is not there.
NoSlotLost == pc = "idle" => activeJobs <= Cardinality(InSlot)

-----------------------------------------------------------------------------
\* Liveness.

Settled(i) == Progressed(i, {SUCCESS, FAILED, PRESENT})

\* In the end every image there is has been backed up, found present or given up, and
\* stays so: none waits for ever for a slot of its export, or for a cache (Reconcile).
EventuallySettled ==
  <>[](\A i \in Image : Progressed(i, {Absent}) \/ Settled(i))

\* The Job of an image that is settled does not stay: there is always a later time at
\* which none has one (cleanupJobAndPods).
JobsCleanedUp == []<>(\A i \in Image : Settled(i) => job[i] = "none")

-----------------------------------------------------------------------------
\* The statuses are those of ImageLifecycle.

Lifecycle == INSTANCE ImageLifecycle WITH status <- image

\* Whatever caches, conflicts, faults and crashes do, every change of an image's
\* status and of its backup is one the lifecycle allows.
FollowsLifecycle == Lifecycle!Spec

\* Each export and its images are those of ExportLifecycle, from its acceptance to its
\* removal.
LifecycleOf(e) == INSTANCE ExportLifecycle
  WITH Key <- ImagesOf(e),
       export <- [progress |-> export[e], finalizer |-> TRUE],
       image <- [i \in ImagesOf(e) |-> image[i].progress]

\* This controller keeps to the lifecycle that the controller of the exports implements
\* (ClusterImageExportReconciler): it moves the images as assumed there, and writes over
\* a status of an export, and calls it FAILED, only as the lifecycle allows
\* (updateClusterImageExportStatus).
KeepsExportLifecycle ==
  [][\A e \in Export : export[e] # Absent /\ export'[e] # Absent =>
       LifecycleOf(e)!Next \/ UNCHANGED LifecycleOf(e)!lifecycleVars]_vars

-----------------------------------------------------------------------------
\* What the repository says of itself and the code does not do.

\* "ensures that no images were missed out" (README.md): when every image of a
\* name is COMPLETED or PRESENT, one of them has been uploaded.
NoneMissed ==
  \A i \in Image :
    LET same == {j \in Image : FullName[j] = FullName[i] /\ ~ Progressed(j, {Absent})}
    IN (\A j \in same : Progressed(j, {SUCCESS, PRESENT})) =>
         same = {} \/ same \cap uploaded # {}

\* "No further action needed" (Reconcile, of COMPLETED, FAILED and PRESENT).
CompletedIsFinal ==
  [][\A i \in Image : Progressed(i, {SUCCESS}) =>
       image'[i].progress \in {SUCCESS, Absent}]_vars
=============================================================================

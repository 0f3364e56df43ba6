------------------------------ MODULE Cluster ------------------------------
(***************************************************************************)
(* What the operator's two controllers share: the custom resources and the *)
(* Jobs the API server stores, the informer caches the controllers read    *)
(* them through (mgr.GetClient() reads from caches and writes to the API   *)
(* server), what the controller of the exports writes, and what the rest   *)
(* of Kubernetes does.                                                     *)
(***************************************************************************)
EXTENDS Integers, FiniteSets, Statuses

CONSTANTS
  Image,              \* ClusterImage objects, by name
  Export,             \* ClusterImageExport objects, by name
  ExportOf,           \* Spec.ExportName of each ClusterImage
  FullName,           \* Spec.FullName of each ClusterImage
  Storage,            \* Spec.Storage of each ClusterImage
  MaxConcurrentJobs,  \* Spec.MaxConcurrentJobs of each ClusterImageExport
  RetryLimit,         \* the 3 of "RetryCount < 3" and "RetryCount >= 3"
  MaxRestarts,        \* bound: restarts of one container that the kubelet reports
  MaxDrift,           \* bound: at activeJobs = -MaxDrift, faults stop happening
  Faults              \* the faults that the environment may produce

FaultKinds ==
  { "staleObjects",   \* the caches of the custom resources lag behind
    "staleJobs",      \* the cache of the Jobs lags behind
    "stalePods",      \* the cache of the Pods still lists deleted Pods
    "apiErrors",      \* a write fails and has no effect
    "lostReplies",    \* a write takes effect and the caller gets an error
    "crashes",        \* the operator's process dies and starts again
    "restarts",       \* the kubelet restarts the container of a Job's Pod
    "lostJobs",       \* someone else deletes a Job
    "removals" }      \* an export is removed, and the garbage collector follows

ASSUME ConstantsAssumption ==
  /\ Image \cap Export = {}
  /\ ExportOf \in [Image -> Export]
  /\ \A i, j \in Image :   \* an export has one ClusterImage per full name
       i # j /\ FullName[i] = FullName[j] => ExportOf[i] # ExportOf[j]
  /\ Storage \in [Image -> {"S3", "file"}]   \* the values the API accepts
  /\ MaxConcurrentJobs \in [Export -> Int]
  /\ RetryLimit \in Nat
  /\ MaxRestarts \in Nat
  /\ MaxDrift \in Nat
  /\ Faults \subseteq FaultKinds

ImageStatus == [progress : Progress, retry : Nat]
Status(p, n) == [progress |-> p, retry |-> n]
NoStatus    == Status(Absent, 0)
NewStatus   == Status(New, 0)

JobState == {"none", "active", "succeeded", "failed"}

\* Who holds copies of objects: the informer caches and the two controllers.
Controller == {"imageCtl", "exportCtl"}
Holder == {"cache"} \cup Controller

ImagesOf(e) == {i \in Image : ExportOf[i] = e}

VARIABLES
  image,         \* status of each ClusterImage
  export,        \* Status.Progress of each ClusterImageExport
  job,           \* the backup Job "img-export-<image>" of each ClusterImage
  deleting,      \* images whose Job awaits its foreground deletion
  imageSeen,     \* the caches' copies of image, export and job
  exportSeen,
  jobSeen,
  restartsSeen,  \* RestartCount in the Pod cache, for the Pod of the image's Job
  current,       \* per holder, the objects its copy has the latest resourceVersion of
  succeeded,     \* history: images for which a Job of theirs has succeeded
  attempted,     \* history: images for which a Job has been created
  hidden         \* history: images whose status a controller did not see in the list
                 \* that made it call their export COMPLETED

objectVars  == <<image, export, imageSeen, exportSeen, current, hidden>>
jobVars     == <<job, deleting, jobSeen, restartsSeen, succeeded, attempted>>
clusterVars == <<objectVars, jobVars>>

ObjectTypeOK ==
  /\ image \in [Image -> ImageStatus]
  /\ export \in [Export -> Progress]
  /\ imageSeen \in [Image -> ImageStatus]
  /\ exportSeen \in [Export -> Progress]
  /\ current \in [Holder -> SUBSET (Image \cup Export)]
  /\ hidden \in [Controller -> SUBSET Image]

JobTypeOK ==
  /\ job \in [Image -> JobState]
  /\ deleting \subseteq Image
  /\ jobSeen \in [Image -> JobState]
  /\ restartsSeen \in [Image -> Nat]
  /\ succeeded \subseteq Image
  /\ attempted \subseteq Image

ClusterTypeOK == ObjectTypeOK /\ JobTypeOK

ClusterInit ==
  /\ image = [i \in Image |-> NoStatus]
  /\ export = [e \in Export |-> RUNNING]
  /\ job = [i \in Image |-> "none"]
  /\ deleting = {}
  /\ imageSeen = image
  /\ exportSeen = export
  /\ jobSeen = job
  /\ restartsSeen = [i \in Image |-> 0]
  /\ current = [h \in Holder |-> IF h = "cache" THEN Image \cup Export ELSE {}]
  /\ succeeded = {}
  /\ attempted = {}
  /\ hidden = [h \in Controller |-> {}]

-----------------------------------------------------------------------------
\* Copies of objects.

\* Bounds the drift of activeJobs: at -MaxDrift the environment behaves.
MayFault(f, activeJobs) == f \in Faults /\ activeJobs > -MaxDrift

\* After a write by h, h's copy has the new resourceVersion and no other has.
WrittenBy(h, o) ==
  [k \in Holder |-> IF k = h THEN current[k] \cup {o} ELSE current[k] \ {o}]

\* After a write by anyone who keeps no copy.
WrittenByOther(o) == [k \in Holder |-> current[k] \ {o}]

\* After h has read o from the cache, its copy is as fresh as the cache's.
ReadBy(h, o) ==
  [current EXCEPT ![h] = IF o \in current["cache"] THEN {o} ELSE {}]

\* r.Status().Update of a ClusterImage by holder h, accepted. The API server
\* gives an object that does not change no new resourceVersion.
PutImage(h, i, o) ==
  /\ image' = [image EXCEPT ![i] = o]
  /\ current' = IF image[i] = o THEN current ELSE WrittenBy(h, i)

\* r.Status().Update of a ClusterImageExport by holder h, accepted.
PutExport(h, e, p) ==
  /\ export' = [export EXCEPT ![e] = p]
  /\ current' = IF export[e] = p THEN current ELSE WrittenBy(h, e)

\* The watch brings the cache the latest state of an object.
SyncImage(i) ==
  /\ i \notin current["cache"]
  /\ imageSeen' = [imageSeen EXCEPT ![i] = image[i]]
  /\ current' = [current EXCEPT !["cache"] = @ \cup {i}]
  /\ UNCHANGED <<image, export, exportSeen, hidden, jobVars>>

SyncExport(e) ==
  /\ e \notin current["cache"]
  /\ exportSeen' = [exportSeen EXCEPT ![e] = export[e]]
  /\ current' = [current EXCEPT !["cache"] = @ \cup {e}]
  /\ UNCHANGED <<image, export, imageSeen, hidden, jobVars>>

SyncJob(i) ==
  /\ jobSeen[i] # job[i]
  /\ jobSeen' = [jobSeen EXCEPT ![i] = job[i]]
  /\ UNCHANGED <<objectVars, job, deleting, restartsSeen, succeeded, attempted>>

\* A new process lists everything before its controllers start.
RestartCaches ==
  /\ imageSeen' = image
  /\ exportSeen' = export
  /\ jobSeen' = job
  /\ current' = [h \in Holder |-> IF h = "cache" THEN Image \cup Export ELSE {}]
  /\ hidden' = [h \in Controller |-> {}]
  /\ UNCHANGED <<image, export, job, deleting, restartsSeen, succeeded, attempted>>

SeenProgress(i) == imageSeen[i].progress

\* What the cache lists under the field index "spec.exportName".
SeenStatuses(e) == {SeenProgress(i) : i \in ImagesOf(e)} \ {Absent}

\* The images of e whose status the list does not show.
Hidden(e) == {i \in ImagesOf(e) : SeenProgress(i) \in {Absent, New}}

-----------------------------------------------------------------------------
\* The controller of the exports: what it writes to an export that has been accepted
\* (all of it is in ClusterImageExportReconciler). An update that is refused changes
\* nothing; of the others its copy is the latest, so that it has read what is there.

\* It then returns, or goes on with a copy that counts only if it comes to call the
\* export COMPLETED: that copy is in current from CheckImages on.
ExportCtlWrites(e, p) ==
  /\ export' = [export EXCEPT ![e] = p]
  /\ current' = [WrittenByOther(e) EXCEPT !["exportCtl"] = {}]
  /\ hidden' = [hidden EXCEPT !["exportCtl"] = {}]
  /\ UNCHANGED <<image, imageSeen, exportSeen, jobVars>>

SetRunningAgain(e) ==
  /\ export[e] = PENDING
  /\ e \in current["cache"]
  /\ ExportCtlWrites(e, RUNNING)

\* The loop over the images finds one that is FAILED.
SetExportFailed(e) ==
  /\ export[e] = RUNNING
  /\ FAILED \in SeenStatuses(e)
  /\ ExportCtlWrites(e, FAILED)

\* What checkAllClusterImagesCompleted asks of the images it lists.
AllSeenCompleted_NoneFailed(e) == FAILED \notin SeenStatuses(e)
AllSeenCompleted(e) == SeenStatuses(e) \subseteq {SUCCESS, PRESENT}

\* It is asked after the loop, which has created what there was not.
CheckImages(e) ==
  /\ export[e] = RUNNING
  /\ \A i \in ImagesOf(e) : image[i].progress # Absent
  /\ AllSeenCompleted(e)
  /\ current' = [current EXCEPT !["exportCtl"] = {e}]
  /\ hidden' = [hidden EXCEPT !["exportCtl"] = Hidden(e)]
  /\ UNCHANGED <<image, export, imageSeen, exportSeen, jobVars>>

SetExportCompleted(e) ==
  /\ e \in current["exportCtl"]
  /\ ExportCtlWrites(e, SUCCESS)

-----------------------------------------------------------------------------
\* The Job controller, the kubelet, the garbage collector and the users.

STORAGE_S3   == "S3"
STORAGE_FILE == "FILE"

\* createBackupJob adds the command that uploads the archive for these two only: the
\* "file" of the API is neither.
Uploads(i) == Storage[i] \in {STORAGE_S3, STORAGE_FILE}

\* The images that have reached their storage.
uploaded == {i \in succeeded : Uploads(i)}

\* A Pod of the Job has run every command of the backup, the upload among them if
\* there is one; it may be the replacement of a Pod that failed.
JobSucceeds(i) ==
  /\ job[i] \in {"active", "failed"}
  /\ job' = [job EXCEPT ![i] = "succeeded"]
  /\ succeeded' = succeeded \cup {i}
  /\ UNCHANGED <<objectVars, deleting, jobSeen, restartsSeen, attempted>>

JobFails(i) ==
  /\ job[i] = "active"
  /\ job' = [job EXCEPT ![i] = "failed"]
  /\ UNCHANGED <<objectVars, deleting, jobSeen, restartsSeen, succeeded, attempted>>

PodRestarts(i) ==
  /\ "restarts" \in Faults
  /\ job[i] \in {"active", "failed"}
  /\ restartsSeen[i] < MaxRestarts
  /\ restartsSeen' = [restartsSeen EXCEPT ![i] = @ + 1]
  /\ UNCHANGED <<objectVars, job, deleting, jobSeen, succeeded, attempted>>

\* A Job goes away: the foreground deletion ends, the Job's owner is gone, or
\* someone other than the operator deletes it.
JobGoes(i) ==
  /\ job[i] # "none"
  /\ \/ i \in deleting
     \/ image[i].progress = Absent
     \/ "lostJobs" \in Faults
  /\ job' = [job EXCEPT ![i] = "none"]
  /\ deleting' = deleting \ {i}
  /\ UNCHANGED <<objectVars, jobSeen, restartsSeen, succeeded, attempted>>

\* The export reconciler creates a ClusterImage for an image it found.
CreateImage(i) ==
  /\ image[i].progress = Absent
  /\ export[ExportOf[i]] # Absent
  /\ image' = [image EXCEPT ![i] = NewStatus]
  /\ current' = WrittenByOther(i)
  /\ UNCHANGED <<export, imageSeen, exportSeen, hidden, jobVars>>

\* A deleted export has lost its finalizer; it never comes back under its name.
RemoveExport(e) ==
  /\ "removals" \in Faults
  /\ export[e] # Absent
  /\ export' = [export EXCEPT ![e] = Absent]
  /\ current' = WrittenByOther(e)
  /\ UNCHANGED <<image, imageSeen, exportSeen, hidden, jobVars>>

CollectImage(i) ==
  /\ image[i].progress # Absent
  /\ export[ExportOf[i]] = Absent
  /\ image' = [image EXCEPT ![i] = NoStatus]
  /\ current' = WrittenByOther(i)
  /\ UNCHANGED <<export, imageSeen, exportSeen, hidden, jobVars>>
=============================================================================

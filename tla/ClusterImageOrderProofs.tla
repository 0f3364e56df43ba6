----------------------- MODULE ClusterImageOrderProofs -----------------------
(***************************************************************************)
(* What stale reads cannot do: create a Job for an image that is done, or  *)
(* fail an export none of whose images has failed.                         *)
(***************************************************************************)
EXTENDS ClusterImageLifecycleProofs

USE DEF Absent, New, PENDING, RUNNING, RETRYING, SUCCESS, FAILED, PRESENT,
        Outcomes, Waiting, Controller

-----------------------------------------------------------------------------
\* No Job for an image that is done.

LEMMA UpdateOrder ==
  ASSUME TypeOK, LifecycleInv, OrderInv, UpdateAction
  PROVE  OrderInv'
<1>1. pc \in UpdateSteps /\ imageSeen' = imageSeen BY UpdateShape
<1>2. cur \in Image /\ obj \in ImageStatus /\ image \in [Image -> ImageStatus]
  BY <1>1 DEF UpdateSteps, TypeOK, ClusterTypeOK, ObjectTypeOK, WorkerTypeOK
<1>3. SeenInv'
  <2>1. CASE UNCHANGED <<image, current>> BY <1>1, <2>1 DEF OrderInv, SeenInv
  <2>2. CASE UpToDate(cur) /\ PutImage("imageCtl", cur, obj)
    <3>1. image'[cur] = obj /\ \A j \in Image : j # cur => image'[j] = image[j]
      BY <1>2, <2>2 DEF PutImage
    <3>2. Copy(image[cur]) BY <1>1, <2>2 DEF UpToDate, LifecycleInv, CopyInv, UpdateSteps
    <3>3. CASE pc \in {"setPending", "setPresent", "setRunning"}
      <4>1. obj.progress \notin Outcomes BY <3>2, <3>3 DEF Copy, Is
      <4> QED BY <1>1, <3>1, <4>1 DEF OrderInv, SeenInv
    <3>4. CASE pc \in {"confirmRunning", "finalUpdate"}
      <4>1. obj = image[cur] BY <3>2, <3>4 DEF Copy
      <4> QED BY <1>1, <3>1, <4>1 DEF OrderInv, SeenInv
    <3>5. CASE pc \in {"recordOutcome", "setFailed", "setRetrying"}
      <4>1. imageSeen[cur].progress \notin Waiting
        BY <2>2, <3>5 DEF OrderInv, OutcomeSteps, UpToDate
      <4> QED BY <1>1, <3>1, <4>1 DEF OrderInv, SeenInv
    <3> QED BY <1>1, <3>3, <3>4, <3>5 DEF UpdateSteps
  <2> QED BY <2>1, <2>2, UpdateShape
<1>4. pc' \in OutcomeSteps =>
        cur' = cur /\ pc = "recordOutcome" /\ cur \in current["imageCtl"]
  BY UpdateShape DEF Continue, OutcomeSteps, UpToDate
<1>5. pc' \in OutcomeSteps => imageSeen'[cur'].progress \notin Waiting
  BY <1>1, <1>4 DEF OrderInv, OutcomeSteps
<1>6. pc' \notin {"checkImageExists", "createBackupJob"} BY UpdateShape DEF Continue
<1> QED BY <1>3, <1>5, <1>6 DEF OrderInv

\* The other steps of the worker touch neither images nor caches.
LEMMA StepOrder ==
  ASSUME TypeOK, LifecycleInv, OrderInv, Step
  PROVE  OrderInv'
<1>1. CASE UpdateAction BY <1>1, UpdateOrder
<1> SUFFICES ASSUME ~ UpdateAction PROVE OrderInv' BY <1>1
<1> USE DEF Continue, Return, Fail, Call, clusterVars, objectVars
<1>2. CASE LookAtJob
  BY <1>2 DEF OrderInv, SeenInv, OutcomeSteps, LookAtJob, JobMissing, JobActive, JobSucceeded,
              JobRetried, JobGivenUp, GetJob
<1>3. CASE CheckImageExists BY <1>3 DEF OrderInv, SeenInv, OutcomeSteps, CheckImageExists
<1>4. CASE CreateBackupJob BY <1>4 DEF OrderInv, SeenInv, OutcomeSteps, CreateBackupJob
<1>5. CASE DeleteJob BY <1>5 DEF OrderInv, SeenInv, OutcomeSteps, DeleteJob
<1>6. CASE DeletePods BY <1>6 DEF OrderInv, SeenInv, OutcomeSteps, DeletePods
<1>7. CASE ListPods BY <1>7 DEF OrderInv, SeenInv, OutcomeSteps, ListPods
<1>8. CASE ListJobs \/ JobsRemoved
  BY <1>8 DEF OrderInv, SeenInv, OutcomeSteps, ListJobs, JobsRemoved
<1>9. ASSUME NEW j \in Image, RemoveJob(j) PROVE OrderInv'
  BY <1>9 DEF OrderInv, SeenInv, OutcomeSteps, RemoveJob
<1>10. CASE ExportStatus \/ SetExport
  <2>1. pc' \in {"idle", "setExport"} /\ UNCHANGED <<image, imageSeen>>
    BY <1>10 DEF ExportStatus, SetExport
  <2> QED BY <2>1 DEF OrderInv, SeenInv, OutcomeSteps
<1> QED
  BY <1>2, <1>3, <1>4, <1>5, <1>6, <1>7, <1>8, <1>9, <1>10 DEF Step, UpdateAction, LookAtJob

LEMMA ReconcileOrder ==
  ASSUME TypeOK, OrderInv, NEW i \in Image, Reconcile(i)
  PROVE  OrderInv'
<1> USE DEF OrderInv, SeenInv, OutcomeSteps
<1>1. CASE ReconcileNothing(i) \/ ReconcileLater(i)
  BY <1>1 DEF ReconcileNothing, ReconcileLater, vars, clusterVars, objectVars, workerVars
<1>2. CASE ReconcileNew(i) BY <1>2 DEF ReconcileNew, Enter
<1>3. CASE ReconcilePending(i)
  BY <1>3 DEF ReconcilePending, Enter, SeenProgress, IsPending
<1>4. CASE ReconcileRunning(i) BY <1>4 DEF ReconcileRunning, Enter, SeenProgress
<1> QED BY <1>1, <1>2, <1>3, <1>4 DEF Reconcile

LEMMA SyncImageOrder ==
  ASSUME TypeOK, LifecycleInv, OrderInv, UNCHANGED workerVars, NEW i \in Image, SyncImage(i)
  PROVE  OrderInv'
<1> USE DEF SyncImage, workerVars
<1>1. \A j \in Image : imageSeen'[j] = IF j = i THEN image[i] ELSE imageSeen[j]
  BY DEF TypeOK, ClusterTypeOK, ObjectTypeOK
<1>2. SeenInv' BY <1>1 DEF OrderInv, SeenInv
<1>3. current'["imageCtl"] = current["imageCtl"] OBVIOUS
<1>4. ASSUME pc \in OutcomeSteps, cur \in current["imageCtl"]
      PROVE  imageSeen'[cur].progress \notin Waiting
  <2>1. cur \in Image BY <1>4 DEF OutcomeSteps, TypeOK, WorkerTypeOK
  <2>2. image[cur].progress \notin Waiting
    BY <1>4 DEF OutcomeSteps, LifecycleInv, CopyInv, Copy, InBackup
  <2> QED BY <1>1, <1>4, <2>1, <2>2 DEF OrderInv
<1> QED BY <1>2, <1>3, <1>4 DEF OrderInv

LEMMA EnvironmentOrder ==
  ASSUME TypeOK, LifecycleInv, OrderInv, Environment \/ \E i \in Image : ImageEvent(i)
  PROVE  OrderInv'
<1>1. UNCHANGED workerVars BY DEF Environment, Outside, ImageEvent
<1>2. ASSUME NEW i \in Image, SyncImage(i) PROVE OrderInv' BY <1>1, <1>2, SyncImageOrder
<1>3. CASE UNCHANGED <<image, imageSeen, current>>
  BY <1>1, <1>3 DEF OrderInv, SeenInv, workerVars
<1>4. ASSUME NEW i \in Image, SyncJob(i) \/ JobSucceeds(i) \/ JobFails(i) \/ JobGoes(i) \/ PodRestarts(i)
      PROVE  OrderInv'
  BY <1>3, <1>4 DEF SyncJob, JobSucceeds, JobFails, JobGoes, PodRestarts, objectVars
<1>5. ASSUME NEW i \in Image, CreateImage(i) \/ CollectImage(i) PROVE OrderInv'
  <2>1. NewStatus.progress = New /\ NoStatus.progress = Absent
    BY DEF NewStatus, NoStatus, Status
  <2>2. /\ \E o \in {NewStatus, NoStatus} : image' = [image EXCEPT ![i] = o]
        /\ imageSeen' = imageSeen /\ current' = WrittenByOther(i)
    BY <1>5 DEF CreateImage, CollectImage
  <2>3. \A j \in Image : image'[j] = image[j] \/ image'[j].progress \in {New, Absent}
    BY <2>1, <2>2 DEF TypeOK, ClusterTypeOK, ObjectTypeOK
  <2>4. current'["imageCtl"] \subseteq current["imageCtl"] BY <2>2 DEF WrittenByOther, Holder
  <2>5. pc \in {"checkImageExists", "createBackupJob"} => cur \in Image
    BY DEF TypeOK, WorkerTypeOK
  <2> QED BY <1>1, <2>2, <2>3, <2>4, <2>5 DEF OrderInv, SeenInv, workerVars
<1>6. ASSUME NEW e \in Export, SyncExport(e) \/ ExportEvent(e) PROVE OrderInv'
  <2>1. UNCHANGED <<image, imageSeen>> BY <1>6, ExportEventShape DEF SyncExport
  <2>2. current'["imageCtl"] \subseteq current["imageCtl"]
    BY <1>6, ExportEventShape DEF SyncExport, Holder, TypeOK, ClusterTypeOK, ObjectTypeOK
  <2> QED BY <1>1, <2>1, <2>2 DEF OrderInv, SeenInv, workerVars
<1> QED BY <1>2, <1>4, <1>5, <1>6 DEF Environment, Outside, ImageEvent, ExportEvent

LEMMA NextOrder == TypeOK /\ LifecycleInv /\ OrderInv /\ [Next]_vars => OrderInv'
<1> SUFFICES ASSUME TypeOK, LifecycleInv, OrderInv, [Next]_vars PROVE OrderInv' OBVIOUS
<1>1. CASE Crash BY <1>1 DEF Crash, RestartCaches, OrderInv, SeenInv, OutcomeSteps
<1>2. CASE UNCHANGED vars
  BY <1>2 DEF OrderInv, SeenInv, vars, clusterVars, objectVars, workerVars
<1> QED BY <1>1, <1>2, StepOrder, ReconcileOrder, EnvironmentOrder DEF Next

\* An image whose outcome is recorded is not shown waiting by any cache, and the
\* worker is not about to create its Job.
THEOREM OrderInvariant == Spec => []OrderInv
<1>1. Init => OrderInv BY DEF Init, ClusterInit, OrderInv, SeenInv, OutcomeSteps
<1> QED BY <1>1, NextOrder, TypeCorrect, LifecycleInvariant, PTL DEF Spec

LEMMA JobsAppear ==
  ASSUME TypeOK, [Next]_vars, NEW i \in Image, job[i] = "none", job'[i] # "none"
  PROVE  pc = "createBackupJob" /\ i = cur
<1> job \in [Image -> JobState] BY DEF TypeOK, ClusterTypeOK, JobTypeOK
<1>1. job' # job OBVIOUS
<1>2. ~ UpdateAction BY <1>1, UpdateShape DEF jobVars
<1>3. CASE Step
  <2>1. ~ (CheckImageExists \/ LookAtJob \/ ListPods \/ ListJobs \/ JobsRemoved)
    BY <1>1 DEF CheckImageExists, LookAtJob, JobMissing, JobActive, JobSucceeded, JobRetried,
                JobGivenUp, GetJob, ListPods, ListJobs, JobsRemoved, clusterVars, jobVars
  <2>2. ~ (DeletePods \/ (\E j \in Image : RemoveJob(j)) \/ ExportStatus \/ SetExport)
    BY <1>1 DEF DeletePods, RemoveJob, ExportStatus, SetExport, jobVars
  <2>3. ~ DeleteJob
    <3>1. SUFFICES ASSUME DeleteJob PROVE FALSE OBVIOUS
    <3>2. job' = [job EXCEPT ![cur] = "none"] BY <1>1, <3>1 DEF DeleteJob, Call
    <3> QED BY <3>2
  <2>4. CreateBackupJob BY <1>2, <1>3, <2>1, <2>2, <2>3 DEF Step, UpdateAction, LookAtJob
  <2>5. job' = [job EXCEPT ![cur] = "active"] BY <1>1, <2>4 DEF CreateBackupJob, Call, JobCreated
  <2> QED BY <2>4, <2>5 DEF CreateBackupJob
<1>4. ~ Crash BY <1>1 DEF Crash, RestartCaches
<1>5. ~ (UNCHANGED vars) BY <1>1 DEF vars, clusterVars, jobVars
<1>6. \A j \in Image : ~ Reconcile(j)
  BY <1>1 DEF Reconcile, ReconcileNothing, ReconcileLater, ReconcileNew, ReconcilePending,
              ReconcileRunning, Enter, vars, clusterVars, jobVars
<1>7. \A j \in Image : ~ ImageEvent(j)
  BY <1>1 DEF ImageEvent, SyncImage, SyncJob, jobVars
<1>8. ~ Environment
  <2>1. \A j \in Image : ~ (PodRestarts(j) \/ CreateImage(j) \/ CollectImage(j))
    BY <1>1 DEF PodRestarts, CreateImage, CollectImage, jobVars
  <2>2. \A e \in Export : ~ (SyncExport(e) \/ ExportEvent(e))
    BY <1>1, ExportEventShape DEF SyncExport, jobVars
  <2>3. \A j \in Image : ~ (JobSucceeds(j) \/ JobFails(j) \/ JobGoes(j))
    BY DEF JobSucceeds, JobFails, JobGoes
  <2> QED BY <2>1, <2>2, <2>3 DEF Environment, Outside, ExportEvent
<1> QED BY <1>3, <1>4, <1>5, <1>6, <1>7, <1>8 DEF Next

\* No Job is created for an image that is COMPLETED or FAILED.
THEOREM DoneImagesStartNoJob == Spec => DoneStartsNoJob
<1>1. ASSUME TypeOK, OrderInv, [Next]_vars, NEW i \in Image, job[i] = "none", job'[i] # "none"
      PROVE  ~ Progressed(i, {SUCCESS, FAILED})
  <2>1. pc = "createBackupJob" /\ i = cur BY <1>1, JobsAppear
  <2> QED BY <1>1, <2>1 DEF OrderInv, Progressed
<1>2. TypeOK /\ OrderInv /\ [Next]_vars =>
        \A i \in Image : job[i] = "none" /\ job'[i] # "none" => ~ Progressed(i, {SUCCESS, FAILED})
  BY <1>1
<1> QED BY <1>2, TypeCorrect, OrderInvariant, PTL DEF Spec, DoneStartsNoJob

-----------------------------------------------------------------------------
\* No export is failed whose images have not failed.

LEMMA ExportKept ==
  ASSUME ExportInv, UNCHANGED <<image, imageSeen, export>>,
         current'["exportCtl"] \subseteq current["exportCtl"],
         \/ pc' # "setExport"
         \/ UNCHANGED <<pc, cur, newStatus>> /\ current'["imageCtl"] \subseteq current["imageCtl"]
  PROVE  ExportInv'
BY DEF ExportInv, HasFailed

\* An update leaves an image FAILED or PRESENT.
LEMMA UpdateExport ==
  ASSUME TypeOK, LifecycleInv, ExportInv, UpdateAction
  PROVE  ExportInv'
<1>1. pc \in UpdateSteps /\ UNCHANGED <<imageSeen, export>> /\ pc' # "setExport"
  BY UpdateShape DEF Continue
<1>2. cur \in Image /\ obj \in ImageStatus /\ image \in [Image -> ImageStatus]
  BY <1>1 DEF UpdateSteps, TypeOK, ClusterTypeOK, ObjectTypeOK, WorkerTypeOK
<1>3. CASE UNCHANGED <<image, current>> BY <1>1, <1>3, ExportKept
<1>4. CASE UpToDate(cur) /\ PutImage("imageCtl", cur, obj)
  <2>1. image'[cur] = obj /\ \A j \in Image : j # cur => image'[j] = image[j]
    BY <1>2, <1>4 DEF PutImage
  <2>2. image[cur].progress \in {FAILED, PRESENT} => obj.progress = image[cur].progress
    <3>1. obj = image[cur] \/ MayMove(image[cur], obj, cur) BY <1>1, <1>4, CopyMoves
    <3>2. ~ MayMove(image[cur], obj, cur) \/ image[cur].progress # PRESENT
      BY DEF MayMove, InBackup
    <3>3. MayMove(image[cur], obj, cur) /\ image[cur].progress = FAILED => obj.progress = FAILED
      BY DEF MayMove, InBackup
    <3> QED BY <3>1, <3>2, <3>3
  <2>3. \A j \in Image : image[j].progress \in {FAILED, PRESENT} =>
          image'[j].progress = image[j].progress
    BY <2>1, <2>2
  <2>4. current'["exportCtl"] \subseteq current["exportCtl"]
    BY <1>4 DEF PutImage, WrittenBy, Holder
  <2> QED BY <1>1, <2>3, <2>4 DEF ExportInv, HasFailed
<1> QED BY <1>3, <1>4, UpdateShape

LEMMA AggregateFailed ==
  ASSUME NEW S
  PROVE  Aggregate(S) # Absent /\ (Aggregate(S) = FAILED => FAILED \in S)
BY DEF Aggregate, AllCompleted

LEMMA ExportStatusExport ==
  ASSUME TypeOK, LifecycleInv, ExportInv, ExportStatus
  PROVE  ExportInv'
<1>1. UNCHANGED <<image, imageSeen, export>> /\ current'["exportCtl"] = current["exportCtl"]
  BY DEF ExportStatus, ReadBy, Holder, TypeOK, ClusterTypeOK, ObjectTypeOK
<1>2. CASE pc' # "setExport" BY <1>1, <1>2, ExportKept
<1>3. CASE pc' = "setExport"
  <2> DEFINE e == ExportOf[cur]
             status == Aggregate(SeenStatuses(e))
  <2>1. /\ exportSeen[e] # Absent /\ newStatus' = status /\ cur' = cur
        /\ current' = ReadBy("imageCtl", e)
    BY <1>3 DEF ExportStatus, Return
  <2>2. cur \in Image /\ e \in Export
    BY ConstantsAssumption DEF ExportStatus, TypeOK, WorkerTypeOK
  <2>3. status = FAILED => HasFailed(e) \/ export[e] = Absent
    <3>1. SUFFICES ASSUME status = FAILED PROVE HasFailed(e) \/ export[e] = Absent OBVIOUS
    <3>2. FAILED \in SeenStatuses(e) BY <3>1, AggregateFailed
    <3>3. PICK i \in Image : ExportOf[i] = e /\ imageSeen[i].progress = FAILED
      BY <3>2 DEF SeenStatuses, SeenProgress, ImagesOf
    <3> QED BY <3>3 DEF ExportInv, HasFailed
  <2>4. status # Absent BY AggregateFailed
  <2>5. e \in current'["imageCtl"] => export[e] # Absent
    <3>1. e \in current'["imageCtl"] => e \in current["cache"]
      BY <2>1 DEF ReadBy, TypeOK, ClusterTypeOK, ObjectTypeOK, Holder
    <3> QED BY <2>1, <2>2, <3>1 DEF LifecycleInv, CacheInv
  <2>6. HasFailed(e)' <=> HasFailed(e) BY <1>1, <2>1 DEF HasFailed
  <2> QED BY <1>1, <2>1, <2>3, <2>4, <2>5, <2>6 DEF ExportInv, HasFailed
<1> QED BY <1>2, <1>3

LEMMA SetExportExport ==
  ASSUME TypeOK, ExportInv, SetExport
  PROVE  ExportInv'
<1> DEFINE e == ExportOf[cur]
<1>1. UNCHANGED <<image, imageSeen>> /\ pc' = "idle" /\ pc = "setExport"
  BY DEF SetExport, Return
<1>2. CASE export' = export
  <2>1. current'["exportCtl"] \subseteq current["exportCtl"]
    BY <1>2 DEF SetExport, PutExport, WrittenBy, Holder
  <2> QED BY <1>1, <1>2, <2>1, ExportKept
<1>3. CASE export' # export
  <2>1. UpToDate(e) /\ export' = [export EXCEPT ![e] = newStatus]
    BY <1>3 DEF SetExport, PutExport
  <2>2. export[e] # Absent /\ newStatus # Absent /\ (newStatus = FAILED => HasFailed(e))
    BY <1>1, <2>1 DEF ExportInv, UpToDate
  <2>3. \A x \in Export : export'[x] = IF x = e THEN newStatus ELSE export[x]
    BY <2>1 DEF TypeOK, ClusterTypeOK, ObjectTypeOK
  <2>4. ExportOf \in [Image -> Export] BY ConstantsAssumption
  <2>5. \A x : HasFailed(x)' <=> HasFailed(x) BY <1>1 DEF HasFailed
  <2>6. current'["exportCtl"] = current["exportCtl"] \ {e}
    <3>1. PutExport("imageCtl", e, newStatus) BY <1>3 DEF SetExport
    <3>2. export[e] # newStatus BY <1>3, <3>1 DEF PutExport, TypeOK, ClusterTypeOK, ObjectTypeOK
    <3> QED BY <3>1, <3>2 DEF PutExport, WrittenBy, Holder
  <2> QED BY <1>1, <2>2, <2>3, <2>4, <2>5, <2>6 DEF ExportInv
<1> QED BY <1>2, <1>3

LEMMA StepExport ==
  ASSUME TypeOK, LifecycleInv, ExportInv, Step
  PROVE  ExportInv'
<1>1. CASE UpdateAction BY <1>1, UpdateExport
<1>2. CASE ExportStatus BY <1>2, ExportStatusExport
<1>3. CASE SetExport BY <1>3, SetExportExport
<1> USE DEF Continue, Return, Fail, Call, clusterVars, objectVars
<1>4. CASE LookAtJob \/ CheckImageExists
  BY <1>4, ExportKept
     DEF LookAtJob, JobMissing, JobActive, JobSucceeded, JobRetried, JobGivenUp, GetJob,
         CheckImageExists
<1>5. CASE CreateBackupJob \/ DeleteJob \/ DeletePods
  BY <1>5, ExportKept DEF CreateBackupJob, DeleteJob, DeletePods
<1>6. CASE ListPods \/ ListJobs \/ JobsRemoved
  BY <1>6, ExportKept DEF ListPods, ListJobs, JobsRemoved
<1>7. ASSUME NEW j \in Image, RemoveJob(j) PROVE ExportInv'
  BY <1>7, ExportKept DEF RemoveJob
<1> QED BY <1>1, <1>2, <1>3, <1>4, <1>5, <1>6, <1>7 DEF Step, UpdateAction, LookAtJob

LEMMA ReconcileExport ==
  ASSUME TypeOK, ExportInv, NEW i \in Image, Reconcile(i)
  PROVE  ExportInv'
<1>1. CASE ReconcileNothing(i) \/ ReconcileLater(i)
  BY <1>1, ExportKept
     DEF ReconcileNothing, ReconcileLater, vars, clusterVars, objectVars, workerVars
<1>2. CASE ReconcileNew(i) \/ ReconcilePending(i) \/ ReconcileRunning(i)
  <2>1. PICK step \in {"setPending", "checkImageExists", "getJob"} : \E o : Enter(i, step, o)
    BY <1>2 DEF ReconcileNew, ReconcilePending, ReconcileRunning
  <2>2. current'["exportCtl"] = current["exportCtl"]
    BY <2>1 DEF Enter, ReadBy, Holder, TypeOK, ClusterTypeOK, ObjectTypeOK
  <2> QED BY <2>1, <2>2, ExportKept DEF Enter
<1> QED BY <1>1, <1>2 DEF Reconcile

\* What the events make of the status of an export.
LEMMA ExportEventWrites ==
  ASSUME TypeOK, ExportInv, NEW e \in Export, ExportEvent(e)
  PROVE  /\ \A x \in Export \ {e} : export'[x] = export[x]
         /\ \/ export'[e] \in {export[e], Absent}
            \/ export[e] = PENDING /\ export'[e] = RUNNING
            \/ export[e] = RUNNING /\ export'[e] = FAILED /\ HasFailed(e) /\ SeenFailed(e)
            \/ export[e] = RUNNING /\ export'[e] = SUCCESS /\ e \in current["exportCtl"]
         /\ \A x \in Export : x \in current'["exportCtl"] =>
              /\ x \in current["exportCtl"] \/ CheckImages(x)
              /\ export'[x] = RUNNING
         /\ export'[e] # export[e] => e \notin current'["imageCtl"]
<1> USE DEF TypeOK, ClusterTypeOK, ObjectTypeOK, Holder
<1>1. CASE RemoveExport(e) BY <1>1 DEF RemoveExport, WrittenByOther, ExportInv
<1>2. CASE CheckCompleted(e) BY <1>2 DEF CheckCompleted, CheckImages
<1>3. ASSUME NEW p, ExportCtlWrites(e, p)
      PROVE  /\ \A x \in Export \ {e} : export'[x] = export[x]
             /\ export'[e] = p /\ current'["exportCtl"] = {}
             /\ current'["imageCtl"] = current["imageCtl"] \ {e}
  BY <1>3 DEF ExportCtlWrites, WrittenByOther
<1>4. CASE SetRunningAgain(e) BY <1>3, <1>4 DEF SetRunningAgain
<1>5. CASE SetExportFailed(e)
  <2>1. export[e] = RUNNING /\ FAILED \in SeenStatuses(e) /\ ExportCtlWrites(e, FAILED)
    BY <1>5 DEF SetExportFailed
  <2>2. SeenFailed(e) BY <2>1 DEF SeenStatuses, SeenProgress, SeenFailed, ImagesOf
  <2>3. HasFailed(e) BY <2>1, <2>2 DEF SeenFailed, HasFailed, ExportInv
  <2> QED BY <1>3, <2>1, <2>2, <2>3
<1>6. CASE SetExportCompleted(e) BY <1>3, <1>6 DEF SetExportCompleted, ExportInv
<1> QED BY <1>1, <1>2, <1>4, <1>5, <1>6 DEF ExportEvent

LEMMA EnvironmentExport ==
  ASSUME TypeOK, ExportInv, Environment \/ \E i \in Image : ImageEvent(i)
  PROVE  ExportInv'
<1> USE DEF workerVars
<1>1. UNCHANGED workerVars BY DEF Environment, Outside, ImageEvent
<1>2. ASSUME NEW i \in Image, SyncImage(i) PROVE ExportInv'
  <2>1. \A j \in Image : imageSeen'[j] = IF j = i THEN image[i] ELSE imageSeen[j]
    BY <1>2 DEF SyncImage, TypeOK, ClusterTypeOK, ObjectTypeOK
  <2>2. /\ UNCHANGED <<image, export>> /\ current'["imageCtl"] = current["imageCtl"]
        /\ current'["exportCtl"] = current["exportCtl"]
    BY <1>2 DEF SyncImage
  <2> QED BY <1>1, <2>1, <2>2 DEF ExportInv, HasFailed
<1>3. ASSUME NEW i \in Image, SyncJob(i) \/ JobSucceeds(i) \/ JobFails(i) \/ JobGoes(i) \/ PodRestarts(i)
      PROVE  ExportInv'
  BY <1>1, <1>3, ExportKept
     DEF SyncJob, JobSucceeds, JobFails, JobGoes, PodRestarts, objectVars
<1>4. ASSUME NEW i \in Image, CreateImage(i) \/ CollectImage(i) PROVE ExportInv'
  <2>1. /\ current'["imageCtl"] \subseteq current["imageCtl"]
        /\ current'["exportCtl"] \subseteq current["exportCtl"]
        /\ UNCHANGED <<export, imageSeen>>
    BY <1>4 DEF CreateImage, CollectImage, WrittenByOther, Holder
  <2>2. \A j \in Image : image[j].progress \in {FAILED, PRESENT} =>
          image'[j].progress = image[j].progress \/ export[ExportOf[j]] = Absent
    BY <1>4 DEF CreateImage, CollectImage, TypeOK, ClusterTypeOK, ObjectTypeOK
  <2>3. \A e : HasFailed(e) => HasFailed(e)' \/ export[e] = Absent
    BY <2>2 DEF HasFailed
  <2> QED BY <1>1, <2>1, <2>2, <2>3 DEF ExportInv
<1>5. ASSUME NEW e \in Export, SyncExport(e) PROVE ExportInv'
  <2>1. /\ current'["imageCtl"] = current["imageCtl"]
        /\ current'["exportCtl"] = current["exportCtl"]
    BY <1>5 DEF SyncExport
  <2> QED BY <1>1, <1>5, <2>1, ExportKept DEF SyncExport
<1>6. ASSUME NEW e \in Export, ExportEvent(e) PROVE ExportInv'
  <2>1. /\ UNCHANGED <<image, imageSeen>>
        /\ current'["imageCtl"] \subseteq current["imageCtl"]
    BY <1>6, ExportEventShape
  <2>2. \A x : HasFailed(x)' <=> HasFailed(x) BY <2>1 DEF HasFailed
  <2>3. \A x \in Export : /\ export[x] = Absent => export'[x] = Absent
                          /\ export'[x] = FAILED => HasFailed(x)
                          /\ export'[x] # export[x] => x = e
                          /\ x \in current'["exportCtl"] => export'[x] = RUNNING
    BY <1>6, ExportEventWrites DEF ExportInv
  <2>4. e \in current'["imageCtl"] => export'[e] = export[e] BY <1>6, ExportEventWrites
  <2>5. ExportOf \in [Image -> Export] BY ConstantsAssumption
  <2>6. pc = "setExport" => ExportOf[cur] \in Export BY <2>5 DEF TypeOK, WorkerTypeOK
  <2>7. pc = "setExport" =>
          LET x == ExportOf[cur]
          IN /\ newStatus = FAILED => HasFailed(x) \/ export'[x] = Absent
             /\ newStatus # Absent
             /\ x \in current'["imageCtl"] => export'[x] # Absent
    BY <2>1, <2>3, <2>4, <2>6 DEF ExportInv
  <2>8. \A i \in Image : imageSeen[i].progress \in {FAILED, PRESENT} =>
          image[i].progress = imageSeen[i].progress \/ export'[ExportOf[i]] = Absent
    BY <2>3, <2>5 DEF ExportInv
  <2> QED BY <1>1, <2>1, <2>2, <2>3, <2>7, <2>8 DEF ExportInv
<1> QED BY <1>2, <1>3, <1>4, <1>5, <1>6 DEF Environment, Outside, ImageEvent, ExportEvent

LEMMA NextExport == TypeOK /\ LifecycleInv /\ ExportInv /\ [Next]_vars => ExportInv'
<1> SUFFICES ASSUME TypeOK, LifecycleInv, ExportInv, [Next]_vars PROVE ExportInv' OBVIOUS
<1>1. CASE Crash BY <1>1 DEF Crash, RestartCaches, ExportInv, HasFailed, Holder
<1>2. CASE UNCHANGED vars
  BY <1>2, ExportKept DEF vars, clusterVars, objectVars, workerVars
<1> QED BY <1>1, <1>2, StepExport, ReconcileExport, EnvironmentExport DEF Next

\* What the caches show of failed images, and what the worker makes of it, stays
\* true as long as the export is there.
THEOREM ExportInvariant == Spec => []ExportInv
<1>1. Init => ExportInv
  BY DEF Init, ClusterInit, NoStatus, Status, ExportInv, HasFailed
<1> QED BY <1>1, NextExport, TypeCorrect, LifecycleInvariant, PTL DEF Spec

\* An export is FAILED only if one of its images is.
THEOREM FailedExportsHaveFailedImages == Spec => []FailedExportHasFailedImage
<1>1. ExportInv => FailedExportHasFailedImage
  BY DEF ExportInv, HasFailed, FailedExportHasFailedImage, Progressed
<1> QED BY <1>1, ExportInvariant, PTL

-----------------------------------------------------------------------------
\* The status of an export is reported as ExportLifecycle says.

USE DEF Reported

LEMMA ReportKept ==
  ASSUME ReportInv, UNCHANGED <<imageSeen, export>>,
         \/ pc' # "setExport"
         \/ UNCHANGED <<pc, cur, newStatus>> /\ current'["imageCtl"] \subseteq current["imageCtl"]
  PROVE  ReportInv'
BY DEF ReportInv, SeenFailed

LEMMA AggregateReports ==
  ASSUME NEW S
  PROVE  Aggregate(S) \in Reported /\ (Aggregate(S) = FAILED <=> FAILED \in S)
BY DEF Aggregate, AllCompleted

LEMMA ExportStatusReport ==
  ASSUME TypeOK, ReportInv, ExportStatus
  PROVE  ReportInv'
<1>1. UNCHANGED <<imageSeen, export>> BY DEF ExportStatus
<1>2. CASE pc' # "setExport" BY <1>1, <1>2, ReportKept
<1>3. CASE pc' = "setExport"
  <2> DEFINE e == ExportOf[cur]
             status == Aggregate(SeenStatuses(e))
  <2>1. newStatus' = status /\ cur' = cur BY <1>3 DEF ExportStatus, Return
  <2>2. e \in Export BY ConstantsAssumption DEF ExportStatus, TypeOK, WorkerTypeOK
  <2>3. FAILED \in SeenStatuses(e) <=> SeenFailed(e)
    BY DEF SeenStatuses, SeenProgress, SeenFailed, ImagesOf
  <2>4. status \in Reported /\ (status = FAILED <=> SeenFailed(e)) BY <2>3, AggregateReports
  <2>5. SeenFailed(e)' <=> SeenFailed(e) BY <1>1, <2>1 DEF SeenFailed
  <2>6. export[e] = FAILED => SeenFailed(e) BY <2>2 DEF ReportInv
  <2> QED BY <1>1, <2>1, <2>4, <2>5, <2>6 DEF ReportInv, SeenFailed
<1> QED BY <1>2, <1>3

\* The status the worker gives an export that is there.
LEMMA SetExportShape ==
  ASSUME TypeOK, ExportInv, ReportInv, SetExport, export' # export
  PROVE  LET e == ExportOf[cur]
         IN /\ pc = "setExport" /\ e \in Export /\ newStatus \in Reported
            /\ export[e] # Absent
            /\ export' = [export EXCEPT ![e] = newStatus]
            /\ newStatus = FAILED => SeenFailed(e) /\ HasFailed(e)
            /\ newStatus # FAILED => export[e] # FAILED
<1> DEFINE e == ExportOf[cur]
<1>1. pc = "setExport" /\ e \in Export
  BY ConstantsAssumption DEF SetExport, TypeOK, WorkerTypeOK
<1>2. UpToDate(e) /\ export' = [export EXCEPT ![e] = newStatus] BY DEF SetExport, PutExport
<1>3. export[e] # Absent /\ (newStatus = FAILED => HasFailed(e))
  BY <1>1, <1>2 DEF ExportInv, UpToDate
<1> QED BY <1>1, <1>2, <1>3 DEF ReportInv, UpToDate

LEMMA SetExportReport ==
  ASSUME TypeOK, ExportInv, ReportInv, SetExport
  PROVE  ReportInv'
<1>1. imageSeen' = imageSeen /\ pc' = "idle" BY DEF SetExport, Return
<1>2. CASE export' = export BY <1>1, <1>2, ReportKept
<1>3. CASE export' # export
  <2>1. \A x \in Export : export'[x] = IF x = ExportOf[cur] THEN newStatus ELSE export[x]
    BY <1>3, SetExportShape DEF TypeOK, ClusterTypeOK, ObjectTypeOK
  <2> QED BY <1>1, <1>3, <2>1, SetExportShape DEF ReportInv, SeenFailed
<1> QED BY <1>2, <1>3

LEMMA StepReport ==
  ASSUME TypeOK, LifecycleInv, ExportInv, ReportInv, Step
  PROVE  ReportInv'
<1> USE DEF Continue, Return, Fail, Call, clusterVars, objectVars
<1>1. CASE UpdateAction BY <1>1, UpdateShape, ReportKept
<1>2. CASE ExportStatus BY <1>2, ExportStatusReport
<1>3. CASE SetExport BY <1>3, SetExportReport
<1>4. CASE LookAtJob \/ CheckImageExists
  BY <1>4, ReportKept
     DEF LookAtJob, JobMissing, JobActive, JobSucceeded, JobRetried, JobGivenUp, GetJob,
         CheckImageExists
<1>5. CASE CreateBackupJob \/ DeleteJob \/ DeletePods
  BY <1>5, ReportKept DEF CreateBackupJob, DeleteJob, DeletePods
<1>6. CASE ListPods \/ ListJobs \/ JobsRemoved
  BY <1>6, ReportKept DEF ListPods, ListJobs, JobsRemoved
<1>7. ASSUME NEW j \in Image, RemoveJob(j) PROVE ReportInv' BY <1>7, ReportKept DEF RemoveJob
<1> QED BY <1>1, <1>2, <1>3, <1>4, <1>5, <1>6, <1>7 DEF Step, UpdateAction, LookAtJob

LEMMA EnvironmentReport ==
  ASSUME TypeOK, ExportInv, ReportInv, Environment \/ \E i \in Image : ImageEvent(i)
  PROVE  ReportInv'
<1>1. UNCHANGED workerVars BY DEF Environment, Outside, ImageEvent
<1>2. UNCHANGED <<pc, cur, newStatus>> BY <1>1 DEF workerVars
<1>3. ASSUME NEW i \in Image, SyncImage(i) PROVE ReportInv'
  <2>1. /\ \A j \in Image : imageSeen'[j] = IF j = i THEN image[i] ELSE imageSeen[j]
        /\ export' = export /\ current'["imageCtl"] = current["imageCtl"]
    BY <1>3 DEF SyncImage, TypeOK, ClusterTypeOK, ObjectTypeOK
  <2>2. \A x : SeenFailed(x) => SeenFailed(x)' \/ export[x] = Absent
    BY <2>1 DEF SeenFailed, ExportInv
  <2> QED BY <1>2, <2>1, <2>2 DEF ReportInv
<1>4. ASSUME NEW i \in Image,
             \/ SyncJob(i) \/ JobSucceeds(i) \/ JobFails(i) \/ JobGoes(i) \/ PodRestarts(i)
             \/ CreateImage(i) \/ CollectImage(i)
      PROVE  ReportInv'
  BY <1>2, <1>4, ReportKept
     DEF SyncJob, JobSucceeds, JobFails, JobGoes, PodRestarts, CreateImage, CollectImage,
         WrittenByOther, Holder, objectVars
<1>5. ASSUME NEW e \in Export, SyncExport(e) PROVE ReportInv'
  <2>1. current'["imageCtl"] = current["imageCtl"] BY <1>5 DEF SyncExport
  <2> QED BY <1>2, <1>5, <2>1, ReportKept DEF SyncExport
<1>6. ASSUME NEW e \in Export, ExportEvent(e) PROVE ReportInv'
  <2>1. imageSeen' = imageSeen /\ current'["imageCtl"] \subseteq current["imageCtl"]
    BY <1>6, ExportEventShape
  <2>2. \A x : SeenFailed(x)' <=> SeenFailed(x) BY <2>1 DEF SeenFailed
  <2>3. \A x \in Export : /\ export[x] = Absent => export'[x] = Absent
                          /\ export'[x] \in Reported \cup {Absent}
                          /\ export'[x] = FAILED => SeenFailed(x)
                          /\ x \in current'["imageCtl"] => export'[x] = export[x]
    BY <1>6, ExportEventWrites DEF ReportInv
  <2>4. pc = "setExport" => ExportOf[cur] \in Export
    BY ConstantsAssumption DEF TypeOK, WorkerTypeOK
  <2>5. pc = "setExport" =>
          LET x == ExportOf[cur]
          IN /\ newStatus \in Reported
             /\ newStatus = FAILED => SeenFailed(x) \/ export'[x] = Absent
             /\ newStatus # FAILED /\ x \in current'["imageCtl"] => export'[x] # FAILED
    BY <2>1, <2>3, <2>4 DEF ReportInv
  <2> QED BY <1>2, <2>1, <2>2, <2>3, <2>5 DEF ReportInv
<1> QED BY <1>3, <1>4, <1>5, <1>6 DEF Environment, Outside, ImageEvent, ExportEvent

LEMMA NextReport ==
  TypeOK /\ LifecycleInv /\ ExportInv /\ ReportInv /\ [Next]_vars => ReportInv'
<1> SUFFICES ASSUME TypeOK, LifecycleInv, ExportInv, ReportInv, [Next]_vars PROVE ReportInv'
  OBVIOUS
<1>1. ASSUME NEW i \in Image, Reconcile(i) PROVE ReportInv'
  BY <1>1, ReportKept
     DEF Reconcile, ReconcileNothing, ReconcileLater, ReconcileNew, ReconcilePending,
         ReconcileRunning, Enter, vars, clusterVars, objectVars, workerVars
<1>2. CASE Crash
  BY <1>2 DEF Crash, RestartCaches, ReportInv, SeenFailed, ExportInv, HasFailed
<1>3. CASE UNCHANGED vars
  BY <1>3, ReportKept DEF vars, clusterVars, objectVars, workerVars
<1> QED BY <1>1, <1>2, <1>3, StepReport, EnvironmentReport DEF Next

\* While an export is FAILED the cache shows why, so that no other status is computed.
THEOREM ReportInvariant == Spec => []ReportInv
<1>1. Init => ReportInv BY DEF Init, ClusterInit, ReportInv
<1> QED BY <1>1, NextReport, TypeCorrect, LifecycleInvariant, ExportInvariant, PTL DEF Spec

\* A step of the export e and its images.
StepOf(e) == LifecycleOf(e)!Next \/ UNCHANGED LifecycleOf(e)!lifecycleVars

\* Each instance has the statuses of its own copy of Statuses.
LEMMA StatusesOf ==
  ASSUME NEW e
  PROVE  /\ LifecycleOf(e)!Absent = Absent /\ LifecycleOf(e)!New = New
         /\ LifecycleOf(e)!PENDING = PENDING /\ LifecycleOf(e)!RUNNING = RUNNING
         /\ LifecycleOf(e)!SUCCESS = SUCCESS /\ LifecycleOf(e)!FAILED = FAILED
         /\ LifecycleOf(e)!Progress = Progress /\ LifecycleOf(e)!Moves = Moves
BY DEF Absent, New, PENDING, RUNNING, RETRYING, SUCCESS, FAILED, PRESENT, Progress, Moves,
       LifecycleOf!Absent, LifecycleOf!New, LifecycleOf!PENDING, LifecycleOf!RUNNING,
       LifecycleOf!RETRYING, LifecycleOf!SUCCESS, LifecycleOf!FAILED, LifecycleOf!PRESENT,
       LifecycleOf!Progress, LifecycleOf!Moves

LEMMA FieldPut ==
  ASSUME NEW p, NEW q, NEW f
  PROVE  [progress |-> q, finalizer |-> f]
           = [[progress |-> p, finalizer |-> f] EXCEPT !.progress = q]
OBVIOUS

LEMMA StutterOf ==
  ASSUME NEW e \in Export, export'[e] = export[e],
         \A i \in ImagesOf(e) : image'[i].progress = image[i].progress
  PROVE  StepOf(e)
BY DEF StepOf, LifecycleOf!lifecycleVars, ImagesOf

LEMMA ReportOf ==
  ASSUME NEW e \in Export, image' = image, export[e] \notin {New, FAILED},
         export'[e] \in {PENDING, RUNNING, SUCCESS}
  PROVE  StepOf(e)
<1>1. LifecycleOf(e)!Report
  <2>1. PICK p \in {PENDING, RUNNING, SUCCESS} : export'[e] = p OBVIOUS
  <2>2. [progress |-> export'[e], finalizer |-> TRUE]
          = [[progress |-> export[e], finalizer |-> TRUE] EXCEPT !.progress = p]
    BY <2>1, FieldPut
  <2>3. UNCHANGED [i \in ImagesOf(e) |-> image[i].progress] BY DEF ImagesOf
  <2> QED BY <2>1, <2>2, <2>3, StatusesOf DEF LifecycleOf!Report, LifecycleOf!Accepted
<1> QED BY <1>1 DEF StepOf, LifecycleOf!Next

LEMMA GiveUpOf ==
  ASSUME NEW e \in Export, image' = image, export[e] # New, export'[e] = FAILED,
         \E i \in ImagesOf(e) : image[i].progress = FAILED
  PROVE  StepOf(e)
<1>1. LifecycleOf(e)!GiveUp
  <2>1. PICK p \in {FAILED} : export'[e] = p OBVIOUS
  <2>2. [progress |-> export'[e], finalizer |-> TRUE]
          = [[progress |-> export[e], finalizer |-> TRUE] EXCEPT !.progress = p]
    BY <2>1, FieldPut
  <2>3. UNCHANGED [i \in ImagesOf(e) |-> image[i].progress] BY DEF ImagesOf
  <2>4. \E i \in ImagesOf(e) : [j \in ImagesOf(e) |-> image[j].progress][i] = FAILED OBVIOUS
  <2> QED BY <2>1, <2>2, <2>3, <2>4, StatusesOf DEF LifecycleOf!GiveUp, LifecycleOf!Accepted
<1> QED BY <1>1 DEF StepOf, LifecycleOf!Next

LEMMA ImageOf ==
  ASSUME TypeOK, NEW e \in Export, export' = export, export[e] # New,
         NEW i \in ImagesOf(e), NEW o, image' = [image EXCEPT ![i] = o],
         MovesOnly(i), o.progress # Absent
  PROVE  StepOf(e)
<1> DEFINE progress == [j \in ImagesOf(e) |-> image[j].progress]
<1>1. i \in Image /\ image \in [Image -> ImageStatus] /\ image'[i] = o
  BY DEF ImagesOf, TypeOK, ClusterTypeOK, ObjectTypeOK
<1>2. progress' = [progress EXCEPT ![i] = o.progress] BY <1>1 DEF ImagesOf
<1>3. CASE o.progress = image[i].progress BY <1>1, <1>3, StutterOf DEF ImagesOf
<1>4. CASE image[i].progress = Absent /\ o.progress = New
  <2>1. LifecycleOf(e)!Create(i)
    BY <1>2, <1>4, StatusesOf DEF LifecycleOf!Create, LifecycleOf!Accepted
  <2> QED BY <2>1 DEF StepOf, LifecycleOf!Next
<1>5. CASE <<image[i].progress, o.progress>> \in Moves
  <2>1. LifecycleOf(e)!Advance(i)
    BY <1>2, <1>5, StatusesOf DEF LifecycleOf!Advance, Moves, Progress
  <2> QED BY <2>1 DEF StepOf, LifecycleOf!Next
<1> QED BY <1>1, <1>3, <1>4, <1>5 DEF MovesOnly

LEMMA OtherImageOf ==
  ASSUME TypeOK, NEW e \in Export, export' = export, NEW i \in Image \ ImagesOf(e),
         NEW o, image' = [image EXCEPT ![i] = o]
  PROVE  StepOf(e)
BY StutterOf DEF ImagesOf, TypeOK, ClusterTypeOK, ObjectTypeOK

LEMMA UpdateActionOf ==
  ASSUME TypeOK, LifecycleInv, ReportInv, UpdateAction, NEW e \in Export, export[e] # Absent
  PROVE  StepOf(e)
<1>1. pc \in UpdateSteps /\ export' = export BY UpdateShape
<1>2. cur \in Image /\ image \in [Image -> ImageStatus]
  BY <1>1 DEF UpdateSteps, TypeOK, ClusterTypeOK, ObjectTypeOK, WorkerTypeOK
<1>3. CASE image' = image BY <1>1, <1>3, StutterOf
<1>4. CASE image' # image
  <2>1. UpToDate(cur) /\ image' = [image EXCEPT ![cur] = obj]
    BY <1>4, UpdateShape DEF PutImage
  <2>2. obj # image[cur] BY <1>2, <1>4, <2>1
  <2>3. MayMove(image[cur], obj, cur) BY <1>1, <2>1, <2>2, CopyMoves
  <2>4. obj.progress # Absent BY <2>3 DEF MayMove, Is
  <2>5. MovesOnly(cur)
    <3>1. LifecycleStep BY UpdateActionSteps
    <3> QED BY <1>2, <3>1, StepMoves
  <2>6. export[e] # New BY DEF ReportInv
  <2> QED BY <1>1, <1>2, <2>1, <2>4, <2>5, <2>6, ImageOf, OtherImageOf
<1> QED BY <1>3, <1>4

LEMMA SetExportOf ==
  ASSUME TypeOK, ExportInv, ReportInv, SetExport, NEW e \in Export, export[e] # Absent
  PROVE  StepOf(e)
<1>1. image' = image BY DEF SetExport
<1>2. CASE export'[e] = export[e] BY <1>1, <1>2, StutterOf
<1>3. CASE export'[e] # export[e]
  <2>1. e = ExportOf[cur] /\ export'[e] = newStatus
    BY <1>3, SetExportShape DEF TypeOK, ClusterTypeOK, ObjectTypeOK
  <2>2. export[e] # New BY DEF ReportInv
  <2>3. CASE newStatus = FAILED
    <3>1. \E i \in ImagesOf(e) : image[i].progress = FAILED
      BY <1>3, <2>1, <2>3, SetExportShape DEF HasFailed, ImagesOf
    <3> QED BY <1>1, <2>1, <2>2, <2>3, <3>1, GiveUpOf
  <2>4. CASE newStatus # FAILED
    BY <1>1, <1>3, <2>1, <2>2, <2>4, SetExportShape, ReportOf
  <2> QED BY <2>3, <2>4
<1> QED BY <1>2, <1>3

LEMMA StepStepOf ==
  ASSUME TypeOK, LifecycleInv, ExportInv, ReportInv, Step, NEW e \in Export, export[e] # Absent
  PROVE  StepOf(e)
<1>1. CASE UpdateAction BY <1>1, UpdateActionOf
<1>2. CASE SetExport BY <1>2, SetExportOf
<1> USE DEF clusterVars, objectVars
<1>3. CASE LookAtJob \/ CheckImageExists \/ ListPods \/ ListJobs \/ JobsRemoved
  BY <1>3, StutterOf
     DEF LookAtJob, JobMissing, JobActive, JobSucceeded, JobRetried, JobGivenUp, GetJob,
         CheckImageExists, ListPods, ListJobs, JobsRemoved
<1>4. CASE CreateBackupJob \/ DeleteJob \/ DeletePods \/ ExportStatus
  BY <1>4, StutterOf DEF CreateBackupJob, DeleteJob, DeletePods, ExportStatus
<1>5. ASSUME NEW j \in Image, RemoveJob(j) PROVE StepOf(e) BY <1>5, StutterOf DEF RemoveJob
<1> QED BY <1>1, <1>2, <1>3, <1>4, <1>5 DEF Step, UpdateAction, LookAtJob

LEMMA EnvironmentOf ==
  ASSUME TypeOK, LifecycleInv, ExportInv, ReportInv, Environment,
         NEW e \in Export, export[e] # Absent, export'[e] # Absent
  PROVE  StepOf(e)
<1>1. export[e] # New BY DEF ReportInv
<1>2. ASSUME NEW i \in Image, JobSucceeds(i) \/ JobFails(i) \/ JobGoes(i) \/ PodRestarts(i)
      PROVE  StepOf(e)
  BY <1>2, StutterOf DEF JobSucceeds, JobFails, JobGoes, PodRestarts, objectVars
<1>3. ASSUME NEW i \in Image, CreateImage(i) PROVE StepOf(e)
  <2>1. export' = export /\ image' = [image EXCEPT ![i] = NewStatus]
    BY <1>3 DEF CreateImage
  <2>2. NewStatus.progress = New BY DEF NewStatus, Status
  <2>3. image'[i] = NewStatus /\ image[i].progress = Absent
    BY <1>3, <2>1 DEF CreateImage, TypeOK, ClusterTypeOK, ObjectTypeOK
  <2>4. MovesOnly(i) BY <2>2, <2>3 DEF MovesOnly
  <2> QED BY <1>1, <2>1, <2>2, <2>4, ImageOf, OtherImageOf
<1>4. ASSUME NEW i \in Image, CollectImage(i) PROVE StepOf(e)
  <2>1. i \notin ImagesOf(e) /\ export' = export /\ image' = [image EXCEPT ![i] = NoStatus]
    BY <1>4 DEF CollectImage, ImagesOf
  <2> QED BY <2>1, OtherImageOf
<1>5. ASSUME NEW x \in Export, SyncExport(x) PROVE StepOf(e) BY <1>5, StutterOf DEF SyncExport
<1>6. ASSUME NEW x \in Export, ExportEvent(x) PROVE StepOf(e)
  <2>1. image' = image BY <1>6, ExportEventShape
  <2>2. CASE export'[e] = export[e] BY <2>1, <2>2, StutterOf
  <2>3. CASE export'[e] # export[e]
    <3>1. \/ export[e] \in {PENDING, RUNNING} /\ export'[e] \in {RUNNING, SUCCESS}
          \/ export'[e] = FAILED /\ HasFailed(e)
      BY <1>6, <2>3, ExportEventWrites
    <3> QED BY <1>1, <2>1, <3>1, ReportOf, GiveUpOf DEF HasFailed, ImagesOf
  <2> QED BY <2>2, <2>3
<1> QED BY <1>2, <1>3, <1>4, <1>5, <1>6 DEF Environment, Outside, ExportEvent

LEMMA NextStepOf ==
  ASSUME TypeOK, LifecycleInv, ExportInv, ReportInv, [Next]_vars,
         NEW e \in Export, export[e] # Absent, export'[e] # Absent
  PROVE  StepOf(e)
<1>1. ASSUME NEW i \in Image, Reconcile(i) PROVE StepOf(e)
  BY <1>1, StutterOf
     DEF Reconcile, ReconcileNothing, ReconcileLater, ReconcileNew, ReconcilePending,
         ReconcileRunning, Enter, vars, clusterVars, objectVars
<1>2. ASSUME NEW i \in Image, ImageEvent(i) PROVE StepOf(e)
  BY <1>2, StutterOf DEF ImageEvent, SyncImage, SyncJob, objectVars
<1>3. CASE Crash BY <1>3, StutterOf DEF Crash, RestartCaches
<1>4. CASE UNCHANGED vars BY <1>4, StutterOf DEF vars, clusterVars, objectVars
<1> QED BY <1>1, <1>2, <1>3, <1>4, StepStepOf, EnvironmentOf DEF Next

\* Whatever faults there are, each export that is there, together with its images,
\* takes only steps of ExportLifecycle.
THEOREM ExportsKeepLifecycle == Spec => KeepsExportLifecycle
<1>1. TypeOK /\ LifecycleInv /\ ExportInv /\ ReportInv /\ [Next]_vars =>
        \A e \in Export : export[e] # Absent /\ export'[e] # Absent =>
          LifecycleOf(e)!Next \/ UNCHANGED LifecycleOf(e)!lifecycleVars
  BY NextStepOf DEF StepOf
<1> QED BY <1>1, TypeCorrect, LifecycleInvariant, ExportInvariant, ReportInvariant, PTL
        DEF Spec, KeepsExportLifecycle

-----------------------------------------------------------------------------
\* COMPLETED is undone only for the Pods of a Job that is gone.

\* PodsInv holds as long as no deleted Pod is listed.
NoOldPods == "stalePods" \notin Faults
UndoneInv == RestartInv /\ (NoOldPods => PodsInv)

LEMMA UndoneElsewhere ==
  ASSUME pc' \notin {"getJob", "deletePods", "listPods"} \cup RestartSteps
  PROVE  UndoneInv'
BY DEF UndoneInv, RestartInv, PodsInv, CleanedUp, RestartSteps

LEMMA UndoneKept ==
  ASSUME UndoneInv, pc' = pc, cur' = cur, obj' = obj,
         pc # "idle" =>
           /\ job[cur] = "none" =>
                job'[cur] = "none" /\ restartsSeen'[cur] = restartsSeen[cur]
           /\ restartsSeen[cur] > 0 => restartsSeen'[cur] > 0
           /\ cur \in current'["imageCtl"] =>
                cur \in current["imageCtl"] /\ image'[cur] = image[cur]
  PROVE  UndoneInv'
<1>1. CASE pc = "idle" BY <1>1, UndoneElsewhere DEF RestartSteps
<1>2. CASE pc # "idle"
  <2>1. RestartInv' BY <1>2 DEF UndoneInv, RestartInv, CleanedUp, RestartSteps
  <2>2. NoOldPods => PodsInv'
    BY <1>2 DEF UndoneInv, RestartInv, PodsInv, CleanedUp, RestartSteps
  <2> QED BY <2>1, <2>2 DEF UndoneInv
<1> QED BY <1>1, <1>2

LEMMA CleanUpUndone ==
  ASSUME TypeOK, UndoneInv, DeleteJob \/ DeletePods
  PROVE  UndoneInv'
<1> USE DEF UndoneInv, RestartInv, PodsInv, CleanedUp, RestartSteps, Fail, Return, Continue
<1>1. /\ cur \in Image /\ job \in [Image -> JobState]
      /\ restartsSeen \in [Image -> Nat]
  BY DEF DeleteJob, DeletePods, TypeOK, WorkerTypeOK, ClusterTypeOK, JobTypeOK
<1>2. CASE DeleteJob
  <2>1. CASE pc' = "idle" BY <2>1
  <2>2. CASE pc' # "idle"
    <3>1. pc' = "deletePods" /\ cur' = cur /\ job' = [job EXCEPT ![cur] = "none"]
      BY <1>2, <2>2 DEF DeleteJob, Call
    <3> QED BY <1>1, <3>1
  <2> QED BY <2>1, <2>2
<1>3. CASE DeletePods
  <2>1. CASE pc' = "idle" BY <2>1
  <2>2. CASE pc' # "idle"
    <3>1. /\ pc' = "listPods" /\ cur' = cur /\ job' = job
          /\ PodsDeleted
      BY <1>3, <2>2 DEF DeletePods, Call
    <3>2. job[cur] = "none" BY <1>3 DEF DeletePods
    <3>3. NoOldPods => restartsSeen'[cur] = 0
      BY <1>1, <3>1 DEF PodsDeleted, May, MayFault, NoOldPods
    <3> QED BY <3>1, <3>2, <3>3
  <2> QED BY <2>1, <2>2
<1> QED BY <1>2, <1>3

LEMMA ListPodsUndone ==
  ASSUME TypeOK, LifecycleInv, UndoneInv, ListPods
  PROVE  UndoneInv'
<1>1. UNCHANGED clusterVars /\ pc = "listPods" BY DEF ListPods
<1>2. CASE pc' = "finalUpdate" BY <1>2, UndoneElsewhere DEF RestartSteps
<1>3. CASE pc' # "finalUpdate"
  <2>1. /\ pc' \in RestartSteps /\ cur' = cur /\ restartsSeen[cur] > 0
        /\ restartsSeen[cur] \in Nat
    BY <1>1, <1>3
       DEF ListPods, Continue, RestartSteps, TypeOK, ClusterTypeOK, JobTypeOK, WorkerTypeOK
  <2>2. UNCHANGED <<job, restartsSeen, image, current>>
    BY <1>1 DEF clusterVars, objectVars, jobVars
  <2>3. cur \in current["imageCtl"] => obj = image[cur]
    BY <1>1 DEF LifecycleInv, CopyInv, Copy
  <2>4. obj.progress \in InBackup \/ job[cur] = "none"
    BY <1>1 DEF UndoneInv, RestartInv, CleanedUp
  <2>5. NoOldPods => obj.progress \in InBackup
    BY <1>1, <2>1 DEF UndoneInv, PodsInv, CleanedUp
  <2> QED
    BY <2>1, <2>2, <2>3, <2>4, <2>5
       DEF UndoneInv, RestartInv, PodsInv, CleanedUp, RestartSteps
<1> QED BY <1>2, <1>3

LEMMA StepUndone ==
  ASSUME TypeOK, LifecycleInv, UndoneInv, Step
  PROVE  UndoneInv'
<1> USE DEF Continue, Return, Fail, Call, RestartSteps
<1>1. CASE UpdateAction
  <2>1. pc' \in {"idle", "confirmRunning", "deleteJob", "listJobs", "finalUpdate", "exportStatus"}
    BY <1>1, UpdateShape
  <2> QED BY <2>1, UndoneElsewhere
<1>2. CASE JobActive
  <2>1. pc = "getJob" /\ pc' = "listPods" /\ obj' = obj BY <1>2 DEF JobActive, GetJob
  <2> QED BY <2>1 DEF UndoneInv, RestartInv, PodsInv, CleanedUp
<1>3. CASE JobMissing \/ JobSucceeded \/ JobRetried \/ JobGivenUp
  BY <1>3, UndoneElsewhere DEF JobMissing, JobSucceeded, JobRetried, JobGivenUp
<1>4. CASE CheckImageExists \/ CreateBackupJob
  BY <1>4, UndoneElsewhere DEF CheckImageExists, CreateBackupJob
<1>5. CASE DeleteJob \/ DeletePods BY <1>5, CleanUpUndone
<1>6. CASE ListPods BY <1>6, ListPodsUndone
<1>7. CASE ListJobs \/ JobsRemoved \/ ExportStatus \/ SetExport
  BY <1>7, UndoneElsewhere DEF ListJobs, JobsRemoved, ExportStatus, SetExport
<1>8. ASSUME NEW j \in Image, RemoveJob(j) PROVE UndoneInv'
  BY <1>8, UndoneElsewhere DEF RemoveJob
<1> QED BY <1>1, <1>2, <1>3, <1>4, <1>5, <1>6, <1>7, <1>8 DEF Step, UpdateAction

LEMMA ReconcileUndone ==
  ASSUME TypeOK, UndoneInv, NEW i \in Image, Reconcile(i)
  PROVE  UndoneInv'
<1>1. CASE ReconcileNothing(i) \/ ReconcileLater(i)
  BY <1>1, UndoneKept
     DEF ReconcileNothing, ReconcileLater, vars, clusterVars, objectVars, jobVars, workerVars
<1>2. CASE ReconcileNew(i) \/ ReconcilePending(i)
  BY <1>2, UndoneElsewhere DEF ReconcileNew, ReconcilePending, Enter, RestartSteps
<1>3. CASE ReconcileRunning(i)
  BY <1>3 DEF ReconcileRunning, Enter, SeenProgress, InBackup,
              UndoneInv, RestartInv, PodsInv, CleanedUp, RestartSteps
<1> QED BY <1>1, <1>2, <1>3 DEF Reconcile

LEMMA EnvironmentUndone ==
  ASSUME TypeOK, UndoneInv, Environment \/ \E i \in Image : ImageEvent(i)
  PROVE  UndoneInv'
<1>1. pc' = pc /\ cur' = cur /\ obj' = obj
  BY DEF Environment, Outside, ImageEvent, workerVars
<1>2. /\ pc # "idle" => cur \in Image
      /\ job \in [Image -> JobState] /\ restartsSeen \in [Image -> Nat]
      /\ image \in [Image -> ImageStatus]
  BY DEF TypeOK, WorkerTypeOK, ClusterTypeOK, ObjectTypeOK, JobTypeOK
<1>3. ASSUME NEW i \in Image, JobSucceeds(i) \/ JobFails(i) \/ JobGoes(i) PROVE UndoneInv'
  <2>1. /\ job[i] # "none" /\ \E v : job' = [job EXCEPT ![i] = v]
        /\ UNCHANGED <<restartsSeen, image, current>>
    BY <1>3 DEF JobSucceeds, JobFails, JobGoes, objectVars
  <2> QED BY <1>1, <1>2, <2>1, UndoneKept
<1>4. ASSUME NEW i \in Image, PodRestarts(i) PROVE UndoneInv'
  <2>1. /\ job[i] # "none" /\ restartsSeen' = [restartsSeen EXCEPT ![i] = @ + 1]
        /\ UNCHANGED <<job, image, current>>
    BY <1>4 DEF PodRestarts, objectVars
  <2> QED BY <1>1, <1>2, <2>1, UndoneKept
<1>5. ASSUME NEW i \in Image, CreateImage(i) \/ CollectImage(i) PROVE UndoneInv'
  <2>1. /\ UNCHANGED jobVars /\ current' = WrittenByOther(i)
        /\ \E o : image' = [image EXCEPT ![i] = o]
    BY <1>5 DEF CreateImage, CollectImage
  <2>2. current'["imageCtl"] = current["imageCtl"] \ {i}
    BY <2>1 DEF WrittenByOther, Holder
  <2> QED BY <1>1, <1>2, <2>1, <2>2, UndoneKept DEF jobVars
<1>6. ASSUME NEW i \in Image, SyncImage(i) \/ SyncJob(i) PROVE UndoneInv'
  <2>1. UNCHANGED <<job, restartsSeen, image>>
    BY <1>6 DEF SyncImage, SyncJob, objectVars, jobVars
  <2>2. CASE SyncImage(i)
    <3>1. current'["imageCtl"] = current["imageCtl"] BY <2>2 DEF SyncImage
    <3> QED BY <1>1, <2>1, <3>1, UndoneKept
  <2>3. CASE SyncJob(i)
    <3>1. current' = current BY <2>3 DEF SyncJob, objectVars
    <3> QED BY <1>1, <2>1, <3>1, UndoneKept
  <2> QED BY <1>6, <2>2, <2>3
<1>7. ASSUME NEW e \in Export, SyncExport(e) \/ ExportEvent(e) PROVE UndoneInv'
  <2>1. /\ UNCHANGED <<job, restartsSeen, image>>
        /\ current'["imageCtl"] \subseteq current["imageCtl"]
    BY <1>7, ExportEventShape DEF SyncExport, jobVars, Holder, TypeOK, ClusterTypeOK, ObjectTypeOK
  <2> QED BY <1>1, <2>1, UndoneKept
<1> QED BY <1>3, <1>4, <1>5, <1>6, <1>7 DEF Environment, Outside, ImageEvent, ExportEvent

LEMMA NextUndone == TypeOK /\ LifecycleInv /\ UndoneInv /\ [Next]_vars => UndoneInv'
<1> SUFFICES ASSUME TypeOK, LifecycleInv, UndoneInv, [Next]_vars PROVE UndoneInv' OBVIOUS
<1>1. CASE Crash BY <1>1, UndoneElsewhere DEF Crash, RestartSteps
<1>2. CASE UNCHANGED vars
  BY <1>2, UndoneKept DEF vars, clusterVars, objectVars, jobVars, workerVars
<1> QED BY <1>1, <1>2, StepUndone, ReconcileUndone, EnvironmentUndone DEF Next

\* What handleJobRestarts counts after a clean-up are restarts of Pods that are gone.
THEOREM UndoneInvariant == Spec => []UndoneInv
<1>1. Init => UndoneInv
  BY DEF Init, UndoneInv, RestartInv, PodsInv, CleanedUp, RestartSteps
<1> QED BY <1>1, NextUndone, TypeCorrect, LifecycleInvariant, PTL DEF Spec

\* Who writes over COMPLETED.
LEMMA CompletedChanges ==
  ASSUME TypeOK, LifecycleInv, [Next]_vars, NEW i \in Image, Progressed(i, {SUCCESS}),
         image'[i].progress \notin {SUCCESS, Absent}
  PROVE  pc \in RestartSteps /\ i = cur /\ cur \in current["imageCtl"]
<1> USE DEF Progressed
<1> image \in [Image -> ImageStatus] BY DEF TypeOK, ClusterTypeOK, ObjectTypeOK
<1>1. image' # image OBVIOUS
<1>2. CASE UpdateAction
  <2>1. pc \in UpdateSteps /\ UpToDate(cur) /\ PutImage("imageCtl", cur, obj)
    BY <1>1, <1>2, UpdateShape
  <2>2. i = cur /\ obj.progress # SUCCESS BY <2>1 DEF PutImage
  <2>3. Copy(image[cur]) BY <2>1 DEF UpToDate, UpdateSteps, LifecycleInv, CopyInv
  <2>4. pc \in RestartSteps
    BY <2>1, <2>2, <2>3 DEF UpdateSteps, RestartSteps, Copy, InBackup, Outcome
  <2> QED BY <2>1, <2>2, <2>4 DEF UpToDate
<1>3. CASE Step /\ ~ UpdateAction
  <2>1. ~ (CheckImageExists \/ LookAtJob \/ ListPods \/ ListJobs \/ JobsRemoved)
    BY <1>1 DEF CheckImageExists, LookAtJob, JobMissing, JobActive, JobSucceeded, JobRetried,
                JobGivenUp, GetJob, ListPods, ListJobs, JobsRemoved, clusterVars, objectVars
  <2>2. ~ (CreateBackupJob \/ DeleteJob \/ DeletePods \/ (\E j \in Image : RemoveJob(j)))
    BY <1>1 DEF CreateBackupJob, DeleteJob, DeletePods, RemoveJob, objectVars
  <2>3. ~ (ExportStatus \/ SetExport) BY <1>1 DEF ExportStatus, SetExport
  <2> QED BY <1>3, <2>1, <2>2, <2>3 DEF Step, UpdateAction, LookAtJob
<1>4. ~ Crash /\ ~ (UNCHANGED vars)
  BY <1>1 DEF Crash, RestartCaches, vars, clusterVars, objectVars
<1>5. \A j \in Image : ~ Reconcile(j) /\ ~ ImageEvent(j)
  BY <1>1 DEF Reconcile, ReconcileNothing, ReconcileLater, ReconcileNew, ReconcilePending,
              ReconcileRunning, Enter, vars, clusterVars, objectVars, ImageEvent, SyncImage,
              SyncJob
<1>6. ~ Environment
  <2>1. \A j \in Image : ~ (JobSucceeds(j) \/ JobFails(j) \/ JobGoes(j) \/ PodRestarts(j))
    BY <1>1 DEF JobSucceeds, JobFails, JobGoes, PodRestarts, objectVars
  <2>2. \A e \in Export : ~ (SyncExport(e) \/ ExportEvent(e))
    BY <1>1, ExportEventShape DEF SyncExport
  <2>3. ASSUME NEW j \in Image, CreateImage(j) PROVE FALSE
    <3>1. j # i BY <2>3 DEF CreateImage
    <3> QED BY <2>3, <3>1 DEF CreateImage
  <2>4. ASSUME NEW j \in Image, CollectImage(j) PROVE FALSE
    <3>1. image'[i] = image[i] \/ image'[i].progress = Absent
      BY <2>4 DEF CollectImage, NoStatus, Status
    <3> QED BY <3>1
  <2> QED BY <2>1, <2>2, <2>3, <2>4 DEF Environment, Outside, ExportEvent
<1> QED BY <1>2, <1>3, <1>4, <1>5, <1>6 DEF Next

\* COMPLETED is undone only after the Job is gone, for Pods of it that are still listed.
THEOREM OldPodsUndoCompleted == Spec => CompletedUndoneByOldPods
<1>1. ASSUME TypeOK, LifecycleInv, UndoneInv, [Next]_vars, NEW i \in Image,
             Progressed(i, {SUCCESS}), image'[i].progress \notin {SUCCESS, Absent}
      PROVE  job[i] = "none" /\ restartsSeen[i] > 0
  <2>1. pc \in RestartSteps /\ i = cur /\ cur \in current["imageCtl"]
    BY <1>1, CompletedChanges
  <2> QED BY <1>1, <2>1 DEF UndoneInv, RestartInv, Progressed, InBackup
<1>2. TypeOK /\ LifecycleInv /\ UndoneInv /\ [Next]_vars =>
        \A i \in Image :
          Progressed(i, {SUCCESS}) /\ image'[i].progress \notin {SUCCESS, Absent} =>
            job[i] = "none" /\ restartsSeen[i] > 0
  BY <1>1
<1> QED BY <1>2, TypeCorrect, LifecycleInvariant, UndoneInvariant, PTL
        DEF Spec, CompletedUndoneByOldPods

\* COMPLETED is final if the cache lists no Pod that is deleted, whatever else fails.
THEOREM CompletedStays ==
  ASSUME NoOldPods
  PROVE  Spec => CompletedIsFinal
<1>1. ASSUME TypeOK, LifecycleInv, UndoneInv, [Next]_vars, NEW i \in Image,
             Progressed(i, {SUCCESS})
      PROVE  image'[i].progress \in {SUCCESS, Absent}
  <2>1. SUFFICES ASSUME image'[i].progress \notin {SUCCESS, Absent} PROVE FALSE
    OBVIOUS
  <2>2. pc \in RestartSteps /\ i = cur /\ cur \in current["imageCtl"]
    BY <1>1, <2>1, CompletedChanges
  <2> QED BY <1>1, <2>2 DEF UndoneInv, PodsInv, Progressed, InBackup
<1>2. TypeOK /\ LifecycleInv /\ UndoneInv /\ [Next]_vars =>
        \A i \in Image : Progressed(i, {SUCCESS}) => image'[i].progress \in {SUCCESS, Absent}
  BY <1>1
<1> QED BY <1>2, TypeCorrect, LifecycleInvariant, UndoneInvariant, PTL
        DEF Spec, CompletedIsFinal
=============================================================================

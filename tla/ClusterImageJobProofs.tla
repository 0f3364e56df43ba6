----------------------- MODULE ClusterImageJobProofs ------------------------
(***************************************************************************)
(* What becomes of the Jobs: none is deleted before its outcome is         *)
(* recorded, an export is COMPLETED only after those of the images its     *)
(* writer has seen, and none keeps its slot once it is over. The last      *)
(* holds only without some of the faults, which the theorem names.         *)
(***************************************************************************)
EXTENDS ClusterImageOrderProofs, FiniteSetTheorems

USE DEF Absent, New, PENDING, RUNNING, RETRYING, SUCCESS, FAILED, PRESENT, Outcomes,
        Controller

-----------------------------------------------------------------------------
\* The outcome comes before the deletion.

\* At the deletion the outcome is recorded, unless the image has gone with its export.
RecordInv ==
  pc = "deleteJob" =>
    \/ image[cur].progress \in Outcomes
    \/ image[cur].progress = Absent /\ export[ExportOf[cur]] = Absent

LEMMA UpdateRecord ==
  ASSUME TypeOK, LifecycleInv, UpdateAction
  PROVE  RecordInv'
<1>1. SUFFICES ASSUME pc' = "deleteJob" PROVE RecordInv' BY DEF RecordInv
<1>2. /\ pc = "recordOutcome" /\ cur' = cur
      /\ UpToDate(cur) /\ PutImage("imageCtl", cur, obj)
  BY <1>1, UpdateShape DEF Continue
<1>3. cur \in Image /\ image \in [Image -> ImageStatus]
  BY <1>2 DEF TypeOK, ClusterTypeOK, ObjectTypeOK, WorkerTypeOK
<1>4. obj.progress \in Outcomes
  BY <1>2 DEF LifecycleInv, CopyInv, Copy, Outcome, Is, UpToDate
<1>5. image'[cur] = obj BY <1>2, <1>3 DEF PutImage
<1> QED BY <1>2, <1>4, <1>5 DEF RecordInv

LEMMA EnvironmentRecord ==
  ASSUME TypeOK, ExportInv, RecordInv, Environment \/ \E i \in Image : ImageEvent(i)
  PROVE  RecordInv'
<1>1. SUFFICES ASSUME pc = "deleteJob" PROVE RecordInv'
  BY DEF Environment, Outside, ImageEvent, workerVars, RecordInv
<1>2. UNCHANGED workerVars BY DEF Environment, Outside, ImageEvent
<1>3. cur \in Image /\ ExportOf[cur] \in Export
  BY <1>1, ConstantsAssumption DEF TypeOK, WorkerTypeOK
<1> USE <1>2 DEF workerVars, RecordInv
<1>4. ASSUME NEW i \in Image,
             \/ SyncImage(i) \/ SyncJob(i)
             \/ JobSucceeds(i) \/ JobFails(i) \/ JobGoes(i) \/ PodRestarts(i)
      PROVE  RecordInv'
  BY <1>4 DEF SyncImage, SyncJob, JobSucceeds, JobFails, JobGoes, PodRestarts, objectVars
<1>5. ASSUME NEW i \in Image, CreateImage(i) PROVE RecordInv'
  <2>1. i = cur => image[cur].progress \notin Outcomes /\ export[ExportOf[cur]] # Absent
    BY <1>5 DEF CreateImage
  <2>2. i # cur BY <1>1, <2>1
  <2>3. image'[cur] = image[cur] /\ export' = export
    BY <1>3, <1>5, <2>2 DEF CreateImage, TypeOK, ClusterTypeOK, ObjectTypeOK
  <2> QED BY <1>1, <2>3
<1>6. ASSUME NEW i \in Image, CollectImage(i) PROVE RecordInv'
  <2>1. image'[cur] = IF i = cur THEN NoStatus ELSE image[cur]
    BY <1>3, <1>6 DEF CollectImage, TypeOK, ClusterTypeOK, ObjectTypeOK
  <2>2. export' = export /\ export[ExportOf[i]] = Absent BY <1>6 DEF CollectImage
  <2> QED BY <1>1, <2>1, <2>2 DEF NoStatus, Status
<1>7. ASSUME NEW e \in Export, SyncExport(e) \/ ExportEvent(e) PROVE RecordInv'
  <2>1. image' = image BY <1>7, ExportEventShape DEF SyncExport
  <2>2. export[ExportOf[cur]] = Absent => export'[ExportOf[cur]] = Absent
    BY <1>3, <1>7, ExportEventWrites DEF SyncExport
  <2> QED BY <1>1, <2>1, <2>2
<1> QED BY <1>4, <1>5, <1>6, <1>7 DEF Environment, Outside, ImageEvent, ExportEvent

\* Only RecordOutcome leads to the deletion.
LEMMA NextRecord ==
  TypeOK /\ LifecycleInv /\ ExportInv /\ RecordInv /\ [Next]_vars => RecordInv'
<1> SUFFICES ASSUME TypeOK, LifecycleInv, ExportInv, RecordInv, [Next]_vars PROVE RecordInv'
  OBVIOUS
<1>1. CASE Step /\ ~ UpdateAction
  <2> USE DEF RecordInv, Continue, Return, Fail, Call
  <2>1. CASE LookAtJob \/ CheckImageExists \/ CreateBackupJob
    BY <2>1 DEF LookAtJob, JobMissing, JobActive, JobSucceeded, JobRetried, JobGivenUp,
                CheckImageExists, CreateBackupJob
  <2>2. CASE DeleteJob \/ DeletePods \/ ListPods \/ ListJobs \/ JobsRemoved
    BY <2>2 DEF DeleteJob, DeletePods, ListPods, ListJobs, JobsRemoved
  <2>3. ASSUME NEW j \in Image, RemoveJob(j) PROVE RecordInv' BY <2>3 DEF RemoveJob
  <2>4. CASE ExportStatus \/ SetExport BY <2>4 DEF ExportStatus, SetExport
  <2> QED BY <1>1, <2>1, <2>2, <2>3, <2>4 DEF Step, UpdateAction, LookAtJob
<1>2. ASSUME NEW i \in Image, Reconcile(i) PROVE RecordInv'
  BY <1>2 DEF RecordInv, Reconcile, ReconcileNothing, ReconcileLater, ReconcileNew,
              ReconcilePending, ReconcileRunning, Fetch, Enter, vars, workerVars
<1>3. CASE Crash BY <1>3 DEF Crash, RecordInv
<1>4. CASE UNCHANGED vars BY <1>4 DEF vars, clusterVars, objectVars, workerVars, RecordInv
<1> QED BY <1>1, <1>2, <1>3, <1>4, UpdateRecord, EnvironmentRecord DEF Next

\* The worker deletes a Job in DeleteJob only.
LEMMA WorkerDeletes ==
  ASSUME TypeOK, [Next]_vars, NEW i \in Image, job[i] # "none", job'[i] = "none", pc' # pc
  PROVE  pc = "deleteJob" /\ i = cur
<1> job \in [Image -> JobState] BY DEF TypeOK, ClusterTypeOK, JobTypeOK
<1>1. job' # job OBVIOUS
<1>2. CASE Step
  <2>1. ~ UpdateAction BY <1>1, UpdateShape DEF jobVars
  <2>2. ~ (CheckImageExists \/ LookAtJob \/ ListPods \/ ListJobs \/ JobsRemoved)
    BY <1>1 DEF CheckImageExists, LookAtJob, JobMissing, JobActive, JobSucceeded, JobRetried,
                JobGivenUp, GetJob, ListPods, ListJobs, JobsRemoved, clusterVars, jobVars
  <2>3. ~ (DeletePods \/ (\E j \in Image : RemoveJob(j)) \/ ExportStatus \/ SetExport)
    BY <1>1 DEF DeletePods, RemoveJob, ExportStatus, SetExport, jobVars
  <2>4. ~ CreateBackupJob BY DEF CreateBackupJob, Call, JobCreated
  <2>5. DeleteJob BY <1>2, <2>1, <2>2, <2>3, <2>4 DEF Step, UpdateAction, LookAtJob
  <2>6. job' = [job EXCEPT ![cur] = "none"] BY <1>1, <2>5 DEF DeleteJob, Call
  <2> QED BY <2>5, <2>6 DEF DeleteJob
<1>3. ~ Crash BY <1>1 DEF Crash, RestartCaches
<1>4. ~ (UNCHANGED vars) BY <1>1 DEF vars, clusterVars, jobVars
<1>5. \A j \in Image : ~ Reconcile(j)
  BY <1>1 DEF Reconcile, ReconcileNothing, ReconcileLater, ReconcileNew, ReconcilePending,
              ReconcileRunning, Enter, vars, clusterVars, jobVars
<1>6. ~ Environment /\ \A j \in Image : ~ ImageEvent(j)
  BY DEF Environment, Outside, ImageEvent, workerVars
<1> QED BY <1>2, <1>3, <1>4, <1>5, <1>6 DEF Next

\* At the deletion of a Job by the worker its outcome is recorded.
THEOREM RecordedFirst == Spec => OutcomeRecordedFirst
<1>1. Init => RecordInv BY DEF Init, RecordInv
<1>2. ASSUME TypeOK, RecordInv, [Next]_vars, NEW i \in Image,
             job[i] # "none", job'[i] = "none", pc' # pc
      PROVE  Progressed(i, {SUCCESS, RETRYING, FAILED, Absent})
  BY <1>2, WorkerDeletes DEF RecordInv, Progressed
<1>3. TypeOK /\ RecordInv /\ [Next]_vars =>
        [\A i \in Image : job[i] # "none" /\ job'[i] = "none" /\ pc' # pc /\ i \notin deleting =>
           Progressed(i, {SUCCESS, RETRYING, FAILED, Absent})]_vars
  BY <1>2
<1> QED
  BY <1>1, <1>3, NextRecord, TypeCorrect, LifecycleInvariant, ExportInvariant, PTL
     DEF Spec, OutcomeRecordedFirst

-----------------------------------------------------------------------------
\* An export is COMPLETED only when its images are done, whatever faults there are.

\* Who changes the status of an export.
LEMMA ExportChanges ==
  ASSUME TypeOK, [Next]_vars, export' # export
  PROVE  SetExport \/ (pc' = pc /\ \E e \in Export : ExportEvent(e))
<1>1. CASE Step
  <2>1. ~ UpdateAction BY UpdateShape
  <2>2. ~ (CheckImageExists \/ LookAtJob \/ ListPods \/ ListJobs \/ JobsRemoved \/ ExportStatus)
    BY DEF CheckImageExists, LookAtJob, JobMissing, JobActive, JobSucceeded, JobRetried,
           JobGivenUp, GetJob, ListPods, ListJobs, JobsRemoved, ExportStatus, clusterVars,
           objectVars
  <2>3. ~ (CreateBackupJob \/ DeleteJob \/ DeletePods \/ \E j \in Image : RemoveJob(j))
    BY DEF CreateBackupJob, DeleteJob, DeletePods, RemoveJob, objectVars
  <2> QED BY <1>1, <2>1, <2>2, <2>3 DEF Step, UpdateAction, LookAtJob
<1>2. ~ Crash /\ ~ (UNCHANGED vars) BY DEF Crash, RestartCaches, vars, clusterVars, objectVars
<1>3. \A i \in Image : ~ Reconcile(i) /\ ~ ImageEvent(i)
  BY DEF Reconcile, ReconcileNothing, ReconcileLater, ReconcileNew, ReconcilePending,
         ReconcileRunning, Enter, vars, clusterVars, objectVars, ImageEvent, SyncImage, SyncJob
<1>4. CASE Environment
  <2>1. \A i \in Image : ~ (JobSucceeds(i) \/ JobFails(i) \/ JobGoes(i) \/ PodRestarts(i)
                             \/ CreateImage(i) \/ CollectImage(i))
    BY DEF JobSucceeds, JobFails, JobGoes, PodRestarts, CreateImage, CollectImage, objectVars
  <2>2. \A e \in Export : ~ SyncExport(e) BY DEF SyncExport
  <2> QED BY <1>4, <2>1, <2>2 DEF Environment, Outside, ExportEvent, workerVars
<1> QED BY <1>1, <1>2, <1>3, <1>4 DEF Next

LEMMA StaysGone ==
  ASSUME TypeOK, ExportInv, ReportInv, [Next]_vars, NEW e \in Export, export[e] = Absent
  PROVE  export'[e] = Absent
<1>1. CASE export' = export BY <1>1
<1>2. CASE export' # export
  <2>1. CASE SetExport
    <3>1. e # ExportOf[cur] /\ export' = [export EXCEPT ![ExportOf[cur]] = newStatus]
      BY <1>2, <2>1, SetExportShape
    <3> QED BY <3>1 DEF TypeOK, ClusterTypeOK, ObjectTypeOK
  <2>2. ASSUME NEW x \in Export, ExportEvent(x) PROVE export'[e] = Absent
    BY <2>2, ExportEventWrites
  <2> QED BY <1>2, <2>1, <2>2, ExportChanges
<1> QED BY <1>1, <1>2

\* Who changes the status of an image.
LEMMA ImageChanges ==
  ASSUME TypeOK, [Next]_vars, image' # image
  PROVE  UpdateAction \/ \E i \in Image : CreateImage(i) \/ CollectImage(i)
<1>1. CASE Step
  <2>1. ~ (CheckImageExists \/ LookAtJob \/ ListPods \/ ListJobs \/ JobsRemoved)
    BY DEF CheckImageExists, LookAtJob, JobMissing, JobActive, JobSucceeded, JobRetried,
           JobGivenUp, GetJob, ListPods, ListJobs, JobsRemoved, clusterVars, objectVars
  <2>2. ~ (CreateBackupJob \/ DeleteJob \/ DeletePods \/ \E j \in Image : RemoveJob(j))
    BY DEF CreateBackupJob, DeleteJob, DeletePods, RemoveJob, objectVars
  <2>3. ~ (ExportStatus \/ SetExport) BY DEF ExportStatus, SetExport
  <2> QED BY <1>1, <2>1, <2>2, <2>3 DEF Step, UpdateAction, LookAtJob
<1>2. ~ Crash /\ ~ (UNCHANGED vars) BY DEF Crash, RestartCaches, vars, clusterVars, objectVars
<1>3. \A i \in Image : ~ Reconcile(i) /\ ~ ImageEvent(i)
  BY DEF Reconcile, ReconcileNothing, ReconcileLater, ReconcileNew, ReconcilePending,
         ReconcileRunning, Enter, vars, clusterVars, objectVars, ImageEvent, SyncImage, SyncJob
<1>4. CASE Environment
  <2>1. \A i \in Image : ~ (JobSucceeds(i) \/ JobFails(i) \/ JobGoes(i) \/ PodRestarts(i))
    BY DEF JobSucceeds, JobFails, JobGoes, PodRestarts, objectVars
  <2>2. \A e \in Export : ~ (SyncExport(e) \/ ExportEvent(e))
    BY ExportEventShape DEF SyncExport
  <2> QED BY <1>4, <2>1, <2>2 DEF Environment, Outside, ExportEvent
<1> QED BY <1>1, <1>2, <1>3, <1>4 DEF Next

\* A PRESENT image stays so until it is collected, and only with its export.
LEMMA PresentStays ==
  ASSUME TypeOK, LifecycleInv, [Next]_vars, NEW i \in Image, image[i].progress = PRESENT
  PROVE  image'[i].progress = PRESENT \/ export'[ExportOf[i]] = Absent
<1> image \in [Image -> ImageStatus] BY DEF TypeOK, ClusterTypeOK, ObjectTypeOK
<1>1. LifecycleStep BY NextSteps
<1>2. image'[i].progress \in {PRESENT, Absent} BY <1>1, FinalKept DEF Progressed
<1>3. SUFFICES ASSUME image'[i].progress = Absent PROVE export'[ExportOf[i]] = Absent BY <1>2
<1>4. ~ UpdateAction
  <2>1. SUFFICES ASSUME UpdateAction PROVE FALSE OBVIOUS
  <2>2. pc \in UpdateSteps /\ UpToDate(cur) /\ PutImage("imageCtl", cur, obj)
    BY <1>3, <2>1, UpdateShape
  <2>3. i = cur /\ image'[cur] = obj BY <1>3, <2>2 DEF PutImage
  <2>4. obj = image[cur] \/ MayMove(image[cur], obj, cur) BY <2>2, CopyMoves
  <2> QED BY <1>3, <2>3, <2>4 DEF MayMove, Is
<1>5. \A j \in Image : ~ CreateImage(j)
  <2>1. SUFFICES ASSUME NEW j \in Image, CreateImage(j) PROVE FALSE OBVIOUS
  <2>2. j # i BY <2>1 DEF CreateImage
  <2> QED BY <1>3, <2>1, <2>2 DEF CreateImage
<1>6. PICK j \in Image : CollectImage(j) BY <1>3, <1>4, <1>5, ImageChanges
<1>7. j = i BY <1>3, <1>6 DEF CollectImage
<1> QED BY <1>6, <1>7 DEF CollectImage

LEMMA DoneStays ==
  ASSUME TypeOK, LifecycleInv, ExportInv, ReportInv, [Next]_vars, NEW i \in Image, Done(i)
  PROVE  Done(i)'
<1>1. succeeded \subseteq succeeded'
  <2>1. LifecycleStep BY NextSteps
  <2> QED BY <2>1 DEF LifecycleStep, Lifecycle!Next, Lifecycle!StatusStep, Lifecycle!BackupStep,
                      Lifecycle!lifecycleVars
<1>2. ExportOf[i] \in Export BY ConstantsAssumption
<1>3. export[ExportOf[i]] = Absent => export'[ExportOf[i]] = Absent BY <1>2, StaysGone
<1> QED BY <1>1, <1>3, PresentStays DEF Done

\* What the cache shows done is done.
LEMMA SeenDone ==
  ASSUME TypeOK, LifecycleInv, ExportInv, NEW e, NEW i \in ImagesOf(e) \ Hidden(e),
         SeenStatuses(e) \subseteq {SUCCESS, PRESENT, New}
  PROVE  Done(i)
<1>1. i \in Image /\ ExportOf[i] = e /\ SeenProgress(i) \notin {Absent, New}
  BY DEF ImagesOf, Hidden
<1>2. SeenProgress(i) \in SeenStatuses(e) BY <1>1 DEF SeenStatuses
<1>3. imageSeen[i].progress \in {SUCCESS, PRESENT} BY <1>1, <1>2 DEF SeenProgress
<1>4. imageSeen[i].progress = SUCCESS => i \in succeeded
  BY <1>1 DEF LifecycleInv, StatusInv, StatusFacts
<1> QED BY <1>1, <1>3, <1>4 DEF ExportInv, Done

\* What a step leaves of the lists that the two controllers act on.
ImageCtlKeeps ==
  pc' = "setExport" =>
    UNCHANGED <<pc, cur, newStatus>> /\ hidden'["imageCtl"] = hidden["imageCtl"]
ExportCtlKeeps ==
  \A e \in Export : e \in current'["exportCtl"] =>
    \/ CheckImages(e)
    \/ e \in current["exportCtl"] /\ hidden'["exportCtl"] = hidden["exportCtl"]

LEMMA StepLists ==
  ASSUME TypeOK, Step
  PROVE  (ExportStatus \/ ImageCtlKeeps) /\ ExportCtlKeeps
<1> USE DEF ImageCtlKeeps, ExportCtlKeeps, clusterVars, objectVars
<1>1. CASE UpdateAction
  <2>1. pc' # "setExport" BY <1>1, UpdateShape DEF Continue
  <2>2. hidden' = hidden
    BY <1>1 DEF UpdateAction, SetPending, SetPresent, SetRunning, ConfirmRunning, RecordOutcome,
                SetFailed, SetRetrying, FinalUpdate
  <2>3. current'["exportCtl"] \subseteq current["exportCtl"]
    BY <1>1, UpdateShape DEF PutImage, WrittenBy, Holder
  <2> QED BY <2>1, <2>2, <2>3
<1>2. CASE ExportStatus
  <2>1. current'["exportCtl"] = current["exportCtl"] /\ hidden'["exportCtl"] = hidden["exportCtl"]
    BY <1>2 DEF ExportStatus, ReadBy, Holder, TypeOK, ClusterTypeOK, ObjectTypeOK
  <2> QED BY <1>2, <2>1
<1>3. CASE SetExport
  <2>1. pc' = "idle" BY <1>3 DEF SetExport, Return
  <2>2. current'["exportCtl"] \subseteq current["exportCtl"]
    BY <1>3 DEF SetExport, PutExport, WrittenBy, Holder
  <2>3. current'["exportCtl"] # {} => hidden'["exportCtl"] = hidden["exportCtl"]
    BY <1>3 DEF SetExport
  <2> QED BY <2>1, <2>2, <2>3
<1> USE DEF Continue, Return, Fail, Call
<1>4. CASE LookAtJob \/ CheckImageExists
  BY <1>4 DEF LookAtJob, JobMissing, JobActive, JobSucceeded, JobRetried, JobGivenUp, GetJob,
              CheckImageExists
<1>5. CASE CreateBackupJob \/ DeleteJob \/ DeletePods
  BY <1>5 DEF CreateBackupJob, DeleteJob, DeletePods
<1>6. CASE ListPods \/ ListJobs \/ JobsRemoved BY <1>6 DEF ListPods, ListJobs, JobsRemoved
<1>7. ASSUME NEW j \in Image, RemoveJob(j) PROVE ImageCtlKeeps /\ ExportCtlKeeps
  BY <1>7 DEF RemoveJob
<1> QED BY <1>1, <1>2, <1>3, <1>4, <1>5, <1>6, <1>7 DEF Step, UpdateAction, LookAtJob

LEMMA EnvironmentLists ==
  ASSUME TypeOK, Environment \/ \E i \in Image : ImageEvent(i)
  PROVE  ImageCtlKeeps /\ ExportCtlKeeps
<1> USE DEF ImageCtlKeeps, ExportCtlKeeps, objectVars
<1>1. UNCHANGED <<pc, cur, newStatus>> BY DEF Environment, Outside, ImageEvent, workerVars
<1>2. ASSUME NEW i \in Image,
             SyncJob(i) \/ JobSucceeds(i) \/ JobFails(i) \/ JobGoes(i) \/ PodRestarts(i)
      PROVE  ImageCtlKeeps /\ ExportCtlKeeps
  BY <1>1, <1>2 DEF SyncJob, JobSucceeds, JobFails, JobGoes, PodRestarts
<1>3. ASSUME NEW i \in Image, CreateImage(i) \/ CollectImage(i)
      PROVE  ImageCtlKeeps /\ ExportCtlKeeps
  BY <1>1, <1>3 DEF CreateImage, CollectImage, WrittenByOther, Holder
<1>4. ASSUME NEW o, SyncImage(o) \/ SyncExport(o) PROVE ImageCtlKeeps /\ ExportCtlKeeps
  <2>1. hidden' = hidden BY <1>4 DEF SyncImage, SyncExport
  <2>2. current'["exportCtl"] = current["exportCtl"]
    <3>1. CASE SyncImage(o) BY <3>1 DEF SyncImage
    <3>2. CASE SyncExport(o) BY <3>2 DEF SyncExport
    <3> QED BY <1>4, <3>1, <3>2
  <2> QED BY <1>1, <2>1, <2>2
<1>5. ASSUME NEW e \in Export, RemoveExport(e) PROVE ImageCtlKeeps /\ ExportCtlKeeps
  BY <1>1, <1>5 DEF RemoveExport, WrittenByOther, Holder
<1>6. ASSUME NEW e \in Export, CheckCompleted(e) PROVE ImageCtlKeeps /\ ExportCtlKeeps
  <2>1. CheckImages(e) BY <1>6 DEF CheckCompleted
  <2>2. current'["exportCtl"] = {e} /\ hidden'["imageCtl"] = hidden["imageCtl"]
    BY <2>1 DEF CheckImages, Holder, TypeOK, ClusterTypeOK, ObjectTypeOK
  <2> QED BY <1>1, <2>1, <2>2
<1>7. ASSUME NEW e \in Export, NEW p, ExportCtlWrites(e, p) PROVE ImageCtlKeeps /\ ExportCtlKeeps
  <2>1. current'["exportCtl"] = {} /\ hidden'["imageCtl"] = hidden["imageCtl"]
    BY <1>7 DEF ExportCtlWrites, WrittenByOther, Holder, TypeOK, ClusterTypeOK, ObjectTypeOK
  <2> QED BY <1>1, <2>1
<1>8. ASSUME NEW e \in Export, SetRunningAgain(e) \/ SetExportFailed(e) \/ SetExportCompleted(e)
      PROVE  ImageCtlKeeps /\ ExportCtlKeeps
  BY <1>7, <1>8 DEF SetRunningAgain, SetExportFailed, SetExportCompleted
<1> QED
  BY <1>2, <1>3, <1>4, <1>5, <1>6, <1>8 DEF Environment, Outside, ImageEvent

LEMMA NextLists ==
  ASSUME TypeOK, [Next]_vars
  PROVE  (ExportStatus \/ ImageCtlKeeps) /\ ExportCtlKeeps
<1> USE DEF ImageCtlKeeps, ExportCtlKeeps
<1>1. CASE Crash BY <1>1 DEF Crash, RestartCaches, Holder
<1>2. CASE UNCHANGED vars BY <1>2 DEF vars, clusterVars, objectVars, workerVars
<1>3. ASSUME NEW i \in Image, Reconcile(i) PROVE ImageCtlKeeps /\ ExportCtlKeeps
  <2>1. CASE ReconcileNothing(i) \/ ReconcileLater(i)
    BY <2>1 DEF ReconcileNothing, ReconcileLater, vars, clusterVars, objectVars, workerVars
  <2>2. CASE ReconcileNew(i) \/ ReconcilePending(i) \/ ReconcileRunning(i)
    <3>1. PICK step \in {"setPending", "checkImageExists", "getJob"} : \E o : Enter(i, step, o)
      BY <2>2 DEF ReconcileNew, ReconcilePending, ReconcileRunning
    <3>2. current'["exportCtl"] = current["exportCtl"] /\ hidden' = hidden /\ pc' # "setExport"
      BY <3>1 DEF Enter, ReadBy, Holder, TypeOK, ClusterTypeOK, ObjectTypeOK
    <3> QED BY <3>2
  <2> QED BY <1>3, <2>1, <2>2 DEF Reconcile
<1> QED BY <1>1, <1>2, <1>3, StepLists, EnvironmentLists DEF Next

LEMMA NextDone ==
  TypeOK /\ LifecycleInv /\ ExportInv /\ ReportInv /\ DoneInv /\ [Next]_vars => DoneInv'
<1> SUFFICES ASSUME TypeOK, LifecycleInv, ExportInv, ReportInv, DoneInv, [Next]_vars
             PROVE  DoneInv'
  OBVIOUS
<1>1. ASSUME NEW h \in Controller, NEW e, ListDone(h, e), hidden'[h] = hidden[h]
      PROVE  ListDone(h, e)'
  <2>1. ImagesOf(e)' = ImagesOf(e) /\ ImagesOf(e) \subseteq Image BY DEF ImagesOf
  <2> QED BY <1>1, <2>1, DoneStays DEF ListDone
<1>2. ASSUME NEW h \in Controller, NEW e, hidden'[h] = Hidden(e),
             SeenStatuses(e) \subseteq {SUCCESS, PRESENT, New}
      PROVE  ListDone(h, e)'
  <2>1. ImagesOf(e)' = ImagesOf(e) /\ ImagesOf(e) \subseteq Image BY DEF ImagesOf
  <2> QED BY <1>2, <2>1, SeenDone, DoneStays DEF ListDone
<1>3. ASSUME pc' = "setExport", newStatus' = SUCCESS
      PROVE  ListDone("imageCtl", ExportOf[cur])'
  <2>1. CASE ImageCtlKeeps
    <3>1. /\ pc = "setExport" /\ newStatus = SUCCESS /\ cur' = cur
          /\ hidden'["imageCtl"] = hidden["imageCtl"]
      BY <1>3, <2>1 DEF ImageCtlKeeps
    <3>2. ListDone("imageCtl", ExportOf[cur]) BY <3>1 DEF DoneInv
    <3> QED BY <1>1, <3>1, <3>2 DEF ListDone
  <2>2. CASE ExportStatus
    <3> DEFINE e == ExportOf[cur]
    <3>1. /\ cur' = cur /\ Aggregate(SeenStatuses(e)) = SUCCESS
          /\ hidden'["imageCtl"] = Hidden(e)
      BY <1>3, <2>2 DEF ExportStatus, Return, TypeOK, ClusterTypeOK, ObjectTypeOK
    <3>2. AllCompleted(SeenStatuses(e)) BY <3>1 DEF Aggregate
    <3>3. SeenStatuses(e) \subseteq Progress \ {Absent}
      BY DEF SeenStatuses, SeenProgress, ImagesOf, ImageStatus, TypeOK, ClusterTypeOK,
             ObjectTypeOK
    <3>4. SeenStatuses(e) \subseteq {SUCCESS, PRESENT, New}
      BY <3>2, <3>3 DEF AllCompleted, Progress
    <3> QED BY <1>2, <3>1, <3>4 DEF ListDone
  <2> QED BY <2>1, <2>2, NextLists
<1>4. ASSUME NEW e \in Export, e \in current'["exportCtl"] PROVE ListDone("exportCtl", e)'
  <2>1. CASE CheckImages(e)
    <3>1. /\ hidden'["exportCtl"] = Hidden(e)
          /\ SeenStatuses(e) \subseteq {SUCCESS, PRESENT, New}
      BY <2>1 DEF CheckImages, AllSeenCompleted, TypeOK, ClusterTypeOK, ObjectTypeOK
    <3> QED BY <1>2, <3>1
  <2>2. CASE e \in current["exportCtl"] /\ hidden'["exportCtl"] = hidden["exportCtl"]
    BY <1>1, <2>2 DEF DoneInv
  <2> QED BY <1>4, <2>1, <2>2, NextLists DEF ExportCtlKeeps
<1> QED BY <1>3, <1>4 DEF DoneInv

\* All that a list has shown of the images of an export that a controller is about to call
\* COMPLETED is still so.
THEOREM DoneInvariant == Spec => []DoneInv
<1>1. Init => DoneInv BY DEF Init, ClusterInit, Holder, DoneInv
<1> QED
  BY <1>1, NextDone, TypeCorrect, LifecycleInvariant, ExportInvariant, ReportInvariant, PTL
     DEF Spec

\* Whatever faults there are, an export becomes COMPLETED only when of each image the
\* writer has seen a status of, a backup has been made or the image is PRESENT.
THEOREM CompletedIsDone == Spec => CompletedExportIsDone
<1>1. ASSUME TypeOK, ExportInv, ReportInv, DoneInv, [Next]_vars, NEW e \in Export,
             export[e] # SUCCESS, export'[e] = SUCCESS
      PROVE  LET writer == IF pc' # pc THEN "imageCtl" ELSE "exportCtl"
             IN \A i \in ImagesOf(e) \ hidden[writer] :
                  i \in succeeded \/ Progressed(i, {PRESENT})
  <2>1. export' # export BY <1>1
  <2>2. CASE SetExport
    <3>1. /\ pc = "setExport" /\ newStatus = SUCCESS /\ e = ExportOf[cur] /\ export[e] # Absent
      BY <1>1, <2>1, <2>2, SetExportShape DEF TypeOK, ClusterTypeOK, ObjectTypeOK
    <3>2. pc' # pc BY <2>2, <3>1 DEF SetExport, Return
    <3>3. ListDone("imageCtl", e) BY <1>1, <3>1 DEF DoneInv
    <3> QED BY <3>1, <3>2, <3>3 DEF ListDone, Done, ImagesOf, Progressed
  <2>3. CASE pc' = pc /\ \E x \in Export : ExportEvent(x)
    <3>1. export[e] = RUNNING /\ e \in current["exportCtl"] BY <1>1, <2>3, ExportEventWrites
    <3>2. ListDone("exportCtl", e) BY <1>1, <3>1 DEF DoneInv
    <3> QED BY <2>3, <3>1, <3>2 DEF ListDone, Done, ImagesOf, Progressed
  <2> QED BY <1>1, <2>1, <2>2, <2>3, ExportChanges
<1>2. TypeOK /\ ExportInv /\ ReportInv /\ DoneInv /\ [Next]_vars =>
        \A e \in Export : export[e] # SUCCESS /\ export'[e] = SUCCESS =>
          LET writer == IF pc' # pc THEN "imageCtl" ELSE "exportCtl"
          IN \A i \in ImagesOf(e) \ hidden[writer] :
               i \in succeeded \/ Progressed(i, {PRESENT})
  BY <1>1
<1> QED
  BY <1>2, TypeCorrect, ExportInvariant, ReportInvariant, DoneInvariant, PTL
     DEF Spec, CompletedExportIsDone

-----------------------------------------------------------------------------
\* No slot is lost, as long as only caches of objects and of Pods are late and processes
\* die.

SlotFaultsOnly == Faults \subseteq {"staleObjects", "stalePods", "crashes"}

LEMMA NoSlotFault ==
  ASSUME SlotFaultsOnly, NEW f \in {"staleJobs", "apiErrors", "lostReplies"}
  PROVE  ~ May(f)
BY DEF SlotFaultsOnly, May, MayFault

LEMMA UpdateCalm ==
  ASSUME TypeOK, LifecycleInv, CalmInv, UpdateAction
  PROVE  CalmInv'
<1>1. /\ pc \in UpdateSteps /\ cur \in Image
      /\ UNCHANGED <<export, imageSeen, exportSeen, jobVars>>
  BY UpdateShape DEF UpdateSteps, TypeOK, WorkerTypeOK
<1>2. /\ image'[cur].progress # Absent
      /\ \A i \in Image : image[i].progress # Absent => image'[i].progress # Absent
  <2>1. CASE UNCHANGED image BY <1>1, <2>1 DEF CalmInv, UpdateSteps
  <2>2. CASE UpToDate(cur) /\ PutImage("imageCtl", cur, obj)
    <3>1. image[cur].progress # Absent BY <1>1 DEF CalmInv, UpdateSteps
    <3>2. obj = image[cur] \/ MayMove(image[cur], obj, cur) BY <1>1, <2>2, CopyMoves
    <3>3. obj.progress # Absent BY <3>1, <3>2 DEF MayMove, Is
    <3>4. image' = [image EXCEPT ![cur] = obj] BY <2>2 DEF PutImage
    <3> QED BY <1>1, <3>3, <3>4 DEF TypeOK, ClusterTypeOK, ObjectTypeOK
  <2> QED BY <2>1, <2>2, UpdateShape
<1>3. /\ pc' \notin RestartSteps \cup {"listJobs", "removeJobs", "deletePods"}
      /\ pc' # "idle" => cur' = cur /\ UpToDate(cur) /\ PutImage("imageCtl", cur, obj)
  BY UpdateShape DEF CalmInv, Continue, RestartSteps
<1>4. pc' # "idle" => cur \in current'["imageCtl"] BY <1>1, <1>3, PutIsLatest
<1> QED BY <1>1, <1>2, <1>3, <1>4 DEF CalmInv, jobVars

LEMMA StepCalm ==
  ASSUME SlotFaultsOnly, TypeOK, LifecycleInv, ExportInv, CalmInv, Step
  PROVE  CalmInv'
<1>1. CASE UpdateAction BY <1>1, UpdateCalm
<1> USE DEF CalmInv, Continue, Return, Fail, Call, clusterVars, objectVars, jobVars, RestartSteps
<1>2. CASE LookAtJob \/ CheckImageExists
  BY <1>2 DEF LookAtJob, JobMissing, JobActive, JobSucceeded, JobRetried, JobGivenUp, GetJob,
              CheckImageExists
<1>3. CASE CreateBackupJob
  <2>1. /\ pc = "createBackupJob" /\ cur \in Image /\ image[cur].progress # Absent
        /\ UNCHANGED <<objectVars, deleting>>
    BY <1>3 DEF CreateBackupJob, TypeOK, WorkerTypeOK
  <2>2. /\ \A i \in Image : i # cur => job'[i] = job[i]
        /\ \A i \in Image : restartsSeen'[i] = 0
    BY <1>3, <2>1 DEF CreateBackupJob, JobCreated, TypeOK, ClusterTypeOK, JobTypeOK
  <2>3. pc' = "idle" \/ (pc' = "setRunning" /\ cur' = cur) BY <1>3 DEF CreateBackupJob
  <2> QED BY <2>1, <2>2, <2>3
<1>4. CASE DeleteJob
  <2>1. /\ pc = "deleteJob" /\ cur \in Image /\ UNCHANGED <<objectVars, restartsSeen>>
        /\ deleting' = {}
    BY <1>4 DEF DeleteJob, TypeOK, WorkerTypeOK
  <2>2. \A i \in Image : job'[i] # "none" => job[i] # "none"
    BY <1>4 DEF DeleteJob, TypeOK, ClusterTypeOK, JobTypeOK
  <2>3. pc' = "idle" \/ (pc' = "deletePods" /\ cur' = cur) BY <1>4 DEF DeleteJob
  <2> QED BY <2>1, <2>2, <2>3
<1>5. CASE DeletePods
  <2>1. /\ pc = "deletePods" /\ UNCHANGED <<objectVars, job, deleting>>
        /\ pc' = "idle" \/ (pc' = "listPods" /\ cur' = cur)
    BY <1>5 DEF DeletePods
  <2>2. \A i \in Image : restartsSeen'[i] = 0
    BY <1>5 DEF DeletePods, PodsDeleted, TypeOK, ClusterTypeOK, JobTypeOK
  <2> QED BY <2>1, <2>2
<1>6. CASE ListPods BY <1>6 DEF ListPods, TypeOK, WorkerTypeOK
<1>7. ~ (ListJobs \/ JobsRemoved \/ \E j \in Image : RemoveJob(j))
  BY DEF JobsRemoved, RemoveJob, ListJobs
<1>8. CASE ExportStatus BY <1>8 DEF ExportStatus
<1>9. CASE SetExport
  <2>1. pc = "setExport" /\ pc' = "idle" /\ UNCHANGED <<image, imageSeen, jobVars>>
    BY <1>9 DEF SetExport
  <2>2. export' = export \/ export' = [export EXCEPT ![ExportOf[cur]] = newStatus]
    BY <1>9 DEF SetExport, PutExport
  <2>3. \A e \in Export : export'[e] # Absent
    BY <2>1, <2>2 DEF ExportInv, TypeOK, ClusterTypeOK, ObjectTypeOK
  <2> QED BY <2>1, <2>3
<1> QED
  BY <1>1, <1>2, <1>3, <1>4, <1>5, <1>6, <1>7, <1>8, <1>9 DEF Step, UpdateAction, LookAtJob

LEMMA ReconcileCalm ==
  ASSUME CalmInv, NEW i \in Image, Reconcile(i)
  PROVE  CalmInv'
<1> USE DEF CalmInv, clusterVars, objectVars, jobVars, RestartSteps
<1>1. CASE ReconcileNothing(i) \/ ReconcileLater(i)
  BY <1>1 DEF ReconcileNothing, ReconcileLater, vars, workerVars
<1>2. ASSUME NEW step \in {"setPending", "checkImageExists", "getJob"}, NEW o,
             Enter(i, step, o), imageSeen[i].progress # Absent
      PROVE  CalmInv'
  BY <1>2 DEF Enter
<1>3. CASE ReconcileNew(i) BY <1>2, <1>3 DEF ReconcileNew, SeenProgress
<1>4. CASE ReconcilePending(i) BY <1>2, <1>4 DEF ReconcilePending, IsPending, SeenProgress
<1>5. CASE ReconcileRunning(i) BY <1>2, <1>5 DEF ReconcileRunning, SeenProgress
<1> QED BY <1>1, <1>3, <1>4, <1>5 DEF Reconcile

LEMMA EnvironmentCalm ==
  ASSUME SlotFaultsOnly, TypeOK, CalmInv, Environment \/ \E i \in Image : ImageEvent(i)
  PROVE  CalmInv'
<1> USE DEF CalmInv, workerVars, RestartSteps
<1>1. UNCHANGED workerVars BY DEF Environment, Outside, ImageEvent
<1>2. ASSUME NEW i \in Image, JobSucceeds(i) \/ JobFails(i) PROVE CalmInv'
  BY <1>1, <1>2 DEF JobSucceeds, JobFails, objectVars, TypeOK, ClusterTypeOK, JobTypeOK
<1>3. \A i \in Image : ~ JobGoes(i) /\ ~ PodRestarts(i) /\ ~ CollectImage(i)
  BY ConstantsAssumption DEF JobGoes, PodRestarts, CollectImage, SlotFaultsOnly
<1>4. ASSUME NEW e \in Export, ExportEvent(e) PROVE CalmInv'
  <2>1. /\ UNCHANGED <<image, imageSeen, jobVars>>
        /\ current'["imageCtl"] \in {current["imageCtl"], current["imageCtl"] \ {e}}
    BY <1>4, ExportEventShape
  <2>2. \A x \in Export : export'[x] # Absent
    <3>1. ~ RemoveExport(e) BY DEF RemoveExport, SlotFaultsOnly
    <3>2. export' = export \/ \E p \in {RUNNING, FAILED, SUCCESS} : export' = [export EXCEPT ![e] = p]
      BY <1>4, <3>1 DEF ExportEvent, SetRunningAgain, SetExportFailed, CheckCompleted, CheckImages,
                        SetExportCompleted, ExportCtlWrites
    <3> QED BY <3>2 DEF TypeOK, ClusterTypeOK, ObjectTypeOK
  <2>3. cur # e \/ pc = "idle" BY ConstantsAssumption DEF TypeOK, WorkerTypeOK
  <2> QED BY <1>1, <2>1, <2>2, <2>3 DEF jobVars
<1>5. ASSUME NEW i \in Image, CreateImage(i) PROVE CalmInv'
  <2>1. /\ UNCHANGED <<export, imageSeen, jobVars>>
        /\ image' = [image EXCEPT ![i] = NewStatus]
        /\ current'["imageCtl"] = current["imageCtl"] \ {i} /\ image[i].progress = Absent
    BY <1>5 DEF CreateImage, WrittenByOther, Holder
  <2>2. NewStatus.progress # Absent BY DEF NewStatus, Status
  <2>3. \A j \in Image : image[j].progress # Absent => j # i /\ image'[j] = image[j]
    BY <2>1 DEF TypeOK, ClusterTypeOK, ObjectTypeOK
  <2>4. pc # "idle" => cur \in Image BY DEF TypeOK, WorkerTypeOK
  <2> QED BY <1>1, <2>1, <2>3, <2>4 DEF jobVars
<1>6. ASSUME NEW i \in Image, SyncImage(i) PROVE CalmInv'
  <2>1. /\ UNCHANGED <<image, export, jobVars>> /\ imageSeen' = [imageSeen EXCEPT ![i] = image[i]]
        /\ current'["imageCtl"] = current["imageCtl"]
    BY <1>6 DEF SyncImage
  <2> QED BY <1>1, <2>1 DEF jobVars, TypeOK, ClusterTypeOK, ObjectTypeOK
<1>7. ASSUME NEW i \in Image, SyncJob(i) PROVE CalmInv' BY <1>1, <1>7 DEF SyncJob, objectVars
<1>8. ASSUME NEW e \in Export, SyncExport(e) PROVE CalmInv'
  BY <1>1, <1>8 DEF SyncExport, jobVars
<1> QED
  BY <1>2, <1>3, <1>4, <1>5, <1>6, <1>7, <1>8 DEF Environment, Outside, ImageEvent, ExportEvent

LEMMA NextCalm ==
  ASSUME SlotFaultsOnly
  PROVE  TypeOK /\ LifecycleInv /\ ExportInv /\ CalmInv /\ [Next]_vars => CalmInv'
<1> SUFFICES ASSUME TypeOK, LifecycleInv, ExportInv, CalmInv, [Next]_vars PROVE CalmInv' OBVIOUS
<1>1. CASE Crash BY <1>1 DEF Crash, RestartCaches, CalmInv, RestartSteps
<1>2. CASE UNCHANGED vars
  BY <1>2 DEF CalmInv, vars, clusterVars, objectVars, jobVars, workerVars
<1> QED BY <1>1, <1>2, StepCalm, ReconcileCalm, EnvironmentCalm DEF Next

LEMMA SlotsCount ==
  ASSUME IsFiniteSet(Image), NEW S \in SUBSET Image, NEW T \in SUBSET Image, NEW i \in Image
  PROVE  /\ Cardinality(S) \in Nat /\ Cardinality(T) \in Nat
         /\ S \subseteq T => Cardinality(S) <= Cardinality(T)
         /\ S \ {i} \subseteq T => Cardinality(S) - 1 <= Cardinality(T)
         /\ i \notin S /\ S \cup {i} \subseteq T => Cardinality(S) + 1 <= Cardinality(T)
<1>1. /\ IsFiniteSet(S) /\ IsFiniteSet(T)
      /\ Cardinality(S) \in Nat /\ Cardinality(T) \in Nat
  BY FS_Subset, FS_CardinalityType
<1>2. ASSUME S \subseteq T PROVE Cardinality(S) <= Cardinality(T) BY <1>1, <1>2, FS_Subset
<1>3. ASSUME S \ {i} \subseteq T PROVE Cardinality(S) - 1 <= Cardinality(T)
  <2>1. Cardinality(S \ {i}) <= Cardinality(T) BY <1>1, <1>3, FS_Subset
  <2>2. Cardinality(S \ {i}) \in {Cardinality(S), Cardinality(S) - 1}
    BY <1>1, FS_RemoveElement
  <2> QED BY <1>1, <2>1, <2>2
<1>4. ASSUME i \notin S, S \cup {i} \subseteq T PROVE Cardinality(S) + 1 <= Cardinality(T)
  <2>1. Cardinality(S \cup {i}) = Cardinality(S) + 1 BY <1>1, <1>4, FS_AddElement
  <2>2. Cardinality(S \cup {i}) <= Cardinality(T) BY <1>1, <1>4, FS_Subset
  <2> QED BY <2>1, <2>2
<1> QED BY <1>1, <1>2, <1>3, <1>4

\* The counter follows the images whose Job it is for, if none of these is lost.
CountKept ==
  \/ activeJobs' = activeJobs /\ (StillCounted => StillCounted') /\ (NotCounted' => NotCounted)
  \/ activeJobs' = activeJobs - 1 /\ ~ (StillCounted /\ NotCounted')
  \/ activeJobs' = activeJobs + 1 /\ NotCounted /\ ~ NotCounted'

LEMMA CountFollows ==
  ASSUME NEW c \in Nat, NEW d \in Nat, c <= d, activeJobs \in Int, CountKept,
         /\ activeJobs <= c + 1
         /\ ~ StillCounted => activeJobs <= c
         /\ NotCounted => activeJobs + 1 <= c
  PROVE  /\ activeJobs' <= d + 1
         /\ ~ StillCounted' => activeJobs' <= d
         /\ NotCounted' => activeJobs' + 1 <= d
BY DEF CountKept, StillCounted, NotCounted

LEMMA InSlotKept ==
  ASSUME IsFiniteSet(Image), activeJobs \in Int, InSlotInv, InSlot \subseteq InSlot', CountKept,
         pc' = "setRunning" => job'[cur'] # "none",
         pc' = "setPending" /\ cur' \in current'["imageCtl"] =>
           image'[cur'].progress = New \/ job'[cur'] = "none"
  PROVE  InSlotInv'
<1>1. InSlot \in SUBSET Image /\ InSlot' \in SUBSET Image BY DEF InSlot
<1>2. /\ Cardinality(InSlot) \in Nat /\ Cardinality(InSlot') \in Nat
      /\ Cardinality(InSlot) <= Cardinality(InSlot')
  BY <1>1, FS_Subset, FS_CardinalityType
<1>3. /\ activeJobs <= Cardinality(InSlot) + 1
      /\ ~ StillCounted => activeJobs <= Cardinality(InSlot)
      /\ NotCounted => activeJobs + 1 <= Cardinality(InSlot)
  BY DEF InSlotInv
<1>4. /\ activeJobs' <= Cardinality(InSlot') + 1
      /\ ~ StillCounted' => activeJobs' <= Cardinality(InSlot')
      /\ NotCounted' => activeJobs' + 1 <= Cardinality(InSlot')
  BY <1>2, <1>3, CountFollows, Zenon
<1> QED BY <1>4 DEF InSlotInv

LEMMA UpdateInSlot ==
  ASSUME SlotFaultsOnly, IsFiniteSet(Image), TypeOK, LifecycleInv, CalmInv, InSlotInv,
         UpdateAction
  PROVE  InSlotInv'
<1>1. pc \in UpdateSteps /\ cur \in Image /\ job' = job
  BY UpdateShape DEF UpdateSteps, TypeOK, WorkerTypeOK, jobVars
<1>2. activeJobs \in Int /\ InSlot \in SUBSET Image /\ InSlot' \in SUBSET Image
  BY DEF InSlot, TypeOK, WorkerTypeOK
<1> USE NoSlotFault
<1>3. CASE ~ UpToDate(cur)
  <2>0. image' = image /\ Fail
    BY <1>3 DEF UpdateAction, SetPending, SetPresent, SetRunning, ConfirmRunning, RecordOutcome,
                SetFailed, SetRetrying, FinalUpdate, StatusUpdate
  <2>1. InSlot' = InSlot /\ pc' = "idle" /\ activeJobs' = activeJobs
    BY <1>1, <2>0 DEF InSlot, Progressed, Fail, Return
  <2>2. CountKept BY <1>1, <2>1
    DEF CountKept, NotCounted, StillCounted, UpdateSteps
  <2> QED BY <1>2, <2>1, <2>2, InSlotKept
<1>4. CASE UpToDate(cur)
  <2>0. PutImage("imageCtl", cur, obj)
    BY <1>4 DEF UpdateAction, SetPending, SetPresent, SetRunning, ConfirmRunning, RecordOutcome,
                SetFailed, SetRetrying, FinalUpdate, StatusUpdate
  <2>1. image' = [image EXCEPT ![cur] = obj] /\ image \in [Image -> ImageStatus]
    BY <2>0 DEF PutImage, TypeOK, ClusterTypeOK, ObjectTypeOK
  <2>2. \A i \in Image \ {cur} : i \in InSlot' <=> i \in InSlot
    BY <1>1, <2>1 DEF InSlot, Progressed
  <2>3. cur \in InSlot' <=> obj.progress \in InBackup /\ job[cur] # "none"
    BY <1>1, <2>1 DEF InSlot, Progressed, InBackup
  <2>4. cur \in InSlot <=> image[cur].progress \in InBackup /\ job[cur] # "none"
    BY <1>1 DEF InSlot, Progressed, InBackup
  <2>5. Copy(image[cur]) BY <1>1, <1>4 DEF LifecycleInv, CopyInv, UpToDate, UpdateSteps
  <2>6. CASE SetRunning
    <3>1. /\ pc = "setRunning" /\ pc' = "confirmRunning" /\ activeJobs' = activeJobs
      BY <1>4, <2>6 DEF SetRunning, StatusUpdate, Continue
    <3>2. cur \notin InSlot /\ cur \in InSlot'
      BY <2>3, <2>4, <2>5, <3>1 DEF Copy, Is, InBackup, InSlotInv
    <3>3. InSlot \cup {cur} \subseteq InSlot' BY <1>2, <2>2, <3>2
    <3>4. Cardinality(InSlot) + 1 <= Cardinality(InSlot')
          /\ Cardinality(InSlot) \in Nat /\ Cardinality(InSlot') \in Nat
      BY <1>1, <1>2, <3>2, <3>3, SlotsCount
    <3>5. activeJobs <= Cardinality(InSlot) BY <1>2, <3>1 DEF InSlotInv, NotCounted, StillCounted
    <3> QED BY <1>2, <3>1, <3>4, <3>5 DEF InSlotInv, NotCounted, StillCounted
  <2>7. CASE ConfirmRunning
    <3>1. pc = "confirmRunning" /\ pc' = "idle" /\ activeJobs' = activeJobs + 1
      BY <1>4, <2>7 DEF ConfirmRunning, StatusUpdate, Return
    <3>2. InSlot' = InSlot BY <1>2, <2>2, <2>3, <2>4, <2>5, <3>1 DEF Copy
    <3>3. CountKept BY <3>1 DEF CountKept, NotCounted, StillCounted
    <3> QED BY <1>2, <3>1, <3>2, <3>3, InSlotKept
  <2>8. CASE RecordOutcome
    <3>1. /\ pc = "recordOutcome" /\ pc' = "deleteJob" /\ activeJobs' = activeJobs
          /\ obj' = obj
      BY <1>4, <2>8 DEF RecordOutcome, StatusUpdate, Continue
    <3>2. CASE obj.progress = RETRYING
      <4>1. InSlot' = InSlot
        BY <1>2, <2>2, <2>3, <2>4, <2>5, <3>1, <3>2 DEF Copy, InBackup
      <4>2. CountKept BY <3>1, <3>2 DEF CountKept, NotCounted, StillCounted
      <4> QED BY <1>2, <3>1, <4>1, <4>2, InSlotKept
    <3>3. CASE obj.progress # RETRYING
      <4>1. InSlot \ {cur} \subseteq InSlot' BY <1>2, <2>2
      <4>2. Cardinality(InSlot) - 1 <= Cardinality(InSlot')
            /\ Cardinality(InSlot) \in Nat /\ Cardinality(InSlot') \in Nat
        BY <1>1, <1>2, <4>1, SlotsCount
      <4>3. activeJobs + 1 <= Cardinality(InSlot)
        BY <1>2, <3>1, <3>3 DEF InSlotInv, NotCounted, StillCounted
      <4> QED BY <1>2, <3>1, <4>2, <4>3 DEF InSlotInv, NotCounted, StillCounted
    <3> QED BY <3>2, <3>3
  <2>9. CASE SetPending
    <3>1. pc = "setPending" /\ pc' = "idle" /\ activeJobs' = activeJobs
      BY <2>9 DEF SetPending, StatusUpdate, Fail, Return
    <3>2. cur \notin InSlot
      BY <1>4, <2>4, <3>1 DEF InSlotInv, UpToDate, InBackup
    <3>3. InSlot \subseteq InSlot' BY <1>2, <2>2, <3>2
    <3>4. CountKept BY <3>1 DEF CountKept, NotCounted, StillCounted
    <3> QED BY <1>2, <3>1, <3>3, <3>4, InSlotKept
  <2>10. CASE SetPresent \/ FinalUpdate
    <3>1. /\ pc \in {"setPresent", "finalUpdate"} /\ pc' \in {"idle", "exportStatus"}
          /\ pc' \notin {"setRunning", "setPending"} /\ activeJobs' = activeJobs
      BY <2>10 DEF SetPresent, FinalUpdate, StatusUpdate, Fail, Return, Continue
    <3>2. cur \in InSlot => cur \in InSlot'
      BY <2>3, <2>4, <2>5, <3>1 DEF Copy, InBackup
    <3>3. InSlot \subseteq InSlot' BY <1>2, <2>2, <3>2
    <3>4. CountKept BY <3>1 DEF CountKept, NotCounted, StillCounted
    <3> QED BY <1>2, <3>1, <3>3, <3>4, InSlotKept
  <2>11. ~ (SetFailed \/ SetRetrying) BY DEF SetFailed, SetRetrying, CalmInv, RestartSteps
  <2> QED BY <2>6, <2>7, <2>8, <2>9, <2>10, <2>11 DEF UpdateAction
<1> QED BY <1>3, <1>4

LEMMA InSlotUnchanged ==
  ASSUME IsFiniteSet(Image), TypeOK, InSlotInv, UNCHANGED <<clusterVars, workerVars, activeJobs>>
  PROVE  InSlotInv'
<1>1. UNCHANGED <<image, job, current, pc, cur, obj, activeJobs>>
  BY DEF clusterVars, objectVars, jobVars, workerVars
<1>2. InSlot' = InSlot BY <1>1 DEF InSlot, Progressed
<1>3. CountKept BY <1>1 DEF CountKept, StillCounted, NotCounted
<1>4. pc' = "setRunning" => job'[cur'] # "none" BY <1>1 DEF InSlotInv
<1>5. pc' = "setPending" /\ cur' \in current'["imageCtl"] =>
        image'[cur'].progress = New \/ job'[cur'] = "none"
  BY <1>1 DEF InSlotInv
<1> QED BY <1>2, <1>3, <1>4, <1>5, InSlotKept DEF TypeOK, WorkerTypeOK

LEMMA LookAtJobInSlot ==
  ASSUME SlotFaultsOnly, IsFiniteSet(Image), TypeOK, InSlotInv, LookAtJob
  PROVE  InSlotInv'
<1>1. /\ pc = "getJob" /\ jobSeen[cur] = job[cur] /\ cur' = cur /\ UNCHANGED clusterVars
      /\ pc' \in {"setPending", "listPods", "recordOutcome"}
      /\ pc' = "setPending" => jobSeen[cur] = "none"
  BY NoSlotFault
     DEF LookAtJob, JobMissing, JobActive, JobSucceeded, JobRetried, JobGivenUp, GetJob, Continue
<1>2. InSlot' = InSlot BY <1>1 DEF InSlot, Progressed, clusterVars, objectVars, jobVars
<1>3. CountKept
  <2>1. ~ StillCounted /\ ~ StillCounted' BY <1>1 DEF StillCounted
  <2>2. CASE JobMissing \/ JobActive \/ JobRetried
    <3>1. activeJobs' = activeJobs /\ (pc' = "recordOutcome" => obj'.progress = RETRYING)
      BY <2>2 DEF JobMissing, JobActive, JobRetried, Continue, Status
    <3> QED BY <1>1, <2>1, <3>1 DEF CountKept, NotCounted
  <2>3. CASE JobSucceeded \/ JobGivenUp
    BY <2>1, <2>3 DEF JobSucceeded, JobGivenUp, CountKept
  <2> QED BY <2>2, <2>3 DEF LookAtJob
<1>4. pc' = "setPending" => job'[cur'] = "none" BY <1>1 DEF clusterVars, jobVars
<1> QED BY <1>1, <1>2, <1>3, <1>4, InSlotKept DEF TypeOK, WorkerTypeOK

LEMMA DeleteJobInSlot ==
  ASSUME SlotFaultsOnly, IsFiniteSet(Image), TypeOK, LifecycleInv, CalmInv, InSlotInv, DeleteJob
  PROVE  InSlotInv'
<1>1. /\ pc = "deleteJob" /\ pc' = "deletePods" /\ UNCHANGED <<image, cur, obj, activeJobs>>
      /\ job' = [job EXCEPT ![cur] = "none"]
  BY NoSlotFault DEF DeleteJob, Call, Continue, objectVars
<1>2. cur \in Image /\ activeJobs \in Int /\ job \in [Image -> JobState]
  BY <1>1 DEF TypeOK, WorkerTypeOK, ClusterTypeOK, JobTypeOK
<1>3. InSlot \in SUBSET Image /\ InSlot' \in SUBSET Image /\ InSlot \ {cur} \subseteq InSlot'
  BY <1>1, <1>2 DEF InSlot, Progressed
<1>4. /\ Cardinality(InSlot) \in Nat /\ Cardinality(InSlot') \in Nat
      /\ Cardinality(InSlot) - 1 <= Cardinality(InSlot')
  BY <1>2, <1>3, SlotsCount
<1>5. activeJobs <= Cardinality(InSlot) BY <1>1 DEF InSlotInv, StillCounted
<1>6. CASE obj.progress = RETRYING
  BY <1>1, <1>2, <1>4, <1>5, <1>6 DEF InSlotInv, StillCounted, NotCounted
<1>7. CASE obj.progress # RETRYING
  <2>1. image[cur] = obj /\ obj.progress \in {SUCCESS, FAILED}
    BY <1>1, <1>7 DEF CalmInv, LifecycleInv, CopyInv, Copy
  <2>2. InSlot' = InSlot BY <1>1, <1>2, <2>1 DEF InSlot, Progressed
  <2>3. CountKept BY <1>1, <1>7 DEF CountKept, StillCounted, NotCounted
  <2> QED BY <1>1, <1>2, <2>2, <2>3, InSlotKept
<1> QED BY <1>6, <1>7

LEMMA DeletePodsInSlot ==
  ASSUME SlotFaultsOnly, IsFiniteSet(Image), TypeOK, InSlotInv, DeletePods
  PROVE  InSlotInv'
<1>1. /\ pc = "deletePods" /\ UNCHANGED <<image, job>> /\ pc' \in {"idle", "listPods"}
      /\ \/ obj.progress = RETRYING /\ activeJobs' = activeJobs - 1
         \/ obj.progress # RETRYING /\ activeJobs' = activeJobs
  BY NoSlotFault DEF DeletePods, Call, Continue, Return, objectVars
<1>2. InSlot' = InSlot BY <1>1 DEF InSlot, Progressed
<1>3. CountKept BY <1>1 DEF CountKept, StillCounted, NotCounted
<1> QED BY <1>1, <1>2, <1>3, InSlotKept DEF TypeOK, WorkerTypeOK

LEMMA CreateBackupJobInSlot ==
  ASSUME SlotFaultsOnly, IsFiniteSet(Image), TypeOK, InSlotInv, CreateBackupJob
  PROVE  InSlotInv'
<1>1. /\ pc = "createBackupJob" /\ image' = image /\ activeJobs' = activeJobs
      /\ cur \in Image /\ job \in [Image -> JobState]
  BY DEF CreateBackupJob, Call, Fail, objectVars, TypeOK, WorkerTypeOK, ClusterTypeOK, JobTypeOK
<1>2. \/ JobCreated /\ pc' = "setRunning" /\ cur' = cur
      \/ job' = job /\ pc' = "idle"
  BY NoSlotFault DEF CreateBackupJob, Call, Fail, Continue, Return
<1>3. InSlot \subseteq InSlot' BY <1>1, <1>2 DEF JobCreated, InSlot, Progressed
<1>4. pc' = "setRunning" => job'[cur'] # "none" BY <1>1, <1>2 DEF JobCreated
<1>5. CountKept BY <1>1, <1>2 DEF CountKept, StillCounted, NotCounted
<1>6. pc' # "setPending" BY <1>2
<1> QED BY <1>3, <1>4, <1>5, <1>6, InSlotKept DEF TypeOK, WorkerTypeOK

LEMMA StepInSlot ==
  ASSUME SlotFaultsOnly, IsFiniteSet(Image), TypeOK, LifecycleInv, CalmInv, InSlotInv, Step
  PROVE  InSlotInv'
<1>1. CASE UpdateAction \/ LookAtJob BY <1>1, UpdateInSlot, LookAtJobInSlot
<1>2. CASE CreateBackupJob \/ DeleteJob \/ DeletePods
  BY <1>2, CreateBackupJobInSlot, DeleteJobInSlot, DeletePodsInSlot
<1>3. CASE \/ CheckImageExists \/ ListPods \/ ExportStatus \/ SetExport
  <2>1. /\ UNCHANGED <<image, job, activeJobs>>
        /\ pc \in {"checkImageExists", "listPods", "exportStatus", "setExport"}
        /\ pc' \notin {"setRunning", "setPending", "confirmRunning", "recordOutcome", "deletePods"}
    BY <1>3 DEF CheckImageExists, ListPods, ExportStatus, SetExport, Continue, Return, clusterVars,
                objectVars, jobVars
  <2>2. InSlot' = InSlot BY <2>1 DEF InSlot, Progressed
  <2>3. CountKept BY <2>1 DEF CountKept, StillCounted, NotCounted
  <2>4. pc' # "setRunning" /\ pc' # "setPending" BY <2>1
  <2> QED BY <2>2, <2>3, <2>4, InSlotKept DEF TypeOK, WorkerTypeOK
<1>4. ~ (ListJobs \/ JobsRemoved \/ \E j \in Image : RemoveJob(j))
  BY DEF JobsRemoved, RemoveJob, ListJobs, CalmInv
<1> QED BY <1>1, <1>2, <1>3, <1>4 DEF Step, UpdateAction, LookAtJob

LEMMA ReconcileInSlot ==
  ASSUME IsFiniteSet(Image), TypeOK, LifecycleInv, InSlotInv, NEW i \in Image, Reconcile(i)
  PROVE  InSlotInv'
<1>1. CASE ReconcileNothing(i) \/ ReconcileLater(i)
  BY <1>1, InSlotUnchanged DEF ReconcileNothing, ReconcileLater, vars
<1>2. CASE ReconcileNew(i) \/ ReconcilePending(i) \/ ReconcileRunning(i)
  <2>1. /\ pc = "idle" /\ UNCHANGED <<image, job, activeJobs>> /\ cur' = i
        /\ pc' \in {"setPending", "checkImageExists", "getJob"}
        /\ pc' = "setPending" => imageSeen[i].progress = New
        /\ current' = ReadBy("imageCtl", i)
    BY <1>2 DEF ReconcileNew, ReconcilePending, ReconcileRunning, SeenProgress, Fetch, Enter,
                jobVars
  <2>2. InSlot' = InSlot BY <2>1 DEF InSlot, Progressed
  <2>3. CountKept BY <2>1 DEF CountKept, StillCounted, NotCounted
  <2>4. ASSUME pc' = "setPending", cur' \in current'["imageCtl"] PROVE image'[cur'].progress = New
    <3>1. i \in current["cache"]
      BY <2>1, <2>4 DEF ReadBy, Holder, TypeOK, ClusterTypeOK, ObjectTypeOK
    <3> QED BY <2>1, <2>4, <3>1 DEF LifecycleInv, CacheInv
  <2>5. pc' # "setRunning" BY <2>1
  <2> QED BY <2>2, <2>3, <2>4, <2>5, InSlotKept DEF TypeOK, WorkerTypeOK
<1> QED BY <1>1, <1>2 DEF Reconcile

LEMMA EnvironmentInSlot ==
  ASSUME SlotFaultsOnly, IsFiniteSet(Image), TypeOK, CalmInv, InSlotInv,
         Environment \/ \E i \in Image : ImageEvent(i)
  PROVE  InSlotInv'
<1>1. UNCHANGED <<workerVars, activeJobs>> BY DEF Environment, Outside, ImageEvent
<1>2. activeJobs \in Int /\ (pc # "idle" => cur \in Image) BY DEF TypeOK, WorkerTypeOK
<1>3. CountKept BY <1>1 DEF CountKept, StillCounted, NotCounted, workerVars
<1>4. ASSUME NEW i \in Image, JobSucceeds(i) \/ JobFails(i) PROVE InSlotInv'
  <2>1. /\ UNCHANGED <<image, current>>
        /\ \A j \in Image : job'[j] # "none" <=> job[j] # "none"
    BY <1>4 DEF JobSucceeds, JobFails, objectVars, TypeOK, ClusterTypeOK, JobTypeOK
  <2>2. InSlot' = InSlot BY <2>1 DEF InSlot, Progressed
  <2>3. pc' = "setRunning" => job'[cur'] # "none" BY <1>1, <1>2, <2>1 DEF InSlotInv, workerVars
  <2>4. pc' = "setPending" /\ cur' \in current'["imageCtl"] =>
          image'[cur'].progress = New \/ job'[cur'] = "none"
    BY <1>1, <1>2, <2>1 DEF InSlotInv, workerVars
  <2> QED BY <1>2, <1>3, <2>2, <2>3, <2>4, InSlotKept
<1>5. ASSUME NEW i \in Image, CreateImage(i) PROVE InSlotInv'
  <2>1. /\ image' = [image EXCEPT ![i] = NewStatus] /\ job' = job
        /\ image[i].progress = Absent /\ image \in [Image -> ImageStatus]
        /\ current'["imageCtl"] = current["imageCtl"] \ {i}
    BY <1>5 DEF CreateImage, WrittenByOther, Holder, jobVars, TypeOK, ClusterTypeOK, ObjectTypeOK
  <2>2. pc # "idle" => cur # i BY <2>1 DEF CalmInv
  <2>3. InSlot \subseteq InSlot' BY <2>1 DEF InSlot, Progressed
  <2>4. pc' = "setRunning" => job'[cur'] # "none" BY <1>1, <2>1 DEF InSlotInv, workerVars
  <2>5. pc' = "setPending" /\ cur' \in current'["imageCtl"] =>
          image'[cur'].progress = New \/ job'[cur'] = "none"
    BY <1>1, <1>2, <2>1, <2>2 DEF InSlotInv, workerVars
  <2> QED BY <1>2, <1>3, <2>3, <2>4, <2>5, InSlotKept
<1>6. CASE /\ UNCHANGED <<image, job>>
           /\ current'["imageCtl"] \subseteq current["imageCtl"]
  <2>1. InSlot' = InSlot BY <1>6 DEF InSlot, Progressed
  <2>2. pc' = "setRunning" => job'[cur'] # "none" BY <1>1, <1>6 DEF InSlotInv, workerVars
  <2>3. pc' = "setPending" /\ cur' \in current'["imageCtl"] =>
          image'[cur'].progress = New \/ job'[cur'] = "none"
    BY <1>1, <1>6 DEF InSlotInv, workerVars
  <2> QED BY <1>2, <1>3, <2>1, <2>2, <2>3, InSlotKept
<1>7. \A i \in Image : ~ JobGoes(i) /\ ~ PodRestarts(i) /\ ~ CollectImage(i)
  BY ConstantsAssumption DEF JobGoes, PodRestarts, CollectImage, SlotFaultsOnly, CalmInv
<1>8. ASSUME NEW e \in Export, ExportEvent(e)
      PROVE  UNCHANGED <<image, job>> /\ current'["imageCtl"] \subseteq current["imageCtl"]
  BY <1>8, ExportEventShape DEF jobVars
<1>9. ASSUME NEW i \in Image, SyncImage(i) \/ SyncJob(i)
      PROVE  UNCHANGED <<image, job>> /\ current'["imageCtl"] \subseteq current["imageCtl"]
  <2>1. CASE SyncImage(i) BY <2>1 DEF SyncImage, jobVars
  <2>2. CASE SyncJob(i) BY <2>2 DEF SyncJob, objectVars
  <2> QED BY <1>9, <2>1, <2>2
<1>10. ASSUME NEW e \in Export, SyncExport(e)
       PROVE  UNCHANGED <<image, job>> /\ current'["imageCtl"] \subseteq current["imageCtl"]
  BY <1>10 DEF SyncExport, jobVars
<1> QED
  BY <1>4, <1>5, <1>6, <1>7, <1>8, <1>9, <1>10 DEF Environment, Outside, ImageEvent, ExportEvent

LEMMA NextInSlot ==
  ASSUME SlotFaultsOnly, IsFiniteSet(Image)
  PROVE  TypeOK /\ LifecycleInv /\ CalmInv /\ InSlotInv /\ [Next]_vars => InSlotInv'
<1> SUFFICES ASSUME TypeOK, LifecycleInv, CalmInv, InSlotInv, [Next]_vars PROVE InSlotInv'
  OBVIOUS
<1>1. CASE Crash
  <2>1. InSlot' \in SUBSET Image BY DEF InSlot
  <2>2. Cardinality(InSlot') \in Nat BY <2>1, FS_Subset, FS_CardinalityType
  <2>3. pc' = "idle" /\ activeJobs' = 0 BY <1>1 DEF Crash
  <2>4. activeJobs' <= Cardinality(InSlot') BY <2>2, <2>3
  <2>5. activeJobs' <= Cardinality(InSlot') + 1 BY <2>2, <2>3
  <2>6. ~ NotCounted' BY <2>3 DEF NotCounted
  <2>7. pc' # "setRunning" /\ pc' # "setPending" BY <2>3
  <2> QED BY <2>4, <2>5, <2>6, <2>7 DEF InSlotInv
<1>2. CASE UNCHANGED vars BY <1>2, InSlotUnchanged DEF vars
<1> QED BY <1>1, <1>2, StepInSlot, ReconcileInSlot, EnvironmentInSlot DEF Next

\* As long as only caches of objects and of Pods are late and processes die, an idle
\* worker has counted no Job that is not there: the counter never keeps a slot of an
\* export for a Job that is over, however often caches, conflicts and crashes interrupt
\* the steps between which it is changed.
THEOREM SlotsAreGivenBack ==
  ASSUME SlotFaultsOnly, IsFiniteSet(Image)
  PROVE  Spec => []NoSlotLost
<1>1. Init => CalmInv
  <2>1. SUFFICES ASSUME Init PROVE CalmInv OBVIOUS
  <2>2. \A i \in Image : image[i].progress = Absent /\ imageSeen[i].progress = Absent
    BY <2>1 DEF Init, ClusterInit, NoStatus, Status
  <2> QED BY <2>1, <2>2 DEF Init, ClusterInit, CalmInv, RestartSteps
<1>2. Init => InSlotInv
  <2>1. SUFFICES ASSUME Init PROVE InSlotInv OBVIOUS
  <2>2. InSlot = {} BY <2>1 DEF Init, ClusterInit, InSlot
  <2>3. Cardinality(InSlot) = 0 BY <2>2, FS_EmptySet
  <2> QED BY <2>1, <2>3 DEF Init, InSlotInv, NotCounted, StillCounted
<1>3. InSlotInv => NoSlotLost BY DEF InSlotInv, NoSlotLost, StillCounted
<1> QED
  BY <1>1, <1>2, <1>3, NextCalm, NextInSlot, TypeCorrect, LifecycleInvariant, ExportInvariant, PTL
     DEF Spec
=============================================================================

-------------------- MODULE ClusterImageReconcilerProofs --------------------
(***************************************************************************)
(* Theorems about ClusterImageReconciler, for every set of images, exports *)
(* and faults and every limit.                                             *)
(***************************************************************************)
EXTENDS ClusterImageReconciler, TLAPS

USE DEF Progress, Absent, New, PENDING, RUNNING, RETRYING, SUCCESS, FAILED, PRESENT

LEMMA StatusType ==
  ASSUME NEW p \in Progress, NEW n \in Nat
  PROVE  Status(p, n) \in ImageStatus
BY DEF Status, ImageStatus

LEMMA StatusFields ==
  ASSUME NEW s \in ImageStatus
  PROVE  s.progress \in Progress /\ s.retry \in Nat
BY DEF ImageStatus

LEMMA Plus == ASSUME NEW m \in Nat, NEW n \in Nat PROVE m + n \in Nat
OBVIOUS

LEMMA StatusTypes == NoStatus \in ImageStatus /\ NewStatus \in ImageStatus
BY StatusType DEF NoStatus, NewStatus

LEMMA InitType == Init => TypeOK
<1> SUFFICES ASSUME Init PROVE TypeOK OBVIOUS
<1>1. ObjectTypeOK BY StatusTypes DEF Init, ClusterInit, ObjectTypeOK, Holder, Controller
<1>2. JobTypeOK BY DEF Init, ClusterInit, JobTypeOK, JobState
<1>3. obj \in ImageStatus BY StatusTypes DEF Init
<1>4. activeJobs \in Int BY DEF Init
<1>5. WorkerTypeOK BY <1>3, <1>4 DEF Init, WorkerTypeOK
<1> QED BY <1>1, <1>2, <1>5 DEF TypeOK, ClusterTypeOK

LEMMA ReadByType ==
  ASSUME ObjectTypeOK, NEW h \in Holder, NEW o \in Image \cup Export
  PROVE  ReadBy(h, o) \in [Holder -> SUBSET (Image \cup Export)]
BY DEF ObjectTypeOK, ReadBy, Holder, Controller

LEMMA WrittenByType ==
  ASSUME ObjectTypeOK, NEW o \in Image \cup Export
  PROVE  /\ WrittenByOther(o) \in [Holder -> SUBSET (Image \cup Export)]
         /\ \A h \in Holder : WrittenBy(h, o) \in [Holder -> SUBSET (Image \cup Export)]
BY DEF ObjectTypeOK, WrittenByOther, WrittenBy, Holder

LEMMA PutImageType ==
  ASSUME ObjectTypeOK, NEW h \in Holder, NEW i \in Image, NEW o \in ImageStatus,
         PutImage(h, i, o), UNCHANGED <<export, imageSeen, exportSeen, hidden>>
  PROVE  ObjectTypeOK'
BY WrittenByType DEF ObjectTypeOK, PutImage

LEMMA PutExportType ==
  ASSUME ObjectTypeOK, NEW h \in Holder, NEW e \in Export, NEW p \in Progress,
         PutExport(h, e, p), UNCHANGED <<image, imageSeen, exportSeen>>,
         hidden' \in [Controller -> SUBSET Image]
  PROVE  ObjectTypeOK'
BY WrittenByType DEF ObjectTypeOK, PutExport

LEMMA ReturnType ==
  ASSUME WorkerTypeOK, NEW again \in SUBSET Image, Return(again), activeJobs' \in Int
  PROVE  WorkerTypeOK'
BY StatusTypes DEF WorkerTypeOK, Return

LEMMA ContinueType ==
  ASSUME WorkerTypeOK, cur \in Image, NEW o \in ImageStatus,
         NEW step \in Steps, Continue(step, o), activeJobs' \in Int
  PROVE  WorkerTypeOK'
BY DEF WorkerTypeOK, Continue

LEMMA ObjectsUnchanged == ObjectTypeOK /\ UNCHANGED objectVars => ObjectTypeOK'
BY DEF ObjectTypeOK, objectVars

LEMMA JobsUnchanged == JobTypeOK /\ UNCHANGED jobVars => JobTypeOK'
BY DEF JobTypeOK, jobVars

LEMMA WorkerUnchanged ==
  WorkerTypeOK /\ UNCHANGED <<queue, workerVars, activeJobs>> => WorkerTypeOK'
BY DEF WorkerTypeOK, workerVars

\* The actions that write the status of the image at hand leave the rest alone.
LEMMA StatusUpdateType ==
  ASSUME TypeOK, cur \in Image,
         PutImage("imageCtl", cur, obj) \/ UNCHANGED <<image, current>>,
         UNCHANGED <<export, imageSeen, exportSeen, hidden, jobVars>>
  PROVE  ObjectTypeOK' /\ JobTypeOK'
<1>1. ASSUME PutImage("imageCtl", cur, obj) PROVE ObjectTypeOK'
  BY <1>1, PutImageType DEF TypeOK, ClusterTypeOK, WorkerTypeOK, Holder, Controller
<1>2. ASSUME UNCHANGED <<image, current>> PROVE ObjectTypeOK'
  BY <1>2, ObjectsUnchanged DEF TypeOK, ClusterTypeOK, objectVars
<1> QED BY <1>1, <1>2, JobsUnchanged DEF TypeOK, ClusterTypeOK

LEMMA EnterType ==
  ASSUME TypeOK, NEW i \in Image, NEW o \in ImageStatus, NEW step \in Steps,
         Enter(i, step, o)
  PROVE  TypeOK'
<1> USE DEF TypeOK, ClusterTypeOK
<1>1. ObjectTypeOK' BY ReadByType DEF ObjectTypeOK, Enter, Holder, Controller
<1>2. JobTypeOK' BY JobsUnchanged DEF Enter
<1>3. WorkerTypeOK' BY DEF Enter, WorkerTypeOK
<1> QED BY <1>1, <1>2, <1>3

LEMMA ReconcileType ==
  ASSUME TypeOK, NEW i \in Image, Reconcile(i)
  PROVE  TypeOK'
<1>0. imageSeen[i] \in ImageStatus BY DEF TypeOK, ClusterTypeOK, ObjectTypeOK
<1>1. CASE ReconcileNothing(i)
  <2>1. ObjectTypeOK' /\ JobTypeOK'
    BY <1>1, ObjectsUnchanged, JobsUnchanged
       DEF ReconcileNothing, clusterVars, TypeOK, ClusterTypeOK
  <2>2. WorkerTypeOK' BY <1>1 DEF ReconcileNothing, workerVars, TypeOK, WorkerTypeOK
  <2> QED BY <2>1, <2>2 DEF TypeOK, ClusterTypeOK
<1>2. CASE ReconcileLater(i)
  BY <1>2, ObjectsUnchanged, JobsUnchanged, WorkerUnchanged
     DEF ReconcileLater, vars, clusterVars, TypeOK, ClusterTypeOK
<1>3. CASE ReconcileNew(i)
  BY <1>0, <1>3, EnterType, StatusType, StatusFields DEF ReconcileNew, Steps
<1>4. CASE ReconcilePending(i)
  BY <1>0, <1>4, EnterType DEF ReconcilePending, Steps
<1>5. CASE ReconcileRunning(i)
  BY <1>0, <1>5, EnterType DEF ReconcileRunning, Steps
<1> QED BY <1>1, <1>2, <1>3, <1>4, <1>5 DEF Reconcile

LEMMA EnvironmentType == TypeOK /\ Environment => TypeOK'
<1> SUFFICES ASSUME TypeOK, Environment PROVE TypeOK' OBVIOUS
<1> USE DEF TypeOK, ClusterTypeOK
<1>1. WorkerTypeOK' BY WorkerUnchanged DEF Environment, Outside
<1>2. ASSUME NEW i \in Image, JobSucceeds(i) PROVE ObjectTypeOK' /\ JobTypeOK'
  BY <1>2, ObjectsUnchanged DEF JobSucceeds, JobTypeOK, JobState
<1>3. ASSUME NEW i \in Image, JobFails(i) PROVE ObjectTypeOK' /\ JobTypeOK'
  BY <1>3, ObjectsUnchanged DEF JobFails, JobTypeOK, JobState
<1>4. ASSUME NEW i \in Image, JobGoes(i) PROVE ObjectTypeOK' /\ JobTypeOK'
  BY <1>4, ObjectsUnchanged DEF JobGoes, JobTypeOK, JobState
<1>5. ASSUME NEW i \in Image, PodRestarts(i) PROVE ObjectTypeOK' /\ JobTypeOK'
  BY <1>5, ObjectsUnchanged DEF PodRestarts, JobTypeOK
<1>6. ASSUME NEW i \in Image, CreateImage(i) \/ CollectImage(i)
      PROVE ObjectTypeOK' /\ JobTypeOK'
  <2>1. current' \in [Holder -> SUBSET (Image \cup Export)]
    BY <1>6, WrittenByType DEF CreateImage, CollectImage
  <2>2. image' \in [Image -> ImageStatus]
    BY <1>6, StatusTypes DEF CreateImage, CollectImage, ObjectTypeOK
  <2>3. UNCHANGED <<export, imageSeen, exportSeen, hidden, jobVars>>
    BY <1>6 DEF CreateImage, CollectImage
  <2> QED BY <2>1, <2>2, <2>3, JobsUnchanged DEF ObjectTypeOK
<1>7. ASSUME NEW e \in Export, SyncExport(e) PROVE ObjectTypeOK' /\ JobTypeOK'
  BY <1>7, JobsUnchanged DEF SyncExport, ObjectTypeOK, Holder
<1>8. ASSUME NEW e \in Export, RemoveExport(e) PROVE ObjectTypeOK' /\ JobTypeOK'
  BY <1>8, WrittenByType, JobsUnchanged DEF RemoveExport, ObjectTypeOK
<1>9. ASSUME NEW e \in Export, NEW p \in Progress, ExportCtlWrites(e, p)
      PROVE ObjectTypeOK' /\ JobTypeOK'
  BY <1>9, WrittenByType, JobsUnchanged DEF ExportCtlWrites, ObjectTypeOK
<1>10. ASSUME NEW e \in Export, CheckImages(e) PROVE ObjectTypeOK' /\ JobTypeOK'
  BY <1>10, JobsUnchanged DEF CheckImages, Hidden, ImagesOf, ObjectTypeOK
<1> QED
  BY <1>1, <1>2, <1>3, <1>4, <1>5, <1>6, <1>7, <1>8, <1>9, <1>10
     DEF Environment, Outside, SetRunningAgain, SetExportFailed, SetExportCompleted,
         CheckCompleted

LEMMA ImageEventType ==
  ASSUME TypeOK, NEW i \in Image, ImageEvent(i)
  PROVE  TypeOK'
<1> USE DEF TypeOK, ClusterTypeOK
<1>1. WorkerTypeOK' BY DEF ImageEvent, WorkerTypeOK, workerVars
<1>2. ASSUME SyncImage(i) PROVE ObjectTypeOK' /\ JobTypeOK'
  BY <1>2, JobsUnchanged DEF SyncImage, ObjectTypeOK, Holder, Controller
<1>3. ASSUME SyncJob(i) PROVE ObjectTypeOK' /\ JobTypeOK'
  BY <1>3, ObjectsUnchanged DEF SyncJob, JobTypeOK
<1> QED BY <1>1, <1>2, <1>3 DEF ImageEvent

LEMMA CrashType == TypeOK /\ Crash => TypeOK'
<1> SUFFICES ASSUME TypeOK, Crash PROVE TypeOK' OBVIOUS
<1> USE DEF TypeOK, ClusterTypeOK
<1>1. ObjectTypeOK' BY DEF Crash, RestartCaches, ObjectTypeOK, Holder
<1>2. JobTypeOK' BY DEF Crash, RestartCaches, JobTypeOK
<1>3. obj' \in ImageStatus /\ activeJobs' \in Int BY StatusTypes DEF Crash
<1>4. WorkerTypeOK' BY <1>3 DEF Crash, WorkerTypeOK
<1> QED BY <1>1, <1>2, <1>4

LEMMA HoldsImage == ASSUME TypeOK, pc # "idle" PROVE cur \in Image /\ obj \in ImageStatus
BY DEF TypeOK, WorkerTypeOK

\* The steps that end with an update of the status of the image at hand.
LEMMA UpdatesType ==
  ASSUME TypeOK,
         \/ SetPending \/ SetPresent \/ SetRunning \/ ConfirmRunning \/ RecordOutcome
         \/ SetFailed \/ SetRetrying \/ FinalUpdate
  PROVE  TypeOK'
<1>1. cur \in Image /\ obj \in ImageStatus
  BY HoldsImage DEF SetPending, SetPresent, SetRunning, ConfirmRunning, RecordOutcome,
                    SetFailed, SetRetrying, FinalUpdate
<1>2. /\ PutImage("imageCtl", cur, obj) \/ UNCHANGED <<image, current>>
      /\ UNCHANGED <<export, imageSeen, exportSeen, hidden, jobVars>>
  BY DEF SetPending, SetPresent, SetRunning, ConfirmRunning, RecordOutcome,
         SetFailed, SetRetrying, FinalUpdate, StatusUpdate
<1>3. ObjectTypeOK' /\ JobTypeOK' BY <1>1, <1>2, StatusUpdateType
<1>4. \/ \E again \in SUBSET Image : Return(again)
      \/ \E step \in Steps : Continue(step, obj)
  BY <1>1 DEF SetPending, SetPresent, SetRunning, ConfirmRunning, RecordOutcome,
         SetFailed, SetRetrying, FinalUpdate, StatusUpdate, Fail, Steps
<1>5. activeJobs' = activeJobs \/ activeJobs' = activeJobs + 1
  BY DEF SetPending, SetPresent, SetRunning, ConfirmRunning, RecordOutcome,
         SetFailed, SetRetrying, FinalUpdate, StatusUpdate, Fail
<1>6. activeJobs \in Int BY DEF TypeOK, WorkerTypeOK
<1>7. activeJobs' \in Int BY <1>5, <1>6
<1>8. WorkerTypeOK' BY <1>1, <1>4, <1>7, ReturnType, ContinueType DEF TypeOK
<1> QED BY <1>3, <1>8 DEF TypeOK, ClusterTypeOK

LEMMA CheckImageExistsType == TypeOK /\ CheckImageExists => TypeOK'
<1> SUFFICES ASSUME TypeOK, CheckImageExists PROVE TypeOK' OBVIOUS
<1>1. cur \in Image /\ obj \in ImageStatus BY HoldsImage DEF CheckImageExists
<1>2. Status(PRESENT, obj.retry) \in ImageStatus BY <1>1, StatusType, StatusFields
<1>3. \/ \E again \in SUBSET Image : Return(again)
      \/ \E step \in Steps, o \in ImageStatus : Continue(step, o)
  BY <1>1, <1>2 DEF CheckImageExists, Steps
<1>4. activeJobs' \in Int BY DEF CheckImageExists, TypeOK, WorkerTypeOK
<1>5. WorkerTypeOK' BY <1>1, <1>3, <1>4, ReturnType, ContinueType DEF TypeOK
<1> QED BY <1>5, ObjectsUnchanged, JobsUnchanged
        DEF CheckImageExists, clusterVars, TypeOK, ClusterTypeOK

LEMMA CreateBackupJobType == TypeOK /\ CreateBackupJob => TypeOK'
<1> SUFFICES ASSUME TypeOK, CreateBackupJob PROVE TypeOK' OBVIOUS
<1>1. cur \in Image /\ obj \in ImageStatus BY HoldsImage DEF CreateBackupJob
<1>2. Started \in ImageStatus BY <1>1, StatusType, StatusFields DEF Started
<1>3. \/ \E again \in SUBSET Image : Return(again)
      \/ \E step \in Steps, o \in ImageStatus : Continue(step, o)
  BY <1>1, <1>2 DEF CreateBackupJob, Call, Fail, Steps
<1>4. activeJobs' \in Int BY DEF CreateBackupJob, Call, Fail, TypeOK, WorkerTypeOK
<1>5. WorkerTypeOK' BY <1>1, <1>3, <1>4, ReturnType, ContinueType DEF TypeOK
<1>6. \/ UNCHANGED <<job, restartsSeen, attempted>>
      \/ JobCreated
  BY DEF CreateBackupJob, Call
<1>7. JobTypeOK /\ UNCHANGED <<deleting, jobSeen, succeeded>>
  BY DEF CreateBackupJob, TypeOK, ClusterTypeOK
<1>8. JobTypeOK' BY <1>1, <1>6, <1>7 DEF JobCreated, JobTypeOK, JobState
<1> QED BY <1>5, <1>8, ObjectsUnchanged DEF CreateBackupJob, TypeOK, ClusterTypeOK

\* The steps that act on what the cache of Jobs shows.
LEMMA GetJobType ==
  ASSUME TypeOK, JobMissing \/ JobActive \/ JobSucceeded \/ JobRetried \/ JobGivenUp
  PROVE  TypeOK'
<1>1. cur \in Image /\ obj \in ImageStatus
  BY HoldsImage DEF JobMissing, JobActive, JobSucceeded, JobRetried, JobGivenUp, GetJob
<1>2. obj.retry \in Nat /\ obj.retry + 1 \in Nat BY <1>1, StatusFields, Plus
<1>3. \E step \in Steps, o \in ImageStatus : Continue(step, o)
  BY <1>1, <1>2, StatusType DEF JobMissing, JobActive, JobSucceeded, JobRetried, JobGivenUp, Steps
<1>4. activeJobs' = activeJobs \/ activeJobs' = activeJobs - 1
  BY DEF JobMissing, JobActive, JobSucceeded, JobRetried, JobGivenUp
<1>5. activeJobs \in Int BY DEF TypeOK, WorkerTypeOK
<1>6. activeJobs' \in Int BY <1>4, <1>5
<1>7. WorkerTypeOK' BY <1>1, <1>3, <1>6, ContinueType DEF TypeOK
<1>8. UNCHANGED clusterVars
  BY DEF JobMissing, JobActive, JobSucceeded, JobRetried, JobGivenUp, GetJob
<1> QED BY <1>7, <1>8, ObjectsUnchanged, JobsUnchanged DEF clusterVars, TypeOK, ClusterTypeOK

LEMMA CleanupType ==
  ASSUME TypeOK, DeleteJob \/ DeletePods
  PROVE  TypeOK'
<1>1. cur \in Image /\ obj \in ImageStatus BY HoldsImage DEF DeleteJob, DeletePods
<1>2. \/ \E again \in SUBSET Image : Return(again)
      \/ \E step \in Steps, o \in ImageStatus : Continue(step, o)
  BY <1>1 DEF DeleteJob, DeletePods, Call, Fail, Steps
<1>3. activeJobs' = activeJobs \/ activeJobs' = activeJobs - 1
  BY DEF DeleteJob, DeletePods, Call, Fail
<1>4. activeJobs \in Int BY DEF TypeOK, WorkerTypeOK
<1>5. activeJobs' \in Int BY <1>3, <1>4
<1>6. WorkerTypeOK' BY <1>1, <1>2, <1>5, ReturnType, ContinueType DEF TypeOK
<1>7. JobTypeOK BY DEF TypeOK, ClusterTypeOK
<1>8. CASE DeleteJob
  BY <1>1, <1>6, <1>7, <1>8, ObjectsUnchanged
     DEF DeleteJob, Call, JobTypeOK, JobState, TypeOK, ClusterTypeOK
<1>9. CASE DeletePods
  BY <1>1, <1>6, <1>7, <1>9, ObjectsUnchanged
     DEF DeletePods, Call, PodsDeleted, JobTypeOK, TypeOK, ClusterTypeOK
<1> QED BY <1>8, <1>9

\* handleJobRestarts and the removal of the Jobs.
LEMMA RestartsType ==
  ASSUME TypeOK, ListPods \/ ListJobs \/ JobsRemoved
  PROVE  TypeOK'
<1>1. cur \in Image /\ obj \in ImageStatus
  BY HoldsImage DEF ListPods, ListJobs, JobsRemoved
<1>2. restartsSeen[cur] \in Nat BY <1>1 DEF TypeOK, ClusterTypeOK, JobTypeOK
<1>3. RestartedRetry \in Nat BY <1>1, <1>2, StatusFields, Plus DEF RestartedRetry
<1>4. activeJobs \in Int BY DEF TypeOK, WorkerTypeOK
<1>5. UNCHANGED <<clusterVars, activeJobs>>
  BY DEF ListPods, ListJobs, JobsRemoved
<1>6. ASSUME ListPods \/ JobsRemoved PROVE WorkerTypeOK'
  <2>1. \E step \in Steps, o \in ImageStatus : Continue(step, o)
    BY <1>1, <1>3, <1>6, StatusType DEF ListPods, JobsRemoved, Steps
  <2>2. activeJobs' \in Int BY <1>4, <1>5
  <2> QED BY <1>1, <2>1, <2>2, ContinueType DEF TypeOK
<1>7. ASSUME ListJobs PROVE WorkerTypeOK'
  <2>1. todo' \subseteq Image /\ pc' \in Steps BY <1>7 DEF ListJobs, Steps
  <2> QED BY <1>1, <1>4, <1>5, <1>7, <2>1 DEF ListJobs, TypeOK, WorkerTypeOK
<1>8. ListPods \/ JobsRemoved \/ ListJobs => WorkerTypeOK' BY <1>6, <1>7
<1> QED BY <1>5, <1>8, ObjectsUnchanged, JobsUnchanged DEF clusterVars, TypeOK, ClusterTypeOK

LEMMA RemoveJobType ==
  ASSUME TypeOK, NEW j \in Image, RemoveJob(j)
  PROVE  TypeOK'
<1>1. cur \in Image /\ activeJobs \in Int
  BY HoldsImage DEF RemoveJob, TypeOK, WorkerTypeOK
<1>2. \/ \E again \in SUBSET Image : Return(again) /\ UNCHANGED activeJobs
      \/ /\ todo' = todo \ {j}
         /\ UNCHANGED <<pc, cur, obj, newStatus, queue, activeJobs>>
  BY <1>1 DEF RemoveJob, Call, Fail
<1>3. WorkerTypeOK'
  <2>1. CASE \E again \in SUBSET Image : Return(again) /\ UNCHANGED activeJobs
    BY <1>1, <2>1, ReturnType DEF TypeOK
  <2>2. CASE /\ todo' = todo \ {j}
             /\ UNCHANGED <<pc, cur, obj, newStatus, queue, activeJobs>>
    BY <2>2 DEF TypeOK, WorkerTypeOK
  <2> QED BY <1>2, <2>1, <2>2
<1>4. JobTypeOK' BY DEF RemoveJob, Call, JobTypeOK, TypeOK, ClusterTypeOK
<1>5. ObjectTypeOK' BY ObjectsUnchanged DEF RemoveJob, TypeOK, ClusterTypeOK
<1> QED BY <1>3, <1>4, <1>5 DEF TypeOK, ClusterTypeOK

LEMMA ExportType ==
  ASSUME TypeOK, ExportStatus \/ SetExport
  PROVE  TypeOK'
<1> DEFINE e == ExportOf[cur]
<1>1. cur \in Image /\ e \in Export /\ activeJobs \in Int
  BY HoldsImage, ConstantsAssumption DEF ExportStatus, SetExport, TypeOK, WorkerTypeOK
<1>2. UNCHANGED <<jobVars, activeJobs>> BY DEF ExportStatus, SetExport
<1>3. \A S : Aggregate(S) \in Progress BY DEF Aggregate
<1>4. \A p : Again(p) \in SUBSET Image BY <1>1 DEF Again
<1>5. WorkerTypeOK'
  <2>1. \/ \E again \in SUBSET Image : Return(again)
        \/ /\ pc' = "setExport"
           /\ newStatus' \in Progress
           /\ UNCHANGED <<cur, obj, todo, queue>>
    BY <1>1, <1>3, <1>4 DEF ExportStatus, SetExport
  <2>2. activeJobs' \in Int BY <1>1, <1>2
  <2>3. CASE \E again \in SUBSET Image : Return(again)
    BY <2>2, <2>3, ReturnType DEF TypeOK
  <2>4. CASE /\ pc' = "setExport"
             /\ newStatus' \in Progress
             /\ UNCHANGED <<cur, obj, todo, queue>>
    BY <1>1, <2>2, <2>4 DEF TypeOK, WorkerTypeOK, Steps
  <2> QED BY <2>1, <2>3, <2>4
<1>6. CASE ExportStatus
  <2>1. current' = current \/ current' = ReadBy("imageCtl", e)
    BY <1>6 DEF ExportStatus
  <2>2. current' \in [Holder -> SUBSET (Image \cup Export)]
    <3>1. ReadBy("imageCtl", e) \in [Holder -> SUBSET (Image \cup Export)]
      BY <1>1, ReadByType DEF Holder, Controller, TypeOK, ClusterTypeOK
    <3> QED BY <2>1, <3>1 DEF TypeOK, ClusterTypeOK, ObjectTypeOK
  <2>3. \/ hidden' = hidden
        \/ \E S \in SUBSET Image : hidden' = [hidden EXCEPT !["imageCtl"] = S]
    BY <1>6 DEF ExportStatus, Hidden, ImagesOf
  <2>4. hidden' \in [Controller -> SUBSET Image]
    BY <2>3 DEF TypeOK, ClusterTypeOK, ObjectTypeOK
  <2>5. ObjectTypeOK'
    BY <1>6, <2>2, <2>4 DEF ExportStatus, TypeOK, ClusterTypeOK, ObjectTypeOK
  <2> QED BY <1>2, <1>5, <2>5, JobsUnchanged DEF TypeOK, ClusterTypeOK
<1>7. CASE SetExport
  <2>1. \/ PutExport("imageCtl", e, newStatus)
        \/ UNCHANGED <<export, current>>
    BY <1>7 DEF SetExport
  <2>2. /\ UNCHANGED <<image, imageSeen, exportSeen>>
        /\ hidden' \in [Controller -> SUBSET Image]
    BY <1>7 DEF SetExport, TypeOK, ClusterTypeOK, ObjectTypeOK
  <2>3. ObjectTypeOK'
    <3>1. ObjectTypeOK /\ newStatus \in Progress
      BY DEF TypeOK, ClusterTypeOK, WorkerTypeOK
    <3>2. CASE PutExport("imageCtl", e, newStatus)
      BY <1>1, <2>2, <3>1, <3>2, PutExportType DEF Holder, Controller
    <3>3. CASE UNCHANGED <<export, current>>
      BY <2>2, <3>1, <3>3 DEF ObjectTypeOK
    <3> QED BY <2>1, <3>2, <3>3
  <2> QED BY <1>2, <1>5, <2>3, JobsUnchanged DEF TypeOK, ClusterTypeOK
<1> QED BY <1>6, <1>7

LEMMA NextType == TypeOK /\ [Next]_vars => TypeOK'
<1> SUFFICES ASSUME TypeOK, [Next]_vars PROVE TypeOK' OBVIOUS
<1>1. CASE UNCHANGED vars
  BY <1>1, ObjectsUnchanged, JobsUnchanged, WorkerUnchanged
     DEF vars, clusterVars, TypeOK, ClusterTypeOK
<1>2. CASE Step
  BY <1>2, UpdatesType, CheckImageExistsType, CreateBackupJobType, GetJobType,
     CleanupType, RestartsType, RemoveJobType, ExportType DEF Step
<1> QED
  BY <1>1, <1>2, ReconcileType, ImageEventType, CrashType, EnvironmentType DEF Next

\* Every variable keeps its type: each status is one the controllers handle, no
\* copy is of an unknown object, and the worker holds an image while it works.
THEOREM TypeCorrect == Spec => []TypeOK
BY InitType, NextType, PTL DEF Spec

=============================================================================

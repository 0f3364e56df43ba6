-------------------- MODULE ClusterImageLifecycleProofs --------------------
(***************************************************************************)
(* Whatever the caches, the faults and the crashes, the controller of the  *)
(* ClusterImages keeps to ImageLifecycle.                                  *)
(***************************************************************************)
EXTENDS ClusterImageInvariant, ClusterImageReconcilerProofs

USE DEF Absent, New, PENDING, RUNNING, RETRYING, SUCCESS, FAILED, PRESENT, Controller

\* What was attempted and succeeded stays so.
HistoryGrows == attempted \subseteq attempted' /\ succeeded \subseteq succeeded'

LEMMA CacheKept ==
  CacheInv /\ UNCHANGED <<image, export, imageSeen, exportSeen, current>> => CacheInv'
BY DEF CacheInv

LEMMA BackupKept == BackupInv /\ UNCHANGED jobVars => BackupInv'
BY DEF BackupInv, jobVars

LEMMA StatusKept ==
  StatusInv /\ UNCHANGED <<image, imageSeen>> /\ HistoryGrows => StatusInv'
BY DEF StatusInv, StatusFacts, HistoryGrows, NamesakeAttempted, InBackup

LEMMA JobVarsGrow == UNCHANGED jobVars => HistoryGrows
BY DEF jobVars, HistoryGrows

-----------------------------------------------------------------------------
\* An update of the status of the image at hand that the API server accepts.

LEMMA PutKeepsCache ==
  ASSUME TypeOK, CacheInv, NEW i \in Image, NEW o, PutImage("imageCtl", i, o),
         UNCHANGED <<export, imageSeen, exportSeen>>
  PROVE  CacheInv'
<1>1. "cache" \in Holder /\ "cache" # "imageCtl" BY DEF Holder
<1>2. image \in [Image -> ImageStatus] BY DEF TypeOK, ClusterTypeOK, ObjectTypeOK
<1>3. \A j \in Image : j # i => image'[j] = image[j] BY <1>2 DEF PutImage
<1>4. current'["cache"] \subseteq current["cache"]
  BY <1>1 DEF PutImage, WrittenBy
<1>5. i \in current'["cache"] => image'[i] = image[i]
  BY <1>1, <1>2 DEF PutImage, WrittenBy
<1> QED BY <1>3, <1>4, <1>5 DEF CacheInv

LEMMA PutKeepsFacts ==
  ASSUME TypeOK, StatusInv, NEW i \in Image, NEW o, PutImage("imageCtl", i, o),
         StatusFacts(o, i), UNCHANGED <<imageSeen, attempted, succeeded>>
  PROVE  StatusInv'
<1>1. image \in [Image -> ImageStatus] BY DEF TypeOK, ClusterTypeOK, ObjectTypeOK
<1>2. image'[i] = o /\ \A j \in Image : j # i => image'[j] = image[j]
  BY <1>1 DEF PutImage
<1>3. ASSUME NEW j \in Image PROVE StatusFacts(image[j], j)'
  <2>1. CASE j = i BY <1>2, <2>1 DEF StatusFacts, NamesakeAttempted
  <2>2. CASE j # i BY <1>2, <2>2 DEF StatusInv, StatusFacts, NamesakeAttempted
  <2> QED BY <2>1, <2>2
<1>4. ASSUME NEW j \in Image PROVE StatusFacts(imageSeen[j], j)'
  BY DEF StatusInv, StatusFacts, NamesakeAttempted
<1> QED BY <1>3, <1>4 DEF StatusInv

LEMMA PutIsLatest ==
  ASSUME TypeOK, NEW i \in Image, NEW o, UpToDate(i), PutImage("imageCtl", i, o)
  PROVE  i \in current'["imageCtl"] /\ image'[i] = o
BY DEF TypeOK, ClusterTypeOK, ObjectTypeOK, UpToDate, PutImage, WrittenBy, Holder

\* The changes of status that the lifecycle allows to image i.
MayMove(s, o, i) ==
  \/ s.progress \in {New} \cup InBackup /\ Is(o, PENDING, s.retry)
  \/ s.progress = PENDING /\ Is(o, RUNNING, s.retry) /\ i \in attempted
  \/ s.progress = PENDING /\ Is(o, PRESENT, s.retry) /\ NamesakeAttempted(i)
  \/ s.progress \in InBackup /\ Is(o, SUCCESS, s.retry) /\ i \in succeeded
  \/ /\ s.progress \in InBackup \cup {SUCCESS} /\ o.progress = RETRYING
     /\ o.retry \in (s.retry + 1) .. RetryLimit
  \/ /\ s.progress \in InBackup \cup {SUCCESS, FAILED} /\ o.progress = FAILED
     /\ o.retry >= RetryLimit /\ o.retry >= s.retry

UpdateSteps ==
  {"setPending", "setPresent", "setRunning", "confirmRunning", "recordOutcome",
   "setFailed", "setRetrying", "finalUpdate"}

LEMMA CopyMoves ==
  ASSUME TypeOK, LifecycleInv, pc \in UpdateSteps, UpToDate(cur)
  PROVE  obj = image[cur] \/ MayMove(image[cur], obj, cur)
<1> DEFINE s == image[cur]
<1>1. Copy(s) BY DEF LifecycleInv, CopyInv, UpToDate, UpdateSteps
<1>2. s \in ImageStatus /\ obj \in ImageStatus
  BY DEF UpdateSteps, TypeOK, ClusterTypeOK, ObjectTypeOK, WorkerTypeOK
<1>3. s.retry \in Nat /\ RetryLimit \in Nat BY <1>2, StatusFields, ConstantsAssumption
<1> SUFFICES obj = s \/ MayMove(s, obj, cur) OBVIOUS
<1> HIDE DEF s
<1>4. CASE pc = "recordOutcome"
  <2>1. s.progress \in InBackup /\ Outcome(s, obj) BY <1>1, <1>4 DEF Copy
  <2>2. ASSUME Is(obj, SUCCESS, s.retry), cur \in succeeded PROVE MayMove(s, obj, cur)
    BY <2>1, <2>2 DEF MayMove
  <2>3. ASSUME Is(obj, RETRYING, s.retry + 1), s.retry < RetryLimit
        PROVE  MayMove(s, obj, cur)
    <3>1. s.retry + 1 \in (s.retry + 1) .. RetryLimit BY <1>3, <2>3
    <3> QED BY <2>1, <2>3, <3>1 DEF MayMove, Is
  <2>4. ASSUME Is(obj, FAILED, s.retry), s.retry >= RetryLimit PROVE MayMove(s, obj, cur)
    <3>1. s.retry >= s.retry BY <1>3
    <3> QED BY <2>1, <2>4, <3>1 DEF MayMove, Is
  <2> QED BY <2>1, <2>2, <2>3, <2>4 DEF Outcome
<1>5. CASE pc = "setFailed"
  BY <1>1, <1>5 DEF Copy, MayMove, Is
<1>6. CASE pc = "setRetrying"
  BY <1>1, <1>6 DEF Copy, MayMove, Is
<1>7. CASE pc \in {"confirmRunning", "finalUpdate"}
  BY <1>1, <1>7 DEF Copy
<1>8. CASE pc \in {"setPending", "setPresent", "setRunning"}
  BY <1>1, <1>8 DEF Copy, MayMove, Is
<1> QED BY <1>4, <1>5, <1>6, <1>7, <1>8 DEF UpdateSteps

LEMMA MoveKeepsFacts ==
  ASSUME NEW i \in Image, NEW s \in ImageStatus, NEW o \in ImageStatus,
         MayMove(s, o, i), StatusFacts(s, i)
  PROVE  StatusFacts(o, i)
<1>1. s.retry \in Nat /\ o.retry \in Nat /\ RetryLimit \in Nat
  BY StatusFields, ConstantsAssumption
<1>2. CASE o.progress = FAILED
  BY <1>2 DEF MayMove, Is, StatusFacts, InBackup
<1>3. CASE o.progress # FAILED
  <2>1. s.progress # FAILED BY <1>3 DEF MayMove, InBackup
  <2>2. ~ (s.retry > RetryLimit) BY <2>1 DEF StatusFacts
  <2>3. o.retry = s.retry \/ o.retry \in (s.retry + 1) .. RetryLimit
    BY <1>3 DEF MayMove, Is
  <2>4. ~ (o.retry > RetryLimit) BY <1>1, <2>2, <2>3
  <2>5. /\ o.progress \in InBackup \cup {SUCCESS} => i \in attempted
        /\ o.progress = SUCCESS => i \in succeeded
        /\ o.progress = PRESENT => NamesakeAttempted(i)
    BY DEF MayMove, Is, StatusFacts, InBackup
  <2> QED BY <1>3, <2>4, <2>5 DEF StatusFacts
<1> QED BY <1>2, <1>3

\* Whether it is accepted or not, an update of the image at hand leaves these true.
LEMMA UpdateKeepsRecords ==
  ASSUME TypeOK, LifecycleInv, pc \in UpdateSteps,
         \/ UpToDate(cur) /\ PutImage("imageCtl", cur, obj)
         \/ UNCHANGED <<image, current>>,
         UNCHANGED <<export, imageSeen, exportSeen, jobVars>>
  PROVE  CacheInv' /\ BackupInv' /\ StatusInv'
<1> USE DEF LifecycleInv
<1>1. cur \in Image /\ obj \in ImageStatus /\ image \in [Image -> ImageStatus]
  BY DEF UpdateSteps, TypeOK, ClusterTypeOK, ObjectTypeOK, WorkerTypeOK
<1>2. BackupInv' BY BackupKept
<1>3. ASSUME UpToDate(cur), PutImage("imageCtl", cur, obj) PROVE CacheInv' /\ StatusInv'
  <2>1. CacheInv' BY <1>1, <1>3, PutKeepsCache
  <2>2. StatusFacts(image[cur], cur) BY <1>1 DEF StatusInv
  <2>3. StatusFacts(obj, cur)
    <3>1. obj = image[cur] \/ MayMove(image[cur], obj, cur) BY <1>3, CopyMoves
    <3>2. CASE obj = image[cur] BY <2>2, <3>2
    <3>3. CASE MayMove(image[cur], obj, cur)
      <4>1. image[cur] \in ImageStatus BY <1>1
      <4> QED BY <1>1, <2>2, <3>3, <4>1, MoveKeepsFacts
    <3> QED BY <3>1, <3>2, <3>3
  <2>4. StatusInv' BY <1>1, <1>3, <2>3, PutKeepsFacts DEF jobVars
  <2> QED BY <2>1, <2>4
<1>4. ASSUME UNCHANGED <<image, current>> PROVE CacheInv' /\ StatusInv'
  BY <1>4, CacheKept, StatusKept, JobVarsGrow
<1> QED BY <1>2, <1>3, <1>4

\* A worker that returns holds no copy.
LEMMA IdleHoldsNoCopy == pc' = "idle" => CopyInv'
BY DEF CopyInv

\* After an update that is accepted the copy is the image's status.
LEMMA AcceptedCopy ==
  ASSUME TypeOK, cur \in Image, UpToDate(cur), PutImage("imageCtl", cur, obj),
         NEW step \in {"confirmRunning", "listJobs", "finalUpdate", "exportStatus", "deleteJob"},
         Continue(step, obj),
         step = "deleteJob" => obj.progress \in {SUCCESS, RETRYING, FAILED}
  PROVE  CopyInv'
<1>1. cur' = cur /\ obj' = obj /\ pc' = step BY DEF Continue
<1>2. image'[cur'] = obj' BY <1>1, PutIsLatest
<1> QED BY <1>1, <1>2 DEF CopyInv, Copy

\* The actions that update the status of the image at hand.
UpdateAction ==
  \/ SetPending \/ SetPresent \/ SetRunning \/ ConfirmRunning \/ RecordOutcome
  \/ SetFailed \/ SetRetrying \/ FinalUpdate

LEMMA UpdateShape ==
  ASSUME UpdateAction
  PROVE  /\ pc \in UpdateSteps
         /\ \/ UpToDate(cur) /\ PutImage("imageCtl", cur, obj)
            \/ UNCHANGED <<image, current>>
         /\ UNCHANGED <<export, imageSeen, exportSeen, jobVars>>
         /\ \/ pc' = "idle"
            \/ /\ UpToDate(cur) /\ PutImage("imageCtl", cur, obj)
               /\ \/ pc = "setRunning" /\ Continue("confirmRunning", obj)
                  \/ pc = "recordOutcome" /\ Continue("deleteJob", obj)
                  \/ pc = "setFailed" /\ Continue("listJobs", obj)
                  \/ pc = "setRetrying" /\ Continue("finalUpdate", obj)
                  \/ pc = "finalUpdate" /\ Continue("exportStatus", obj)
BY DEF UpdateAction, UpdateSteps, SetPending, SetPresent, SetRunning, ConfirmRunning,
       RecordOutcome, SetFailed, SetRetrying, FinalUpdate, StatusUpdate, Fail, Return

LEMMA UpdateInv ==
  ASSUME TypeOK, LifecycleInv, UpdateAction
  PROVE  LifecycleInv'
<1>1. pc \in UpdateSteps BY UpdateShape
<1>2. CacheInv' /\ BackupInv' /\ StatusInv' BY <1>1, UpdateShape, UpdateKeepsRecords
<1>3. CopyInv'
  <2>1. cur \in Image BY <1>1 DEF UpdateSteps, TypeOK, WorkerTypeOK
  <2>2. CASE pc' = "idle" BY <2>2, IdleHoldsNoCopy
  <2>3. CASE pc' # "idle"
    <3>1. UpToDate(cur) /\ PutImage("imageCtl", cur, obj) BY <2>3, UpdateShape
    <3>2. CASE pc = "recordOutcome"
      <4>1. Continue("deleteJob", obj) BY <2>3, <3>2, UpdateShape
      <4>2. obj.progress \in {SUCCESS, RETRYING, FAILED}
        BY <3>1, <3>2 DEF LifecycleInv, CopyInv, UpToDate, Copy, Outcome, Is
      <4> QED BY <2>1, <3>1, <4>1, <4>2, AcceptedCopy
    <3>3. CASE pc # "recordOutcome"
      <4>1. PICK step \in {"confirmRunning", "listJobs", "finalUpdate", "exportStatus"} :
              Continue(step, obj)
        BY <2>3, <3>3, UpdateShape
      <4> QED BY <2>1, <3>1, <4>1, AcceptedCopy
    <3> QED BY <3>2, <3>3
  <2> QED BY <2>2, <2>3
<1> QED BY <1>2, <1>3 DEF LifecycleInv

-----------------------------------------------------------------------------
\* The actions of the worker that leave the statuses of the images alone.

LEMMA EnterInv ==
  ASSUME TypeOK, LifecycleInv, NEW i \in Image, NEW step, NEW o, Enter(i, step, o),
         /\ step = "setPending" =>
              imageSeen[i].progress = New /\ o = Status(PENDING, imageSeen[i].retry)
         /\ step = "checkImageExists" => imageSeen[i].progress = PENDING /\ o = imageSeen[i]
         /\ step = "getJob" => imageSeen[i].progress \in InBackup /\ o = imageSeen[i],
         step \in {"setPending", "checkImageExists", "getJob"}
  PROVE  LifecycleInv'
<1> USE DEF LifecycleInv
<1>1. BackupInv' /\ StatusInv' BY BackupKept, StatusKept, JobVarsGrow DEF Enter
<1>2. /\ current'["cache"] = current["cache"]
      /\ i \in current'["imageCtl"] => i \in current["cache"]
  BY DEF Enter, ReadBy, TypeOK, ClusterTypeOK, ObjectTypeOK, Holder
<1>3. CacheInv' BY <1>2 DEF CacheInv, Enter
<1>4. pc' = step /\ cur' = i /\ obj' = o /\ image' = image BY DEF Enter
<1>5. i \in current'["imageCtl"] => image[i] = imageSeen[i] BY <1>2 DEF CacheInv
<1>6. ASSUME i \in current'["imageCtl"] PROVE Copy(image[cur])'
  <2>1. CASE step = "setPending"
    <3>0. o = Status(PENDING, imageSeen[i].retry) BY <2>1
    <3>1. obj'.progress = PENDING /\ obj'.retry = image[i].retry
      BY <1>4, <1>5, <1>6, <3>0 DEF Status
    <3>2. image[i].progress = New BY <1>5, <1>6, <2>1
    <3> QED BY <1>4, <2>1, <3>1, <3>2 DEF Copy, Is
  <2>2. CASE step = "checkImageExists"
    BY <1>4, <1>5, <1>6, <2>2 DEF Copy
  <2>3. CASE step = "getJob"
    BY <1>4, <1>5, <1>6, <2>3 DEF Copy
  <2> QED BY <2>1, <2>2, <2>3
<1>7. CopyInv' BY <1>4, <1>6 DEF CopyInv
<1> QED BY <1>1, <1>3, <1>7

LEMMA UnchangedInv ==
  ASSUME LifecycleInv, UNCHANGED <<clusterVars, workerVars>>
  PROVE  LifecycleInv'
<1>1. CacheInv' /\ BackupInv' /\ StatusInv'
  BY CacheKept, BackupKept, StatusKept, JobVarsGrow DEF LifecycleInv, clusterVars, objectVars
<1>2. CopyInv'
  BY DEF LifecycleInv, CopyInv, Copy, Outcome, NamesakeAttempted, clusterVars, objectVars,
         jobVars, workerVars
<1> QED BY <1>1, <1>2 DEF LifecycleInv

LEMMA ReconcileInv ==
  ASSUME TypeOK, LifecycleInv, NEW i \in Image, Reconcile(i)
  PROVE  LifecycleInv'
<1>1. CASE ReconcileNothing(i) BY <1>1, UnchangedInv DEF ReconcileNothing
<1>2. CASE ReconcileLater(i) BY <1>2, UnchangedInv DEF ReconcileLater, vars
<1>3. CASE ReconcileNew(i) BY <1>3, EnterInv DEF ReconcileNew, SeenProgress
<1>4. CASE ReconcilePending(i)
  BY <1>4, EnterInv DEF ReconcilePending, SeenProgress, IsPending
<1>5. CASE ReconcileRunning(i)
  BY <1>5, EnterInv DEF ReconcileRunning, SeenProgress, InBackup
<1> QED BY <1>1, <1>2, <1>3, <1>4, <1>5 DEF Reconcile

\* A step between two calls that changes neither objects nor Jobs: only the copy
\* has to be looked at.
LEMMA ThinkInv ==
  ASSUME LifecycleInv, UNCHANGED clusterVars, CopyInv'
  PROVE  LifecycleInv'
BY CacheKept, BackupKept, StatusKept, JobVarsGrow DEF LifecycleInv, clusterVars, objectVars

LEMMA CheckImageExistsInv ==
  ASSUME TypeOK, LifecycleInv, CheckImageExists
  PROVE  LifecycleInv'
<1>1. UNCHANGED clusterVars BY DEF CheckImageExists
<1>2. cur \in Image BY DEF CheckImageExists, TypeOK, WorkerTypeOK
<1>3. CASE pc' = "idle" BY <1>1, <1>3, IdleHoldsNoCopy, ThinkInv
<1>4. CASE pc' # "idle"
  <2>1. \/ Continue("setPresent", Status(PRESENT, obj.retry)) /\ ImageExists(cur)
        \/ Continue("createBackupJob", obj)
    BY <1>4 DEF CheckImageExists, Return
  <2>2. cur' = cur /\ UNCHANGED <<image, current, attempted>>
    BY <1>1, <2>1 DEF Continue, clusterVars, objectVars, jobVars
  <2>3. ASSUME cur \in current["imageCtl"] PROVE Copy(image[cur])'
    <3>1. image[cur].progress = PENDING /\ obj = image[cur]
      BY <2>3 DEF LifecycleInv, CopyInv, Copy, CheckImageExists
    <3>2. ASSUME ImageExists(cur) PROVE NamesakeAttempted(cur)
      <4>1. PICK j \in Image : FullName[j] = FullName[cur] /\ Covers(SeenProgress(j))
        BY <3>1, <3>2 DEF ImageExists
      <4>2. StatusFacts(imageSeen[j], j) BY DEF LifecycleInv, StatusInv
      <4> QED BY <4>1, <4>2 DEF StatusFacts, NamesakeAttempted, Covers, SeenProgress, InBackup
    <3>3. NamesakeAttempted(cur) => NamesakeAttempted(cur)' BY <2>2 DEF NamesakeAttempted
    <3>4. CASE Continue("createBackupJob", obj)
      BY <2>2, <3>1, <3>4 DEF Continue, Copy
    <3>5. CASE Continue("setPresent", Status(PRESENT, obj.retry)) /\ ImageExists(cur)
      BY <2>2, <3>1, <3>2, <3>3, <3>5 DEF Continue, Copy, Is, Status
    <3> QED BY <2>1, <3>4, <3>5
  <2>4. CopyInv' BY <2>2, <2>3 DEF CopyInv
  <2> QED BY <1>1, <2>4, ThinkInv
<1> QED BY <1>3, <1>4

LookAtJob == JobMissing \/ JobActive \/ JobSucceeded \/ JobRetried \/ JobGivenUp

LEMMA LookAtJobInv ==
  ASSUME TypeOK, LifecycleInv, LookAtJob
  PROVE  LifecycleInv'
<1> USE DEF LookAtJob, JobMissing, JobActive, JobSucceeded, JobRetried, JobGivenUp
<1>1. UNCHANGED clusterVars /\ pc = "getJob" BY DEF GetJob
<1>2. /\ cur \in Image /\ obj \in ImageStatus /\ cur' = cur
      /\ UNCHANGED <<image, current, succeeded>>
  BY <1>1 DEF Continue, TypeOK, WorkerTypeOK, clusterVars, objectVars, jobVars
<1>3. obj.retry \in Nat /\ RetryLimit \in Nat BY <1>2, StatusFields, ConstantsAssumption
<1>4. ASSUME cur \in current["imageCtl"] PROVE Copy(image[cur])'
  <2>1. image[cur].progress \in InBackup /\ obj = image[cur]
    BY <1>1, <1>4 DEF LifecycleInv, CopyInv, Copy
  <2>2. CASE JobMissing BY <1>2, <2>1, <2>2 DEF Continue, Copy, Is, Status
  <2>3. CASE JobActive BY <1>2, <2>1, <2>3 DEF Continue, Copy
  <2>4. CASE JobSucceeded
    <3>1. cur \in succeeded BY <1>2, <2>4 DEF LifecycleInv, BackupInv
    <3> QED BY <1>2, <2>1, <2>4, <3>1 DEF Continue, Copy, Outcome, Is, Status
  <2>5. CASE JobRetried
    BY <1>2, <2>1, <2>5 DEF Continue, Copy, Outcome, Is, Status, RetriesLeft
  <2>6. CASE JobGivenUp
    <3>1. obj.retry >= RetryLimit BY <1>3, <2>6 DEF RetriesLeft
    <3> QED BY <1>2, <2>1, <2>6, <3>1 DEF Continue, Copy, Outcome, Is, Status
  <2> QED BY <2>2, <2>3, <2>4, <2>5, <2>6
<1>5. CopyInv' BY <1>2, <1>4 DEF CopyInv
<1> QED BY <1>1, <1>5, ThinkInv

\* A step that keeps the objects, and keeps the copy or loses it.
LEMMA CallInv ==
  ASSUME LifecycleInv, UNCHANGED objectVars, HistoryGrows, BackupInv', CopyInv'
  PROVE  LifecycleInv'
BY CacheKept, StatusKept DEF LifecycleInv, objectVars

LEMMA CreateBackupJobInv ==
  ASSUME TypeOK, LifecycleInv, CreateBackupJob
  PROVE  LifecycleInv'
<1>1. UNCHANGED objectVars /\ pc = "createBackupJob" BY DEF CreateBackupJob
<1>2. cur \in Image BY <1>1 DEF TypeOK, WorkerTypeOK
<1>3. JobCreated \/ UNCHANGED <<job, attempted>> BY DEF CreateBackupJob, Call
<1>4. UNCHANGED <<jobSeen, succeeded>> /\ HistoryGrows
  BY <1>3 DEF CreateBackupJob, HistoryGrows, JobCreated
<1>5. BackupInv'
  <2>1. CASE JobCreated
    BY <1>2, <1>4, <2>1
       DEF JobCreated, LifecycleInv, BackupInv, TypeOK, ClusterTypeOK, JobTypeOK
  <2>2. CASE UNCHANGED <<job, attempted>>
    BY <1>4, <2>2 DEF LifecycleInv, BackupInv
  <2> QED BY <1>3, <2>1, <2>2
<1>6. CopyInv'
  <2>1. CASE pc' = "idle" BY <2>1, IdleHoldsNoCopy
  <2>2. CASE pc' # "idle"
    <3>1. JobCreated /\ Continue("setRunning", Started)
      BY <2>2 DEF CreateBackupJob, Call, Fail, Return
    <3>2. cur' = cur /\ UNCHANGED <<image, current>> /\ cur \in attempted'
      BY <1>1, <3>1 DEF Continue, objectVars, JobCreated
    <3>3. ASSUME cur \in current["imageCtl"] PROVE Copy(image[cur])'
      <4>1. image[cur].progress = PENDING /\ obj = image[cur]
        BY <1>1, <3>3 DEF LifecycleInv, CopyInv, Copy
      <4>2. Is(obj', RUNNING, image[cur].retry) /\ pc' = "setRunning"
        BY <3>1, <4>1 DEF Continue, Started, Status, Is
      <4> QED BY <3>2, <4>1, <4>2 DEF Copy, Is
    <3> QED BY <3>2, <3>3 DEF CopyInv
  <2> QED BY <2>1, <2>2
<1> QED BY <1>1, <1>4, <1>5, <1>6, CallInv

LEMMA CleanUpInv ==
  ASSUME TypeOK, LifecycleInv, DeleteJob \/ DeletePods
  PROVE  LifecycleInv'
<1>1. /\ UNCHANGED objectVars /\ pc \in {"deleteJob", "deletePods"}
      /\ UNCHANGED <<jobSeen, succeeded, attempted>> /\ HistoryGrows
  BY DEF DeleteJob, DeletePods, HistoryGrows
<1>2. cur \in Image BY <1>1 DEF TypeOK, WorkerTypeOK
<1>3. BackupInv'
  <2>1. job' = job \/ job' = [job EXCEPT ![cur] = "none"]
    BY DEF DeleteJob, DeletePods, Call
  <2> QED BY <1>1, <1>2, <2>1 DEF LifecycleInv, BackupInv, TypeOK, ClusterTypeOK, JobTypeOK
<1>4. CASE pc' = "idle" BY <1>1, <1>3, <1>4, IdleHoldsNoCopy, CallInv
<1>5. CASE pc' # "idle"
  <2>1. /\ cur' = cur /\ obj' = obj
        /\ \/ pc' = "deletePods"
           \/ pc' = "listPods" /\ obj.progress # RETRYING
    <3>1. CASE DeleteJob
      <4>1. Continue("deletePods", obj) BY <1>5, <3>1 DEF DeleteJob, Call, Fail, Return
      <4> QED BY <4>1 DEF Continue
    <3>2. CASE DeletePods
      <4>1. \/ obj.progress = RETRYING /\ Return({cur})
            \/ obj.progress # RETRYING /\ Continue("listPods", obj)
        BY <1>5, <3>2 DEF DeletePods, Call, Fail, Return
      <4> QED BY <1>5, <4>1 DEF Return, Continue
    <3> QED BY <3>1, <3>2
  <2>2. ASSUME cur \in current["imageCtl"] PROVE Copy(image[cur])'
    <3>1. image[cur].progress \in {SUCCESS, RETRYING, FAILED} /\ obj = image[cur]
      BY <1>1, <2>2 DEF LifecycleInv, CopyInv, Copy
    <3> QED BY <1>1, <2>1, <3>1 DEF Copy, objectVars
  <2>3. CopyInv' BY <1>1, <2>1, <2>2 DEF CopyInv, objectVars
  <2> QED BY <1>1, <1>3, <2>3, CallInv
<1> QED BY <1>4, <1>5

LEMMA ListPodsInv ==
  ASSUME TypeOK, LifecycleInv, ListPods
  PROVE  LifecycleInv'
<1>1. UNCHANGED clusterVars /\ pc = "listPods" BY DEF ListPods
<1>2. cur \in Image /\ obj \in ImageStatus /\ restartsSeen[cur] \in Nat
  BY <1>1 DEF TypeOK, ClusterTypeOK, JobTypeOK, WorkerTypeOK
<1>3. obj.retry \in Nat /\ RetryLimit \in Nat BY <1>2, StatusFields, ConstantsAssumption
<1>4. cur' = cur /\ UNCHANGED <<image, current>>
  BY <1>1 DEF ListPods, Continue, clusterVars, objectVars
<1>5. ASSUME cur \in current["imageCtl"] PROVE Copy(image[cur])'
  <2> DEFINE n == obj.retry + restartsSeen[cur]
  <2>1. image[cur].progress \in InBackup \cup {SUCCESS, FAILED} /\ obj = image[cur]
    BY <1>1, <1>5 DEF LifecycleInv, CopyInv, Copy
  <2>2. StatusFacts(image[cur], cur) BY <1>2 DEF LifecycleInv, StatusInv
  <2>3. CASE Continue("finalUpdate", obj)
    BY <1>4, <2>1, <2>3 DEF Continue, Copy
  <2>4. CASE Continue("setFailed", Status(FAILED, n)) /\ n >= RetryLimit
    <3>1. n >= obj.retry BY <1>2, <1>3
    <3>2. obj'.progress = FAILED /\ obj'.retry = n BY <2>4 DEF Continue, Status
    <3>3. pc' = "setFailed" BY <2>4 DEF Continue
    <3> HIDE DEF n
    <3> QED BY <1>4, <2>1, <2>4, <3>1, <3>2, <3>3 DEF Copy
  <2>5. CASE /\ Continue("setRetrying", Status(RETRYING, n))
             /\ n < RetryLimit /\ restartsSeen[cur] > 0
    <3>1. n \in (obj.retry + 1) .. RetryLimit BY <1>2, <1>3, <2>5
    <3>2. obj'.progress = RETRYING /\ obj'.retry = n BY <2>5 DEF Continue, Status
    <3>3. pc' = "setRetrying" BY <2>5 DEF Continue
    <3>4. ~ (obj.retry >= RetryLimit) BY <1>2, <1>3, <2>5
    <3>5. image[cur].progress # FAILED BY <2>1, <2>2, <3>4 DEF StatusFacts
    <3> HIDE DEF n
    <3> QED BY <1>4, <2>1, <3>1, <3>2, <3>3, <3>5 DEF Copy
  <2> QED BY <2>3, <2>4, <2>5 DEF ListPods, RestartedRetry
<1>6. CopyInv' BY <1>4, <1>5 DEF CopyInv
<1> QED BY <1>1, <1>6, ThinkInv

LEMMA RemoveJobsInv ==
  ASSUME TypeOK, LifecycleInv, ListJobs \/ JobsRemoved \/ \E j \in Image : RemoveJob(j)
  PROVE  LifecycleInv'
<1>1. /\ UNCHANGED objectVars /\ pc \in {"listJobs", "removeJobs"}
      /\ UNCHANGED <<job, jobSeen, succeeded, attempted>> /\ HistoryGrows
  BY DEF ListJobs, JobsRemoved, RemoveJob, clusterVars, jobVars, HistoryGrows
<1>2. BackupInv' BY <1>1 DEF LifecycleInv, BackupInv
<1>3. CASE pc' = "idle" BY <1>1, <1>2, <1>3, IdleHoldsNoCopy, CallInv
<1>4. CASE pc' # "idle"
  <2>1. cur' = cur /\ obj' = obj /\ pc' \in {"removeJobs", "finalUpdate"}
    <3>1. CASE ListJobs BY <3>1 DEF ListJobs
    <3>2. CASE JobsRemoved BY <3>2 DEF JobsRemoved, Continue
    <3>3. CASE \E j \in Image : RemoveJob(j)
      BY <1>4, <3>3 DEF RemoveJob, Call, Fail, Return
    <3> QED BY <3>1, <3>2, <3>3
  <2>2. CopyInv' BY <1>1, <2>1 DEF LifecycleInv, CopyInv, Copy, objectVars
  <2> QED BY <1>1, <1>2, <2>2, CallInv
<1> QED BY <1>3, <1>4

LEMMA ExportStatusInv ==
  ASSUME TypeOK, LifecycleInv, ExportStatus \/ SetExport
  PROVE  LifecycleInv'
<1>1. cur \in Image /\ ExportOf[cur] \in Export /\ ExportOf[cur] \notin Image
  BY ConstantsAssumption DEF ExportStatus, SetExport, TypeOK, WorkerTypeOK
<1>2. UNCHANGED <<image, imageSeen, exportSeen, jobVars>> BY DEF ExportStatus, SetExport
<1>3. BackupInv' /\ StatusInv'
  BY <1>2, BackupKept, StatusKept, JobVarsGrow DEF LifecycleInv
<1>4. pc' \in {"idle", "setExport"} BY DEF ExportStatus, SetExport, Return
<1>5. CopyInv' BY <1>4 DEF CopyInv, Copy
<1>6. \/ export' = export /\ current'["cache"] = current["cache"]
      \/ PutExport("imageCtl", ExportOf[cur], newStatus)
  BY DEF ExportStatus, SetExport, ReadBy, TypeOK, ClusterTypeOK, ObjectTypeOK, Holder
<1>7. CacheInv'
  <2>1. CASE export' = export /\ current'["cache"] = current["cache"]
    BY <1>2, <2>1 DEF LifecycleInv, CacheInv
  <2>2. CASE PutExport("imageCtl", ExportOf[cur], newStatus)
    BY <1>1, <1>2, <2>2
       DEF LifecycleInv, CacheInv, PutExport, WrittenBy, TypeOK, ClusterTypeOK, ObjectTypeOK,
           Holder
  <2> QED BY <1>6, <2>1, <2>2
<1> QED BY <1>3, <1>5, <1>7 DEF LifecycleInv

-----------------------------------------------------------------------------
\* Steps outside the worker, and crashes.

\* The copy stays what it was as long as it is the latest.
LEMMA CopyKept ==
  ASSUME CopyInv, UNCHANGED workerVars, HistoryGrows,
         cur \in current'["imageCtl"] =>
           cur \in current["imageCtl"] /\ image'[cur] = image[cur]
  PROVE  CopyInv'
<1>1. pc' = pc /\ cur' = cur /\ obj' = obj BY DEF workerVars
<1>2. ASSUME pc' # "idle", cur' \in current'["imageCtl"] PROVE Copy(image[cur])'
  <2>1. Copy(image[cur]) /\ image'[cur'] = image[cur] BY <1>1, <1>2 DEF CopyInv
  <2>2. NamesakeAttempted(cur) => NamesakeAttempted(cur)'
    BY <1>1 DEF NamesakeAttempted, HistoryGrows
  <2>3. Outcome(image[cur], obj) => Outcome(image[cur], obj)'
    BY <1>1, <2>1 DEF Outcome, Is, HistoryGrows
  <2> QED BY <1>1, <2>1, <2>2, <2>3 DEF Copy, Is, HistoryGrows
<1> QED BY <1>2 DEF CopyInv

LEMMA JobEventInv ==
  ASSUME TypeOK, LifecycleInv, UNCHANGED workerVars, NEW i \in Image,
         \/ JobSucceeds(i) \/ JobFails(i) \/ JobGoes(i) \/ PodRestarts(i) \/ SyncJob(i)
  PROVE  LifecycleInv'
<1> USE DEF TypeOK, ClusterTypeOK, JobTypeOK, JobState, LifecycleInv
<1>1. UNCHANGED objectVars /\ HistoryGrows
  BY DEF JobSucceeds, JobFails, JobGoes, PodRestarts, SyncJob, HistoryGrows
<1>2. BackupInv'
  <2>1. CASE JobSucceeds(i) BY <2>1 DEF BackupInv, JobSucceeds
  <2>2. CASE JobFails(i) BY <2>2 DEF BackupInv, JobFails
  <2>3. CASE JobGoes(i) BY <2>3 DEF BackupInv, JobGoes
  <2>4. CASE PodRestarts(i) BY <2>4 DEF BackupInv, PodRestarts
  <2>5. CASE SyncJob(i) BY <2>5 DEF BackupInv, SyncJob
  <2> QED BY <2>1, <2>2, <2>3, <2>4, <2>5
<1>3. CopyInv' BY <1>1, CopyKept DEF objectVars
<1> QED BY <1>1, <1>2, <1>3, CallInv

\* Somebody else writes the status of an image: the copies of it are old.
LEMMA OtherWriteInv ==
  ASSUME TypeOK, LifecycleInv, UNCHANGED workerVars, NEW i \in Image,
         CreateImage(i) \/ CollectImage(i)
  PROVE  LifecycleInv'
<1> USE DEF LifecycleInv, TypeOK, ClusterTypeOK, ObjectTypeOK
<1>1. /\ UNCHANGED <<export, imageSeen, exportSeen, jobVars>>
      /\ image' = [image EXCEPT ![i] = NewStatus] \/ image' = [image EXCEPT ![i] = NoStatus]
      /\ current' = WrittenByOther(i)
  BY DEF CreateImage, CollectImage
<1>2. BackupInv' /\ HistoryGrows BY <1>1, BackupKept, JobVarsGrow
<1>3. /\ \A h \in Holder : current'[h] = current[h] \ {i}
      /\ \A j \in Image \ {i} : image'[j] = image[j]
  BY <1>1 DEF WrittenByOther
<1>4. CacheInv' BY <1>1, <1>3 DEF CacheInv, Holder
<1>5. CopyInv'
  <2>1. \A j \in Image : j \in current'["imageCtl"] =>
          j \in current["imageCtl"] /\ image'[j] = image[j]
    BY <1>3 DEF Holder
  <2>2. CASE pc = "idle" BY <2>2 DEF CopyInv, workerVars
  <2>3. CASE pc # "idle"
    <3>1. cur \in Image BY <2>3 DEF WorkerTypeOK
    <3> QED BY <1>2, <2>1, <3>1, CopyKept
  <2> QED BY <2>2, <2>3
<1>6. StatusInv'
  <2>1. 0 \in Nat /\ ~ (0 > RetryLimit) BY ConstantsAssumption
  <2>2. StatusFacts(NewStatus, i)' /\ StatusFacts(NoStatus, i)'
    BY <2>1 DEF StatusFacts, NewStatus, NoStatus, Status, InBackup
  <2>3. StatusFacts(image[i], i)'
    <3>1. image'[i] \in {NewStatus, NoStatus} BY <1>1
    <3> QED BY <2>2, <3>1 DEF StatusFacts
  <2>4. ASSUME NEW j \in Image, j # i PROVE StatusFacts(image[j], j)'
    BY <1>2, <1>3, <2>4 DEF StatusInv, StatusFacts, NamesakeAttempted, HistoryGrows
  <2>5. ASSUME NEW j \in Image PROVE StatusFacts(imageSeen[j], j)'
    BY <1>1, <1>2 DEF StatusInv, StatusFacts, NamesakeAttempted, HistoryGrows
  <2> QED BY <2>3, <2>4, <2>5 DEF StatusInv
<1> QED BY <1>2, <1>4, <1>5, <1>6

LEMMA SyncInv ==
  ASSUME TypeOK, LifecycleInv, UNCHANGED workerVars,
         (\E i \in Image : SyncImage(i)) \/ (\E e \in Export : SyncExport(e))
  PROVE  LifecycleInv'
<1> USE DEF LifecycleInv, TypeOK, ClusterTypeOK, ObjectTypeOK
<1>1. UNCHANGED <<image, export, jobVars>> BY DEF SyncImage, SyncExport
<1>2. BackupInv' /\ HistoryGrows BY <1>1, BackupKept, JobVarsGrow
<1>3. current'["imageCtl"] = current["imageCtl"] BY DEF SyncImage, SyncExport, Holder
<1>4. CopyInv' BY <1>1, <1>2, <1>3, CopyKept
<1>5. CacheInv'
  <2>1. CASE \E i \in Image : SyncImage(i)
    BY <2>1, ConstantsAssumption DEF SyncImage, CacheInv, Holder
  <2>2. CASE \E e \in Export : SyncExport(e)
    BY <2>2, ConstantsAssumption DEF SyncExport, CacheInv, Holder
  <2> QED BY <2>1, <2>2
<1>6. \A j \in Image : imageSeen'[j] \in {image[j], imageSeen[j]}
  BY DEF SyncImage, SyncExport
<1>7. StatusInv'
  BY <1>1, <1>2, <1>6 DEF StatusInv, StatusFacts, NamesakeAttempted, HistoryGrows
<1> QED BY <1>2, <1>4, <1>5, <1>7

\* The steps of others that concern an export and not the caches.
ExportEvent(e) ==
  \/ RemoveExport(e) \/ SetRunningAgain(e) \/ SetExportFailed(e)
  \/ CheckCompleted(e) \/ SetExportCompleted(e)

LEMMA ExportEventShape ==
  ASSUME TypeOK, NEW e \in Export, ExportEvent(e)
  PROVE  /\ UNCHANGED <<image, imageSeen, exportSeen, jobVars>>
         /\ current'["cache"] \in {current["cache"], current["cache"] \ {e}}
         /\ current'["imageCtl"] \in {current["imageCtl"], current["imageCtl"] \ {e}}
         /\ \/ UNCHANGED export
            \/ /\ e \notin current'["cache"] \cup current'["imageCtl"]
               /\ \E p : export' = [export EXCEPT ![e] = p]
<1> USE DEF TypeOK, ClusterTypeOK, ObjectTypeOK, Holder, WrittenByOther
<1>1. CASE RemoveExport(e) BY <1>1 DEF RemoveExport
<1>2. CASE CheckCompleted(e) BY <1>2 DEF CheckCompleted, CheckImages
<1>3. ASSUME NEW p, ExportCtlWrites(e, p)
      PROVE  /\ UNCHANGED <<image, imageSeen, exportSeen, jobVars>>
             /\ export' = [export EXCEPT ![e] = p]
             /\ current'["cache"] = current["cache"] \ {e}
             /\ current'["imageCtl"] = current["imageCtl"] \ {e}
  BY <1>3 DEF ExportCtlWrites
<1>4. CASE SetRunningAgain(e) \/ SetExportFailed(e) \/ SetExportCompleted(e)
  <2>1. \E p : ExportCtlWrites(e, p)
    BY <1>4 DEF SetRunningAgain, SetExportFailed, SetExportCompleted
  <2> QED BY <1>3, <2>1
<1> QED BY <1>1, <1>2, <1>4 DEF ExportEvent

LEMMA ExportEventInv ==
  ASSUME TypeOK, LifecycleInv, UNCHANGED workerVars, NEW e \in Export, ExportEvent(e)
  PROVE  LifecycleInv'
<1> USE DEF LifecycleInv, TypeOK, ClusterTypeOK, ObjectTypeOK
<1>1. UNCHANGED <<image, imageSeen, exportSeen, jobVars>> BY ExportEventShape
<1>2. BackupInv' /\ StatusInv' /\ HistoryGrows
  BY <1>1, BackupKept, StatusKept, JobVarsGrow
<1>3. /\ current'["cache"] \subseteq current["cache"]
      /\ current'["imageCtl"] \subseteq current["imageCtl"]
      /\ \A d \in Export : d \in current'["cache"] => export'[d] = export[d]
  BY ExportEventShape
<1>4. CacheInv' BY <1>1, <1>3 DEF CacheInv
<1>5. CopyInv' BY <1>1, <1>2, <1>3, CopyKept
<1> QED BY <1>2, <1>4, <1>5

LEMMA EnvironmentInv ==
  ASSUME TypeOK, LifecycleInv, Environment \/ \E i \in Image : ImageEvent(i)
  PROVE  LifecycleInv'
<1>1. UNCHANGED workerVars BY DEF Environment, Outside, ImageEvent
<1>2. CASE Environment
  BY <1>1, <1>2, JobEventInv, OtherWriteInv, SyncInv, ExportEventInv
     DEF Environment, Outside, ExportEvent
<1>3. CASE \E i \in Image : ImageEvent(i)
  BY <1>1, <1>3, JobEventInv, SyncInv DEF ImageEvent
<1> QED BY <1>2, <1>3

LEMMA CrashInv ==
  ASSUME TypeOK, LifecycleInv, Crash
  PROVE  LifecycleInv'
<1> USE DEF LifecycleInv, Crash, RestartCaches
<1>1. CopyInv' BY IdleHoldsNoCopy
<1>2. CacheInv' BY DEF CacheInv
<1>3. BackupInv' BY DEF BackupInv
<1>4. StatusInv' BY DEF StatusInv, StatusFacts, NamesakeAttempted
<1> QED BY <1>1, <1>2, <1>3, <1>4

LEMMA InitInv == Init => LifecycleInv
<1> SUFFICES ASSUME Init PROVE LifecycleInv OBVIOUS
<1> USE DEF Init, ClusterInit
<1>1. CacheInv BY DEF CacheInv
<1>2. BackupInv BY DEF BackupInv
<1>3. 0 \in Nat /\ ~ (0 > RetryLimit) BY ConstantsAssumption
<1>4. StatusInv BY <1>3 DEF StatusInv, StatusFacts, NoStatus, Status, InBackup
<1>5. CopyInv BY DEF CopyInv
<1> QED BY <1>1, <1>2, <1>4, <1>5 DEF LifecycleInv

LEMMA StepInv ==
  ASSUME TypeOK, LifecycleInv, Step
  PROVE  LifecycleInv'
BY UpdateInv, CheckImageExistsInv, CreateBackupJobInv, LookAtJobInv, CleanUpInv, ListPodsInv,
   RemoveJobsInv, ExportStatusInv DEF Step, UpdateAction, LookAtJob

LEMMA NextInv == TypeOK /\ LifecycleInv /\ [Next]_vars => LifecycleInv'
<1> SUFFICES ASSUME TypeOK, LifecycleInv, [Next]_vars PROVE LifecycleInv' OBVIOUS
<1>1. CASE Next BY <1>1, ReconcileInv, StepInv, CrashInv, EnvironmentInv DEF Next
<1>2. CASE UNCHANGED vars BY <1>2, UnchangedInv DEF vars
<1> QED BY <1>1, <1>2

\* The statuses of the images, those the caches show and the worker's copy always
\* say the truth about the backups, whatever faults there are.
THEOREM LifecycleInvariant == Spec => []LifecycleInv
<1>1. Spec => []TypeOK BY TypeCorrect
<1>2. Init => LifecycleInv BY InitInv
<1>3. TypeOK /\ LifecycleInv /\ [Next]_vars => LifecycleInv' BY NextInv
<1> QED BY <1>1, <1>2, <1>3, PTL DEF Spec

\* An image is COMPLETED only if a Job of its own has succeeded, and so has uploaded it
\* if its storage is S3.
THEOREM CompletedIsUploaded == Spec => []CompletedWasUploaded
<1>1. LifecycleInv => CompletedWasUploaded
  BY DEF LifecycleInv, StatusInv, StatusFacts, CompletedWasUploaded, Progressed,
         uploaded, Uploads
<1> QED BY <1>1, LifecycleInvariant, PTL

\* An image is PRESENT only if a backup of one of its name was started.
THEOREM PresentIsAttempted == Spec => []PresentHasAttempt
<1>1. LifecycleInv => PresentHasAttempt
  BY DEF LifecycleInv, StatusInv, StatusFacts, NamesakeAttempted, PresentHasAttempt, Progressed
<1> QED BY <1>1, LifecycleInvariant, PTL

\* Images are given up at the limit and not before.
THEOREM GivenUpAtTheLimit == Spec => []GivesUpAtTheLimit
<1>1. LifecycleInv => GivesUpAtTheLimit
  BY DEF LifecycleInv, StatusInv, StatusFacts, GivesUpAtTheLimit, Progressed
<1> QED BY <1>1, LifecycleInvariant, PTL

-----------------------------------------------------------------------------
\* Every step is a step of ImageLifecycle or leaves its variables alone.

LEMMA StatusIsRecord ==
  ASSUME NEW o \in ImageStatus, NEW p, NEW n, Is(o, p, n)
  PROVE  o = [progress |-> p, retry |-> n]
BY DEF ImageStatus, Is

LEMMA MoveSteps ==
  ASSUME NEW i \in Image, image \in [Image -> ImageStatus], NEW o \in ImageStatus,
         MayMove(image[i], o, i), image' = [image EXCEPT ![i] = o],
         UNCHANGED <<attempted, succeeded>>
  PROVE  Lifecycle!Next
<1> USE DEF InBackup, Lifecycle!InBackup, Lifecycle!Move, Lifecycle!To
<1>1. image'[i] = o OBVIOUS
<1>2. CASE image[i].progress \in {New} \cup InBackup /\ Is(o, PENDING, image[i].retry)
  <2>1. Lifecycle!Enqueue(i) BY <1>2, StatusIsRecord DEF Lifecycle!Enqueue
  <2> QED BY <2>1 DEF Lifecycle!Next, Lifecycle!StatusStep
<1>3. CASE image[i].progress = PENDING /\ Is(o, RUNNING, image[i].retry) /\ i \in attempted
  <2>1. Lifecycle!Start(i) BY <1>3, StatusIsRecord DEF Lifecycle!Start
  <2> QED BY <2>1 DEF Lifecycle!Next, Lifecycle!StatusStep
<1>4. CASE /\ image[i].progress = PENDING /\ Is(o, PRESENT, image[i].retry)
           /\ NamesakeAttempted(i)
  <2>1. Lifecycle!Skip(i) BY <1>4, StatusIsRecord DEF Lifecycle!Skip, NamesakeAttempted
  <2> QED BY <2>1 DEF Lifecycle!Next, Lifecycle!StatusStep
<1>5. CASE image[i].progress \in InBackup /\ Is(o, SUCCESS, image[i].retry) /\ i \in succeeded
  <2>1. Lifecycle!Complete(i) BY <1>5, StatusIsRecord DEF Lifecycle!Complete
  <2> QED BY <2>1 DEF Lifecycle!Next, Lifecycle!StatusStep
<1>6. CASE /\ image[i].progress \in InBackup \cup {SUCCESS} /\ o.progress = RETRYING
           /\ o.retry \in (image[i].retry + 1) .. RetryLimit
  <2>1. o = [progress |-> RETRYING, retry |-> o.retry] BY <1>6, StatusIsRecord DEF Is
  <2>2. Lifecycle!Retry(i) BY <1>6, <2>1 DEF Lifecycle!Retry
  <2> QED BY <2>2 DEF Lifecycle!Next, Lifecycle!StatusStep
<1>7. CASE /\ image[i].progress \in InBackup \cup {SUCCESS, FAILED} /\ o.progress = FAILED
           /\ o.retry >= RetryLimit /\ o.retry >= image[i].retry
  <2>1. o = [progress |-> FAILED, retry |-> o.retry] BY <1>7, StatusIsRecord DEF Is
  <2>2. Lifecycle!GiveUp(i) BY <1>1, <1>7, <2>1 DEF Lifecycle!GiveUp
  <2> QED BY <2>2 DEF Lifecycle!Next, Lifecycle!StatusStep
<1> QED BY <1>2, <1>3, <1>4, <1>5, <1>6, <1>7 DEF MayMove

LifecycleStep == [Lifecycle!Next]_Lifecycle!lifecycleVars

LEMMA StutterSteps ==
  ASSUME UNCHANGED <<image, attempted, succeeded>>
  PROVE  LifecycleStep
BY DEF LifecycleStep, Lifecycle!lifecycleVars

LEMMA UpdateActionSteps ==
  ASSUME TypeOK, LifecycleInv, UpdateAction
  PROVE  LifecycleStep
<1>1. pc \in UpdateSteps /\ UNCHANGED jobVars BY UpdateShape
<1>2. cur \in Image /\ obj \in ImageStatus /\ image \in [Image -> ImageStatus]
  BY <1>1 DEF UpdateSteps, TypeOK, ClusterTypeOK, ObjectTypeOK, WorkerTypeOK
<1>3. CASE UNCHANGED <<image, current>> BY <1>1, <1>3, StutterSteps DEF jobVars
<1>4. CASE UpToDate(cur) /\ PutImage("imageCtl", cur, obj)
  <2>1. image' = [image EXCEPT ![cur] = obj] BY <1>4 DEF PutImage
  <2>2. obj = image[cur] \/ MayMove(image[cur], obj, cur) BY <1>1, <1>4, CopyMoves
  <2>3. CASE obj = image[cur]
    <3>1. image' = image BY <1>2, <2>1, <2>3
    <3> QED BY <1>1, <3>1, StutterSteps DEF jobVars
  <2>4. CASE MayMove(image[cur], obj, cur)
    BY <1>1, <1>2, <2>1, <2>4, MoveSteps DEF LifecycleStep, jobVars
  <2> QED BY <2>2, <2>3, <2>4
<1> QED BY <1>3, <1>4, UpdateShape

LEMMA CreateBackupJobSteps ==
  ASSUME TypeOK, CreateBackupJob
  PROVE  LifecycleStep
<1>1. cur \in Image BY DEF CreateBackupJob, TypeOK, WorkerTypeOK
<1>2. UNCHANGED <<image, succeeded>> BY DEF CreateBackupJob, objectVars
<1>3. attempted' = attempted \/ attempted' = attempted \cup {cur}
  BY DEF CreateBackupJob, Call, JobCreated
<1>4. CASE attempted' = attempted BY <1>2, <1>4, StutterSteps
<1>5. CASE attempted' = attempted \cup {cur}
  <2>1. Lifecycle!BackupStep(cur) BY <1>2, <1>5 DEF Lifecycle!BackupStep
  <2> QED BY <1>1, <2>1 DEF LifecycleStep, Lifecycle!Next
<1> QED BY <1>3, <1>4, <1>5

LEMMA EnvironmentSteps ==
  ASSUME TypeOK, LifecycleInv, Environment
  PROVE  LifecycleStep
<1>1. ASSUME NEW i \in Image, JobSucceeds(i) PROVE LifecycleStep
  <2>1. i \in attempted BY <1>1 DEF JobSucceeds, LifecycleInv, BackupInv
  <2>2. Lifecycle!BackupStep(i) BY <1>1, <2>1 DEF JobSucceeds, objectVars, Lifecycle!BackupStep
  <2> QED BY <2>2 DEF LifecycleStep, Lifecycle!Next
<1>2. ASSUME NEW i \in Image, CreateImage(i) PROVE LifecycleStep
  <2>1. Lifecycle!Create(i)
    BY <1>2 DEF CreateImage, NewStatus, Status, Lifecycle!Create, Lifecycle!Move
  <2>2. UNCHANGED <<attempted, succeeded>> BY <1>2 DEF CreateImage, jobVars
  <2> QED BY <2>1, <2>2 DEF LifecycleStep, Lifecycle!Next, Lifecycle!StatusStep
<1>3. ASSUME NEW i \in Image, CollectImage(i) PROVE LifecycleStep
  <2>1. Lifecycle!Remove(i)
    BY <1>3 DEF CollectImage, NoStatus, Status, Lifecycle!Remove, Lifecycle!Gone
  <2>2. UNCHANGED <<attempted, succeeded>> BY <1>3 DEF CollectImage, jobVars
  <2> QED BY <2>1, <2>2 DEF LifecycleStep, Lifecycle!Next, Lifecycle!StatusStep
<1>4. ASSUME NEW i \in Image, JobFails(i) \/ JobGoes(i) \/ PodRestarts(i)
      PROVE  LifecycleStep
  BY <1>4, StutterSteps DEF JobFails, JobGoes, PodRestarts, objectVars
<1>5. ASSUME NEW e \in Export, SyncExport(e) \/ ExportEvent(e) PROVE LifecycleStep
  BY <1>5, StutterSteps, ExportEventShape DEF SyncExport, jobVars
<1> QED BY <1>1, <1>2, <1>3, <1>4, <1>5 DEF Environment, Outside, ExportEvent

LEMMA StepSteps ==
  ASSUME TypeOK, LifecycleInv, Step
  PROVE  LifecycleStep
<1>1. CASE UpdateAction BY <1>1, UpdateActionSteps
<1>2. CASE CreateBackupJob BY <1>2, CreateBackupJobSteps
<1>3. CASE CheckImageExists \/ LookAtJob \/ ListPods \/ ListJobs \/ JobsRemoved
  BY <1>3, StutterSteps
     DEF CheckImageExists, LookAtJob, JobMissing, JobActive, JobSucceeded, JobRetried,
         JobGivenUp, GetJob, ListPods, ListJobs, JobsRemoved, clusterVars, objectVars, jobVars
<1>4. CASE DeleteJob \/ DeletePods \/ \E j \in Image : RemoveJob(j)
  BY <1>4, StutterSteps DEF DeleteJob, DeletePods, RemoveJob, objectVars
<1>5. CASE ExportStatus \/ SetExport
  BY <1>5, StutterSteps DEF ExportStatus, SetExport, jobVars
<1> QED BY <1>1, <1>2, <1>3, <1>4, <1>5 DEF Step, UpdateAction, LookAtJob

LEMMA NextSteps == TypeOK /\ LifecycleInv /\ [Next]_vars => LifecycleStep
<1> SUFFICES ASSUME TypeOK, LifecycleInv, [Next]_vars PROVE LifecycleStep OBVIOUS
<1>1. ASSUME NEW i \in Image, Reconcile(i) PROVE LifecycleStep
  BY <1>1, StutterSteps
     DEF Reconcile, ReconcileNothing, ReconcileLater, ReconcileNew, ReconcilePending,
         ReconcileRunning, Enter, vars, clusterVars, objectVars, jobVars
<1>2. ASSUME NEW i \in Image, ImageEvent(i) PROVE LifecycleStep
  BY <1>2, StutterSteps DEF ImageEvent, SyncImage, SyncJob, objectVars, jobVars
<1>3. CASE Crash BY <1>3, StutterSteps DEF Crash, RestartCaches
<1>4. CASE UNCHANGED vars
  BY <1>4, StutterSteps DEF vars, clusterVars, objectVars, jobVars
<1> QED BY <1>1, <1>2, <1>3, <1>4, StepSteps, EnvironmentSteps DEF Next

\* Whatever faults there are, the controller implements ImageLifecycle.
THEOREM ImplementsLifecycle == Spec => FollowsLifecycle
<1>1. Init => Lifecycle!Init
  BY DEF Init, ClusterInit, NoStatus, Status, Lifecycle!Init, Lifecycle!Gone
<1>2. TypeOK /\ LifecycleInv /\ [Next]_vars => [Lifecycle!Next]_Lifecycle!lifecycleVars
  BY NextSteps DEF LifecycleStep
<1> QED BY <1>1, <1>2, TypeCorrect, LifecycleInvariant, PTL
        DEF Spec, FollowsLifecycle, Lifecycle!Spec

LEMMA FinalKept ==
  ASSUME TypeOK, LifecycleStep, NEW i \in Image, Progressed(i, {FAILED, PRESENT})
  PROVE  image'[i].progress \in {image[i].progress, Absent}
<1> image \in [Image -> ImageStatus] BY DEF TypeOK, ClusterTypeOK, ObjectTypeOK
<1>1. CASE UNCHANGED image BY <1>1
<1>2. ASSUME NEW j \in Image, Lifecycle!StatusStep(j)
      PROVE  image'[i].progress \in {image[i].progress, Absent}
  <2> USE DEF Progressed, Lifecycle!Move, Lifecycle!To, Lifecycle!InBackup
  <2>1. CASE Lifecycle!Create(j) \/ Lifecycle!Enqueue(j) \/ Lifecycle!Start(j)
             \/ Lifecycle!Skip(j) \/ Lifecycle!Complete(j)
    <3>1. j # i
      BY <2>1 DEF Lifecycle!Create, Lifecycle!Enqueue, Lifecycle!Start, Lifecycle!Skip,
                  Lifecycle!Complete
    <3>2. \E o : image' = [image EXCEPT ![j] = o]
      BY <2>1 DEF Lifecycle!Create, Lifecycle!Enqueue, Lifecycle!Start, Lifecycle!Skip,
                  Lifecycle!Complete
    <3> QED BY <3>1, <3>2
  <2>2. CASE Lifecycle!Retry(j) BY <2>2 DEF Lifecycle!Retry
  <2>3. CASE Lifecycle!Remove(j) BY <2>3 DEF Lifecycle!Remove, Lifecycle!Gone
  <2>4. CASE Lifecycle!GiveUp(j)
    <3>1. PICK n : /\ image[j].progress # PRESENT
                   /\ image' = [image EXCEPT ![j] = [progress |-> FAILED, retry |-> n]]
      BY <2>4 DEF Lifecycle!GiveUp
    <3> QED BY <3>1
  <2> QED BY <1>2, <2>1, <2>2, <2>3, <2>4 DEF Lifecycle!StatusStep
<1> QED
  BY <1>1, <1>2 DEF LifecycleStep, Lifecycle!lifecycleVars, Lifecycle!Next, Lifecycle!BackupStep

\* A status FAILED or PRESENT stays until the image itself is removed.
THEOREM FinalStays == Spec => FinalIsFinal
<1>1. TypeOK /\ LifecycleStep =>
        \A i \in Image : Progressed(i, {FAILED, PRESENT}) =>
          image'[i].progress \in {image[i].progress, Absent}
  BY FinalKept
<1> QED BY <1>1, NextSteps, TypeCorrect, LifecycleInvariant, PTL DEF Spec, FinalIsFinal

MovesOnly(i) ==
  LET old == image[i].progress
      new == image'[i].progress
  IN \/ new = old
     \/ new = Absent
     \/ old = Absent /\ new = New
     \/ <<old, new>> \in Moves

LEMMA StepMoves ==
  ASSUME TypeOK, LifecycleStep, NEW i \in Image
  PROVE  MovesOnly(i)
<1> image \in [Image -> ImageStatus] BY DEF TypeOK, ClusterTypeOK, ObjectTypeOK
<1>1. CASE UNCHANGED image BY <1>1 DEF MovesOnly
<1>2. ASSUME NEW j \in Image, Lifecycle!StatusStep(j) PROVE MovesOnly(i)
  <2>1. CASE i # j
    <3>1. \E o : image' = [image EXCEPT ![j] = o]
      BY <1>2 DEF Lifecycle!StatusStep, Lifecycle!Create, Lifecycle!Remove, Lifecycle!Enqueue,
                  Lifecycle!Start, Lifecycle!Skip, Lifecycle!Complete, Lifecycle!Retry,
                  Lifecycle!GiveUp, Lifecycle!Move
    <3> QED BY <2>1, <3>1 DEF MovesOnly
  <2>2. CASE i = j
    <3> USE <2>2 DEF MovesOnly, Moves, Lifecycle!Move, Lifecycle!To, Lifecycle!InBackup
    <3>1. CASE Lifecycle!Create(j) BY <3>1 DEF Lifecycle!Create
    <3>2. CASE Lifecycle!Remove(j) BY <3>2 DEF Lifecycle!Remove, Lifecycle!Gone
    <3>3. CASE Lifecycle!Enqueue(j) BY <3>3 DEF Lifecycle!Enqueue
    <3>4. CASE Lifecycle!Start(j) BY <3>4 DEF Lifecycle!Start
    <3>5. CASE Lifecycle!Skip(j) BY <3>5 DEF Lifecycle!Skip
    <3>6. CASE Lifecycle!Complete(j) BY <3>6 DEF Lifecycle!Complete
    <3>7. CASE Lifecycle!Retry(j) BY <3>7 DEF Lifecycle!Retry
    <3>8. CASE Lifecycle!GiveUp(j)
      <4>1. PICK n : /\ image[j].progress \in {RUNNING, RETRYING, SUCCESS, FAILED}
                     /\ image' = [image EXCEPT ![j] = [progress |-> FAILED, retry |-> n]]
        BY <3>8 DEF Lifecycle!GiveUp
      <4> QED BY <4>1
    <3> QED
      BY <1>2, <3>1, <3>2, <3>3, <3>4, <3>5, <3>6, <3>7, <3>8 DEF Lifecycle!StatusStep
  <2> QED BY <2>1, <2>2
<1> QED
  BY <1>1, <1>2 DEF LifecycleStep, Lifecycle!lifecycleVars, Lifecycle!Next, Lifecycle!BackupStep

\* The status of an image that exists changes only as Moves says, which is what the
\* controller of the exports is modelled with (ClusterImageExportReconciler).
THEOREM ImagesMove == Spec => [][\A i \in Image : MovesOnly(i)]_vars
<1>1. TypeOK /\ LifecycleInv /\ [Next]_vars => \A i \in Image : MovesOnly(i)
  BY NextSteps, StepMoves
<1> QED BY <1>1, TypeCorrect, LifecycleInvariant, PTL DEF Spec
=============================================================================

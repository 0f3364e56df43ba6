----------------- MODULE ClusterImageExportReconcilerProofs -----------------
(***************************************************************************)
(* Whatever the caches, the faults and the other controller do, the        *)
(* controller of the exports leaves no image of its list out, and an       *)
(* export is FAILED only if one of its images is, and stays so.            *)
(***************************************************************************)
EXTENDS ClusterImageExportReconciler, TLAPS

USE DEF Absent, New, PENDING, RUNNING, RETRYING, SUCCESS, FAILED, PRESENT

LEMMA AggregateIsFailed ==
  ASSUME NEW S
  PROVE  /\ Aggregate(S) \in Progress \ {Absent}
         /\ Aggregate(S) = FAILED <=> FAILED \in S
<1>1. CASE AllCompleted(S) BY <1>1 DEF Aggregate, AllCompleted, Progress
<1>2. CASE FAILED \in S
  <2>1. ~ AllCompleted(S) BY <1>2 DEF AllCompleted
  <2>2. Aggregate(S) = FAILED BY <1>2, <2>1 DEF Aggregate
  <2> QED BY <1>2, <2>2 DEF Progress
<1>3. CASE ~ AllCompleted(S) /\ FAILED \notin S
  <2>1. Aggregate(S) \in {RUNNING, PENDING} BY <1>3 DEF Aggregate
  <2> QED BY <1>3, <2>1 DEF Progress
<1> QED BY <1>1, <1>2, <1>3

-----------------------------------------------------------------------------
\* Types.

LEMMA ObjectsPut ==
  ASSUME TypeOK, NEW h \in Holder, NEW o \in Object, Put(h, o)
  PROVE  export' \in Object /\ latest' \subseteq Holder
BY DEF TypeOK, Put

LEMMA WithIsObject ==
  ASSUME TypeOK, NEW p \in Progress \ {Absent}
  PROVE  With(p) \in Object
BY DEF TypeOK, With, Object

LEMMA FaultsCounted ==
  ASSUME TypeOK, NoFault \/ \E f \in FaultKinds : Fault(f)
  PROVE  faults' \in 0 .. MaxFaults
BY ConstantsAssumption DEF TypeOK, NoFault, Fault, ConstantsAssumption

LEMMA UpdateActionTypes ==
  ASSUME TypeOK, AddFinalizer \/ SetPending \/ SetRunning \/ SetFailed \/ SetSuccess
  PROVE  TypeOK'
<1> DEFINE Added == [export EXCEPT !.finalizer = TRUE]
<1>1. Added \in Object /\ \A p \in {PENDING, RUNNING, FAILED, SUCCESS} : With(p) \in Object
  BY DEF TypeOK, Object, With, Progress
<1>2. PICK o \in Object :
        \/ UNCHANGED <<export, latest>>
        \/ Put("exportCtl", o)
  BY <1>1 DEF AddFinalizer, SetPending, SetRunning, SetFailed, SetSuccess, Finish, Update
<1>3. export' \in Object /\ latest' \subseteq Holder
  BY <1>2, ObjectsPut DEF TypeOK, Holder
<1>4. NoFault \/ \E f \in FaultKinds : Fault(f)
  BY DEF AddFinalizer, SetPending, SetRunning, SetFailed, SetSuccess, Finish, Update, FaultKinds
<1>5. UNCHANGED <<exportSeen, imageVars, report>>
  BY DEF AddFinalizer, SetPending, SetRunning, SetFailed, SetSuccess, Finish, Update
<1>6. Enter(export.progress) \in Steps \cup {"idle"} BY DEF Enter, Steps
<1>7. /\ pc' \in Steps \cup {"idle"} /\ due' \in BOOLEAN
      /\ todo' \subseteq Container \cup Additional
  BY <1>6 DEF AddFinalizer, SetPending, SetRunning, SetFailed, SetSuccess, Finish, Update, Fail,
              Return, Goto, TypeOK, Steps
<1>8. faults' \in 0 .. MaxFaults BY <1>4, FaultsCounted
<1> QED BY <1>3, <1>5, <1>7, <1>8 DEF TypeOK, imageVars

LEMMA ListInRange == FullImagesList \subseteq Container \cup Additional
BY DEF FullImagesList, ListImagesInCluster

LEMMA LoopTypes ==
  ASSUME TypeOK, NEW c \in todo, ImageFailed(c) \/ ImageExists(c) \/ CreateImage(c)
  PROVE  TypeOK'
<1>1. c \in Container \cup Additional /\ KeyOf[c] \in Key
  BY ConstantsAssumption DEF TypeOK, ConstantsAssumption
<1>2. CASE ImageFailed(c) \/ ImageExists(c)
  BY <1>2 DEF TypeOK, ImageFailed, ImageExists, Pass, Steps, exportVars, imageVars
<1>3. CASE CreateImage(c)
  <2>1. NoFault \/ \E f \in FaultKinds : Fault(f) BY <1>3 DEF CreateImage, FaultKinds
  <2>2. faults' \in 0 .. MaxFaults BY <2>1, FaultsCounted
  <2>3. image' \in [Key -> Progress] BY <1>1, <1>3 DEF CreateImage, TypeOK, Progress
  <2>4. /\ pc' \in Steps \cup {"idle"} /\ due' \in BOOLEAN
        /\ todo' \subseteq Container \cup Additional
    BY <1>3 DEF CreateImage, Return, Pass, TypeOK
  <2> QED BY <1>3, <2>2, <2>3, <2>4 DEF TypeOK, CreateImage, exportVars
<1> QED BY <1>2, <1>3

LEMMA EnvironmentTypes ==
  ASSUME TypeOK, Environment
  PROVE  TypeOK'
<1>1. CASE SyncExport
  BY <1>1 DEF SyncExport, TypeOK, imageVars, Holder
<1>2. ASSUME NEW k \in Key, SyncImage(k) PROVE TypeOK'
  BY <1>2 DEF SyncImage, TypeOK, exportVars
<1>3. ASSUME NEW k \in Key, ImageMoves(k) PROVE TypeOK'
  BY <1>3, ConstantsAssumption
     DEF ImageMoves, TypeOK, exportVars, workerVars, ConstantsAssumption
<1>4. CASE ImageCtlReads
  <2>1. report' \in Progress BY <1>4, AggregateIsFailed DEF ImageCtlReads
  <2>2. latest' \subseteq Holder BY <1>4 DEF ImageCtlReads, ReadBy, TypeOK, Holder
  <2> QED BY <1>4, <2>1, <2>2 DEF ImageCtlReads, TypeOK, imageVars, workerVars
<1>5. CASE ImageCtlWrites
  <2>1. NoFault \/ \E f \in FaultKinds : Fault(f) BY <1>5 DEF ImageCtlWrites, FaultKinds
  <2>2. faults' \in 0 .. MaxFaults BY <2>1, FaultsCounted
  <2>3. export' \in Object /\ latest' \subseteq Holder
    <3>1. With(report) \in Object BY <1>5, WithIsObject DEF ImageCtlWrites, TypeOK
    <3>2. CASE Put("imageCtl", With(report)) BY <3>1, <3>2, ObjectsPut DEF Holder
    <3>3. CASE UNCHANGED <<export, latest>> BY <3>3 DEF TypeOK
    <3> QED BY <1>5, <3>2, <3>3 DEF ImageCtlWrites
  <2> QED BY <1>5, <2>2, <2>3 DEF ImageCtlWrites, TypeOK, imageVars, workerVars, Progress
<1> QED BY <1>1, <1>2, <1>3, <1>4, <1>5 DEF Environment

LEMMA NextTypes == TypeOK /\ [Next]_vars => TypeOK'
<1> SUFFICES ASSUME TypeOK, [Next]_vars PROVE TypeOK' OBVIOUS
<1>1. CASE Reconcile
  <2>1. Enter(exportSeen.progress) \in Steps \cup {"idle"} BY DEF Enter, Steps
  <2> QED BY <1>1, <2>1 DEF Reconcile, ReadBy, TypeOK, Holder, Steps, imageVars
<1>2. CASE ListImages
  <2>1. faults' \in 0 .. MaxFaults
    BY <1>2, FaultsCounted DEF ListImages, FaultKinds
  <2> QED BY <1>2, <2>1, ListInRange
          DEF ListImages, Fail, Return, TypeOK, Steps, exportVars, imageVars
<1>3. CASE CheckImages
  BY <1>3 DEF CheckImages, Goto, Return, TypeOK, Steps, exportVars, imageVars
<1>4. CASE Step BY <1>2, <1>3, <1>4, UpdateActionTypes, LoopTypes DEF Step
<1>5. CASE Crash
  <2>1. faults' \in 0 .. MaxFaults BY <1>5, FaultsCounted DEF Crash, FaultKinds
  <2> QED BY <1>5, <2>1 DEF Crash, TypeOK, Holder, Progress
<1>6. CASE UNCHANGED vars
  BY <1>6 DEF vars, exportVars, imageVars, workerVars, TypeOK
<1> QED BY <1>1, <1>4, <1>5, <1>6, EnvironmentTypes DEF Next

\* For any containers, filters and faults, every variable keeps its type.
THEOREM ExportTypeCorrect == Spec => []TypeOK
<1>1. ASSUME Init PROVE TypeOK
  <2>1. New \in Progress \ {Absent} BY DEF Progress
  <2>2. [progress |-> New, finalizer |-> FALSE] \in Object BY <2>1 DEF Object
  <2>3. export \in Object /\ exportSeen \in Object BY <1>1, <2>2 DEF Init
  <2>4. image \in [Key -> Progress] /\ imageSeen \in [Key -> Progress]
    BY <1>1 DEF Init, Progress
  <2>5. faults = 0 /\ MaxFaults \in Nat
    BY <1>1, ConstantsAssumption DEF Init, ConstantsAssumption
  <2>6. faults \in 0 .. MaxFaults BY <2>5
  <2>7. /\ latest \subseteq Holder /\ due \in BOOLEAN /\ pc \in Steps \cup {"idle"}
        /\ todo \subseteq Container \cup Additional /\ report \in Progress
    BY <1>1 DEF Init, Holder, Progress
  <2> QED BY <2>3, <2>4, <2>6, <2>7 DEF TypeOK
<1> QED BY <1>1, NextTypes, PTL DEF Spec

-----------------------------------------------------------------------------
\* The inductive invariant.

FailedSeen == \E k \in Key : imageSeen[k] = FAILED

\* What the caches, however late, cannot show.
CacheInv ==
  /\ "cache" \in latest => exportSeen = export
  /\ exportSeen.finalizer => export.finalizer
  /\ \A k \in Key : /\ imageSeen[k] # Absent => image[k] # Absent
                    /\ imageSeen[k] = FAILED => image[k] = FAILED

\* Nobody has written, or is about to write, FAILED without a failure in the cache.
FailedInv ==
  export.progress = FAILED \/ report = FAILED \/ pc = "setFailed" => FailedSeen

FinalizerInv ==
  /\ FinalizerFirst
  /\ pc \notin {"idle", "addFinalizer"} => export.finalizer

AllThere(S) == \A c \in S : image[KeyOf[c]] # Absent

ListInv ==
  /\ pc = "setRunning" => todo = FullImagesList
  /\ pc = "createImages" => AllThere(FullImagesList \ todo)
  /\ pc = "setSuccess" => AllThere(FullImagesList)

\* What the latest version says to the controller that holds it.
HeldInv ==
  /\ pc \notin {"idle", "addFinalizer"} /\ "exportCtl" \in latest => export.progress \notin Final
  /\ report \notin {Absent, FAILED} /\ "imageCtl" \in latest => export.progress # FAILED

ExportInv == CacheInv /\ FailedInv /\ FinalizerInv /\ ListInv /\ HeldInv

\* A step that leaves the images alone.
LEMMA ListKept ==
  ASSUME UNCHANGED image, ListInv,
         \/ UNCHANGED <<pc, todo>>
         \/ pc' \notin {"setRunning", "createImages", "setSuccess"}
  PROVE  ListInv'
BY DEF ListInv, AllThere

\* An update of the export by the worker, as far as the invariant is concerned.
UpdatesTo(o) ==
  /\ UNCHANGED <<exportSeen, image, imageSeen, report>>
  /\ \/ pc' = "idle" /\ UNCHANGED <<export, latest>>
     \/ "exportCtl" \in latest /\ Put("exportCtl", o)

LEMMA UpdateInv ==
  ASSUME TypeOK, ExportInv, NEW o \in Object, UpdatesTo(o),
         export.finalizer => o.finalizer,
         o.progress = FAILED => pc = "setFailed" \/ export.progress = FAILED,
         pc' \notin {"idle", "addFinalizer"} => o.finalizer /\ o.progress \notin Final,
         pc' \notin {"setRunning", "setSuccess", "setFailed"},
         pc' = "createImages" => pc = "setRunning" /\ UNCHANGED todo,
         "exportCtl" \in latest => o.progress = export.progress \/ export.progress # FAILED
  PROVE  ExportInv'
<1> USE DEF ExportInv, UpdatesTo
<1>1. CacheInv' BY DEF CacheInv, Put
<1>2. FailedInv' BY DEF FailedInv, FailedSeen, Put
<1>3. FinalizerInv' BY DEF FinalizerInv, FinalizerFirst, Put
<1>4. ListInv'
  <2>1. CASE pc' = "createImages" BY <2>1 DEF ListInv, AllThere
  <2> QED BY <2>1, ListKept
<1>5. HeldInv' BY DEF HeldInv, Put
<1> QED BY <1>1, <1>2, <1>3, <1>4, <1>5

LEMMA UpdateActionInv ==
  ASSUME TypeOK, ExportInv, AddFinalizer \/ SetPending \/ SetRunning \/ SetFailed \/ SetSuccess
  PROVE  ExportInv'
<1> USE DEF Update, UpdatesTo, Fail, Return, Goto, imageVars
<1>1. export \in Object BY DEF TypeOK
<1>2. ASSUME NEW p \in {PENDING, RUNNING, FAILED, SUCCESS}
      PROVE  /\ With(p) \in Object
             /\ With(p).progress = p /\ With(p).finalizer = export.finalizer
  BY <1>1 DEF With, Object, Progress
<1>3. pc \notin {"idle", "addFinalizer"} =>
        export.finalizer /\ ("exportCtl" \in latest => export.progress \notin Final)
  BY DEF ExportInv, FinalizerInv, HeldInv
<1>4. CASE AddFinalizer
  <2> DEFINE o == [export EXCEPT !.finalizer = TRUE]
  <2>1. o \in Object /\ o.progress = export.progress /\ o.finalizer BY <1>1 DEF Object
  <2>2. pc' \in {"idle", "setPending", "listImages"} BY <1>4 DEF AddFinalizer, Enter
  <2>3. pc' \in {"idle", Enter(export.progress)} BY <1>4 DEF AddFinalizer
  <2>4. pc' # "idle" => export.progress \notin Final BY <2>3 DEF Enter, Final
  <2>5. UpdatesTo(o) BY <1>4 DEF AddFinalizer
  <2> QED BY <2>1, <2>2, <2>4, <2>5, UpdateInv
<1>5. CASE SetPending
  <2>1. UpdatesTo(With(PENDING)) /\ pc = "setPending" /\ pc' \in {"idle", "listImages"}
    BY <1>5 DEF SetPending
  <2> QED BY <1>2, <1>3, <2>1, UpdateInv DEF Final
<1>6. CASE SetRunning
  <2>1. UpdatesTo(With(RUNNING)) /\ pc = "setRunning" /\ pc' \in {"idle", "createImages"}
    BY <1>6 DEF SetRunning
  <2>2. pc' = "createImages" => UNCHANGED todo BY <1>6 DEF SetRunning
  <2> QED BY <1>2, <1>3, <2>1, <2>2, UpdateInv DEF Final
<1>7. CASE SetFailed
  <2>1. UpdatesTo(With(FAILED)) /\ pc = "setFailed" /\ pc' = "idle"
    BY <1>7 DEF SetFailed, Finish
  <2> QED BY <1>2, <1>3, <2>1, UpdateInv DEF Final
<1>8. CASE SetSuccess
  <2>1. UpdatesTo(With(SUCCESS)) /\ pc = "setSuccess" /\ pc' = "idle"
    BY <1>8 DEF SetSuccess, Finish
  <2> QED BY <1>2, <1>3, <2>1, UpdateInv DEF Final
<1> QED BY <1>4, <1>5, <1>6, <1>7, <1>8

LEMMA LoopInv ==
  ASSUME TypeOK, ExportInv, NEW c \in todo, ImageFailed(c) \/ ImageExists(c) \/ CreateImage(c)
  PROVE  ExportInv'
<1> USE DEF ExportInv
<1> DEFINE k == KeyOf[c]
<1>1. c \in Container \cup Additional /\ k \in Key
  BY ConstantsAssumption DEF TypeOK, ConstantsAssumption
<1>2. pc = "createImages" /\ UNCHANGED <<exportVars, imageSeen, report>>
  BY DEF ImageFailed, ImageExists, CreateImage, At, imageVars
<1>3. \A d \in FullImagesList : KeyOf[d] \in Key
  BY ListInRange, ConstantsAssumption DEF ConstantsAssumption
<1>4. image \in [Key -> Progress] BY DEF TypeOK
<1>5. /\ image' = image \/ (image[k] = Absent /\ image' = [image EXCEPT ![k] = New])
      /\ (pc' = "setFailed" /\ imageSeen[k] = FAILED) \/ pc' \in {"idle", "createImages"}
  <2>1. CASE ImageFailed(c) BY <2>1 DEF ImageFailed, imageVars
  <2>2. CASE ImageExists(c) BY <1>2, <2>2 DEF ImageExists, Pass, imageVars
  <2>3. CASE CreateImage(c) BY <1>2, <2>3 DEF CreateImage, Return, Pass
  <2> QED BY <2>1, <2>2, <2>3
<1>6. ASSUME NEW j \in Key
      PROVE  /\ image[j] # Absent => image'[j] = image[j]
             /\ image'[j] = FAILED => image[j] = FAILED
  BY <1>1, <1>4, <1>5
<1>7. CacheInv' BY <1>2, <1>6 DEF CacheInv, exportVars
<1>8. FailedInv' BY <1>1, <1>2, <1>5 DEF FailedInv, FailedSeen, exportVars
<1>9. FinalizerInv' BY <1>2 DEF FinalizerInv, FinalizerFirst, exportVars
<1>10. ListInv'
  <2>1. CASE pc' # "createImages"
    BY <1>5, <2>1 DEF ListInv
  <2>2. CASE pc' = "createImages"
    <3>1. todo' = todo \ {c} /\ image'[k] # Absent
      BY <1>1, <1>2, <1>4, <2>2
         DEF ImageFailed, ImageExists, CreateImage, At, Return, Pass, CacheInv, imageVars
    <3>2. \A d \in FullImagesList \ todo : image'[KeyOf[d]] # Absent
      BY <1>2, <1>3, <1>6 DEF ListInv, AllThere
    <3> QED BY <2>2, <3>1, <3>2 DEF ListInv, AllThere
  <2> QED BY <2>1, <2>2
<1>11. HeldInv' BY <1>2, <1>5 DEF HeldInv, exportVars
<1> QED BY <1>7, <1>8, <1>9, <1>10, <1>11

LEMMA EnvironmentInv ==
  ASSUME TypeOK, ExportInv, Environment
  PROVE  ExportInv'
<1> USE DEF ExportInv
<1>1. CASE SyncExport
  <2>1. CacheInv' BY <1>1 DEF SyncExport, CacheInv, imageVars
  <2>2. FailedInv' /\ FinalizerInv'
    BY <1>1 DEF SyncExport, FailedInv, FailedSeen, FinalizerInv, FinalizerFirst, imageVars
  <2>3. ListInv' BY <1>1, ListKept DEF SyncExport, imageVars
  <2>4. HeldInv' BY <1>1 DEF SyncExport, HeldInv
  <2> QED BY <2>1, <2>2, <2>3, <2>4
<1>2. ASSUME NEW k \in Key, SyncImage(k) PROVE ExportInv'
  <2>1. imageSeen \in [Key -> Progress] BY DEF TypeOK
  <2>2. \A j \in Key : imageSeen'[j] = imageSeen[j] \/ imageSeen'[j] = image[j]
    BY <1>2, <2>1 DEF SyncImage
  <2>3. \A j \in Key : imageSeen[j] = FAILED => imageSeen'[j] = FAILED
    BY <2>2 DEF CacheInv
  <2>4. CacheInv' BY <1>2, <2>2 DEF SyncImage, CacheInv, exportVars
  <2>5. FailedInv' BY <1>2, <2>3 DEF SyncImage, FailedInv, FailedSeen, exportVars
  <2>6. FinalizerInv' BY <1>2 DEF SyncImage, FinalizerInv, FinalizerFirst, exportVars
  <2>7. ListInv' BY <1>2, ListKept DEF SyncImage
  <2>8. HeldInv' BY <1>2 DEF SyncImage, HeldInv, exportVars
  <2> QED BY <2>4, <2>5, <2>6, <2>7, <2>8
<1>3. ASSUME NEW k \in Key, ImageMoves(k) PROVE ExportInv'
  <2>1. image \in [Key -> Progress] BY DEF TypeOK
  <2>2. PICK p : <<image[k], p>> \in Moves /\ image' = [image EXCEPT ![k] = p]
    BY <1>3 DEF ImageMoves
  <2>3. image[k] \notin {Absent, FAILED} /\ p # Absent BY <2>2 DEF Moves
  <2>4. \A j \in Key : /\ image[j] # Absent <=> image'[j] # Absent
                       /\ image[j] = FAILED => image'[j] = FAILED
    BY <2>1, <2>2, <2>3
  <2>5. CacheInv' BY <1>3, <2>4 DEF ImageMoves, CacheInv, exportVars
  <2>6. FailedInv' /\ HeldInv'
    BY <1>3 DEF ImageMoves, FailedInv, FailedSeen, HeldInv, exportVars, workerVars
  <2>7. FinalizerInv'
    BY <1>3, <2>4 DEF ImageMoves, FinalizerInv, FinalizerFirst, exportVars, workerVars
  <2>8. \A c \in FullImagesList : KeyOf[c] \in Key
    BY ListInRange, ConstantsAssumption DEF ConstantsAssumption
  <2>9. ListInv' BY <1>3, <2>4, <2>8 DEF ImageMoves, ListInv, AllThere, workerVars
  <2> QED BY <2>5, <2>6, <2>7, <2>9
<1>4. CASE ImageCtlReads
  <2> USE <1>4 DEF ImageCtlReads, ReadBy
  <2>1. report' = FAILED <=> FailedSeen
    BY AggregateIsFailed DEF SeenStatuses, FailedSeen
  <2>2. CacheInv' BY DEF CacheInv, imageVars
  <2>3. FailedInv' BY <2>1 DEF FailedInv, FailedSeen, imageVars, workerVars
  <2>4. FinalizerInv' BY DEF FinalizerInv, FinalizerFirst, imageVars, workerVars
  <2>5. ListInv' BY ListKept DEF imageVars, workerVars
  <2>6. "imageCtl" \in latest' => exportSeen = export BY DEF CacheInv
  <2>7. export.progress = FAILED => report' = FAILED BY <2>1 DEF FailedInv
  <2>8. HeldInv' BY <2>7 DEF HeldInv, workerVars
  <2> QED BY <2>2, <2>3, <2>4, <2>5, <2>8
<1>5. CASE ImageCtlWrites
  <2> USE <1>5 DEF ImageCtlWrites, Put
  <2>1. \/ UNCHANGED <<export, latest>>
        \/ export' = With(report) /\ latest' \in {latest, {"imageCtl"}}
    OBVIOUS
  <2>2. export \in Object BY DEF TypeOK
  <2>3. With(report).progress = report /\ With(report).finalizer = export.finalizer
    BY <2>2 DEF With, Object
  <2>4. CacheInv' BY <2>3 DEF CacheInv, imageVars
  <2>5. FailedInv' BY <2>1, <2>3 DEF FailedInv, FailedSeen, imageVars, workerVars
  <2>6. FinalizerInv' BY <2>1, <2>3 DEF FinalizerInv, FinalizerFirst, imageVars, workerVars
  <2>7. ListInv' BY ListKept DEF imageVars, workerVars
  <2>8. HeldInv' BY <2>3 DEF HeldInv, workerVars
  <2> QED BY <2>4, <2>5, <2>6, <2>7, <2>8
<1> QED BY <1>1, <1>2, <1>3, <1>4, <1>5 DEF Environment

LEMMA NextInv == TypeOK /\ ExportInv /\ [Next]_vars => ExportInv'
<1> SUFFICES ASSUME TypeOK, ExportInv, [Next]_vars PROVE ExportInv' OBVIOUS
<1> USE DEF ExportInv
<1>1. CASE Reconcile
  <2> USE <1>1 DEF Reconcile, ReadBy
  <2>1. pc' \in {"idle", "addFinalizer", "setPending", "listImages"} BY DEF Enter, Final
  <2>2. pc' \notin {"idle", "addFinalizer"} =>
          exportSeen.finalizer /\ exportSeen.progress \notin Final
    BY DEF Enter, Final
  <2>3. CacheInv' BY DEF CacheInv, imageVars
  <2>4. FailedInv' BY <2>1 DEF FailedInv, FailedSeen, imageVars
  <2>5. FinalizerInv' BY <2>2 DEF FinalizerInv, FinalizerFirst, CacheInv, imageVars
  <2>6. ListInv' BY <2>1, ListKept DEF imageVars
  <2>7. HeldInv' BY <2>2 DEF HeldInv, CacheInv
  <2> QED BY <2>3, <2>4, <2>5, <2>6, <2>7
<1>2. CASE ListImages
  <2> USE <1>2 DEF ListImages, Fail, Return, exportVars, imageVars
  <2>1. CacheInv' BY DEF CacheInv
  <2>2. FailedInv' BY DEF FailedInv, FailedSeen
  <2>3. FinalizerInv' BY DEF FinalizerInv, FinalizerFirst
  <2>4. ListInv' BY DEF ListInv
  <2>5. HeldInv' BY DEF HeldInv
  <2> QED BY <2>1, <2>2, <2>3, <2>4, <2>5
<1>3. CASE CheckImages
  <2> USE <1>3 DEF CheckImages, Goto, Return, exportVars, imageVars
  <2>1. CacheInv' BY DEF CacheInv
  <2>2. FailedInv' BY DEF FailedInv, FailedSeen
  <2>3. FinalizerInv' BY DEF FinalizerInv, FinalizerFirst
  <2>4. ListInv' BY DEF ListInv, AllThere
  <2>5. HeldInv' BY DEF HeldInv
  <2> QED BY <2>1, <2>2, <2>3, <2>4, <2>5
<1>4. CASE Step BY <1>2, <1>3, <1>4, UpdateActionInv, LoopInv DEF Step
<1>5. CASE Crash
  <2> USE <1>5 DEF Crash
  <2>1. CacheInv' BY DEF CacheInv
  <2>2. FailedInv' BY DEF FailedInv, FailedSeen, CacheInv
  <2>3. FinalizerInv' BY DEF FinalizerInv, FinalizerFirst
  <2>4. ListInv' /\ HeldInv' BY DEF ListInv, HeldInv
  <2> QED BY <2>1, <2>2, <2>3, <2>4
<1>6. CASE UNCHANGED vars
  BY <1>6 DEF vars, exportVars, imageVars, workerVars, CacheInv, FailedInv, FailedSeen,
              FinalizerInv, FinalizerFirst, ListInv, AllThere, HeldInv
<1> QED BY <1>1, <1>4, <1>5, <1>6, EnvironmentInv DEF Next

THEOREM ExportInvariant == Spec => []ExportInv
<1>1. ASSUME Init PROVE ExportInv
  <2> USE <1>1 DEF Init
  <2>1. CacheInv /\ FailedInv BY DEF CacheInv, FailedInv
  <2>2. FinalizerInv BY DEF FinalizerInv, FinalizerFirst
  <2>3. ListInv /\ HeldInv BY DEF ListInv, HeldInv
  <2> QED BY <2>1, <2>2, <2>3 DEF ExportInv
<1> QED BY <1>1, NextInv, ExportTypeCorrect, PTL DEF Spec

-----------------------------------------------------------------------------
\* What follows from it.

\* An export is FAILED only if one of its images is, whichever controller wrote it and
\* however old what it had read was.
THEOREM ExportFailsWithImage == Spec => []FailedExportHasFailedImage
<1>1. ExportInv => FailedExportHasFailedImage
  BY DEF ExportInv, FailedInv, FailedSeen, CacheInv, FailedExportHasFailedImage
<1> QED BY <1>1, ExportInvariant, PTL

\* No image is created before its export has the finalizer.
THEOREM FinalizerComesFirst == Spec => []FinalizerFirst
<1>1. ExportInv => FinalizerFirst BY DEF ExportInv, FinalizerInv
<1> QED BY <1>1, ExportInvariant, PTL

\* When Reconcile asks whether all images are done, each image of the list exists.
THEOREM ListIsComplete == Spec => []NoneLeftOut
<1>1. ExportInv => NoneLeftOut BY DEF ExportInv, ListInv, AllThere, NoneLeftOut
<1> QED BY <1>1, ExportInvariant, PTL

LEMMA FailedKept ==
  ASSUME TypeOK, ExportInv, [Next]_vars, export.progress = FAILED
  PROVE  export'.progress = FAILED
<1> USE DEF ExportInv, HeldInv, Put
<1>1. export \in Object BY DEF TypeOK
<1>2. CASE AddFinalizer BY <1>1, <1>2 DEF AddFinalizer, Update, Object
<1>3. CASE SetPending \/ SetRunning \/ SetFailed \/ SetSuccess
  BY <1>3 DEF SetPending, SetRunning, SetFailed, SetSuccess, Finish, Update, Final
<1>4. CASE ImageCtlWrites
  BY <1>1, <1>4 DEF ImageCtlWrites, With, Object
<1>5. CASE ListImages \/ CheckImages \/ Reconcile \/ Crash
  BY <1>5 DEF ListImages, CheckImages, Reconcile, Crash, exportVars
<1>6. ASSUME NEW c \in todo, ImageFailed(c) \/ ImageExists(c) \/ CreateImage(c)
      PROVE  export' = export
  BY <1>6 DEF ImageFailed, ImageExists, CreateImage, exportVars
<1>7. ASSUME NEW k \in Key, SyncImage(k) \/ ImageMoves(k) PROVE export' = export
  BY <1>7 DEF SyncImage, ImageMoves, exportVars
<1>8. CASE SyncExport \/ ImageCtlReads \/ UNCHANGED vars
  BY <1>8 DEF SyncExport, ImageCtlReads, vars, exportVars
<1> QED BY <1>2, <1>3, <1>4, <1>5, <1>6, <1>7, <1>8 DEF Next, Step, Environment

\* FAILED is final: no controller writes over it with what it has read before.
THEOREM FailedIsFinal == Spec => FailedStays
<1>1. TypeOK /\ ExportInv /\ [Next]_vars =>
        (export.progress = FAILED => export'.progress = FAILED)
  BY FailedKept
<1> QED BY <1>1, ExportTypeCorrect, ExportInvariant, PTL DEF Spec, FailedStays

-----------------------------------------------------------------------------
\* The controller implements ExportLifecycle.

SomeImage == \E k \in Key : image[k] # Absent

\* An export that is worked on, or has images, has had a status before, and never
\* loses it, not even to what is read from a late cache.
AcceptedInv ==
  /\ exportSeen.progress # New => export.progress # New
  /\ pc \notin {"idle", "addFinalizer", "setPending"} => export.progress # New
  /\ SomeImage => export.progress # New
  /\ report # Absent => SomeImage /\ report \in {PENDING, RUNNING, SUCCESS, FAILED}

LEMMA AggregateRange == ASSUME NEW S PROVE Aggregate(S) \in {PENDING, RUNNING, SUCCESS, FAILED}
BY DEF Aggregate, AllCompleted

\* What the updates of the export leave of its status.
LEMMA ProgressPut ==
  ASSUME export \in Object, NEW p \in Progress
  PROVE  /\ With(p).progress = p /\ With(p).finalizer = export.finalizer
         /\ [export EXCEPT !.finalizer = TRUE].progress = export.progress
BY DEF With, Object

LEMMA UpdateAccepted ==
  ASSUME TypeOK, AcceptedInv, AddFinalizer \/ SetPending \/ SetRunning \/ SetFailed \/ SetSuccess
  PROVE  AcceptedInv'
<1> USE DEF Update, Put, Fail, Return, Goto, imageVars, AcceptedInv, SomeImage
<1>1. export \in Object BY DEF TypeOK
<1>2. \A p \in {PENDING, RUNNING, FAILED, SUCCESS} : With(p).progress = p
  BY <1>1, ProgressPut DEF Progress
<1>3. CASE AddFinalizer
  <2>1. export'.progress = export.progress BY <1>1, <1>3, ProgressPut DEF AddFinalizer, Progress
  <2>2. pc' \in {"idle", Enter(export.progress)} BY <1>3 DEF AddFinalizer
  <2>3. pc' \notin {"idle", "setPending"} => export.progress # New
    BY <2>2 DEF Enter
  <2> QED BY <1>3, <2>1, <2>3 DEF AddFinalizer
<1>4. CASE SetPending \/ SetRunning \/ SetFailed \/ SetSuccess
  <2>1. /\ UNCHANGED <<exportSeen, image, report>>
        /\ \/ pc' = "idle" /\ export' = export
           \/ \E p \in {PENDING, RUNNING, FAILED, SUCCESS} : export' = With(p)
    BY <1>4 DEF SetPending, SetRunning, SetFailed, SetSuccess, Finish
  <2> QED BY <1>2, <2>1
<1> QED BY <1>3, <1>4

LEMMA NextAccepted == TypeOK /\ ExportInv /\ AcceptedInv /\ [Next]_vars => AcceptedInv'
<1> SUFFICES ASSUME TypeOK, ExportInv, AcceptedInv, [Next]_vars PROVE AcceptedInv' OBVIOUS
<1> USE DEF AcceptedInv, SomeImage, exportVars, imageVars, workerVars
<1>1. export \in Object /\ image \in [Key -> Progress] BY DEF TypeOK
<1>2. CASE Reconcile
  <2>1. pc' \notin {"idle", "addFinalizer", "setPending"} => exportSeen.progress # New
    BY <1>2 DEF Reconcile, Enter
  <2> QED BY <1>2, <2>1 DEF Reconcile
<1>3. CASE ListImages \/ CheckImages
  BY <1>3 DEF ListImages, CheckImages, Goto, Fail, Return
<1>4. ASSUME NEW c \in todo, ImageFailed(c) \/ ImageExists(c) \/ CreateImage(c)
      PROVE  AcceptedInv'
  <2>1. pc = "createImages" /\ UNCHANGED <<export, exportSeen, report>>
    BY <1>4 DEF ImageFailed, ImageExists, CreateImage, At
  <2>2. \/ image' = image
        \/ image[KeyOf[c]] = Absent /\ image' = [image EXCEPT ![KeyOf[c]] = New]
    BY <1>4 DEF ImageFailed, ImageExists, CreateImage
  <2>3. SomeImage => SomeImage' BY <1>1, <2>2
  <2> QED BY <2>1, <2>3
<1>5. CASE Crash BY <1>5 DEF Crash
<1>6. CASE SyncExport BY <1>6 DEF SyncExport
<1>7. ASSUME NEW k \in Key, SyncImage(k) PROVE AcceptedInv' BY <1>7 DEF SyncImage
<1>8. ASSUME NEW k \in Key, ImageMoves(k) PROVE AcceptedInv'
  <2>1. PICK p : <<image[k], p>> \in Moves /\ image' = [image EXCEPT ![k] = p]
    BY <1>8 DEF ImageMoves
  <2>2. image[k] # Absent /\ p # Absent BY <2>1 DEF Moves
  <2>3. SomeImage' <=> SomeImage BY <1>1, <2>1, <2>2
  <2> QED BY <1>8, <2>3 DEF ImageMoves
<1>9. CASE ImageCtlReads
  <2>1. report' \in {PENDING, RUNNING, SUCCESS, FAILED} BY <1>9, AggregateRange DEF ImageCtlReads
  <2>2. SomeImage BY <1>9 DEF ImageCtlReads, ExportInv, CacheInv
  <2> QED BY <1>9, <2>1, <2>2 DEF ImageCtlReads
<1>10. CASE ImageCtlWrites
  <2>1. With(report).progress = report BY <1>1, ProgressPut DEF TypeOK
  <2> QED BY <1>10, <2>1 DEF ImageCtlWrites, Put
<1>11. CASE UNCHANGED vars BY <1>11 DEF vars
<1> QED
  BY <1>2, <1>3, <1>4, <1>5, <1>6, <1>7, <1>8, <1>9, <1>10, <1>11, UpdateAccepted
     DEF Next, Step, Environment

LifecycleStep == [Lifecycle!Next]_(Lifecycle!lifecycleVars)

\* The instance has the statuses of its own copy of Statuses.
LEMMA SameStatuses ==
  /\ Lifecycle!Absent = Absent /\ Lifecycle!New = New /\ Lifecycle!PENDING = PENDING
  /\ Lifecycle!RUNNING = RUNNING /\ Lifecycle!SUCCESS = SUCCESS /\ Lifecycle!FAILED = FAILED
  /\ Lifecycle!Progress = Progress /\ Lifecycle!Moves = Moves
BY DEF Absent, New, PENDING, RUNNING, RETRYING, SUCCESS, FAILED, PRESENT, Progress, Moves,
       Lifecycle!Absent, Lifecycle!New, Lifecycle!PENDING, Lifecycle!RUNNING,
       Lifecycle!RETRYING, Lifecycle!SUCCESS, Lifecycle!FAILED, Lifecycle!PRESENT,
       Lifecycle!Progress, Lifecycle!Moves

LEMMA StutterSteps == UNCHANGED <<export, image>> => LifecycleStep
BY DEF LifecycleStep, Lifecycle!lifecycleVars

\* A status that the API server stores.
LEMMA StatusSteps ==
  ASSUME TypeOK, image' = image, export.finalizer,
         NEW p \in {PENDING, RUNNING, SUCCESS, FAILED}, export' = With(p),
         export.progress = FAILED => p = FAILED,
         export.progress = New => p = PENDING,
         p = FAILED => \E k \in Key : image[k] = FAILED
  PROVE  LifecycleStep
<1> USE DEF LifecycleStep, Lifecycle!Next, Lifecycle!Accepted, With
<1>1. CASE export.progress = New
  <2>1. export = [progress |-> New, finalizer |-> TRUE] BY <1>1 DEF TypeOK, Object
  <2> QED BY <1>1, <2>1, SameStatuses DEF Lifecycle!Accept
<1>2. CASE export.progress # New /\ p = FAILED BY <1>2, SameStatuses DEF Lifecycle!GiveUp
<1>3. CASE export.progress # New /\ p # FAILED BY <1>3, SameStatuses DEF Lifecycle!Report
<1> QED BY <1>1, <1>2, <1>3

LEMMA UpdateSteps ==
  ASSUME TypeOK, ExportInv, AcceptedInv,
         AddFinalizer \/ SetPending \/ SetRunning \/ SetFailed \/ SetSuccess
  PROVE  LifecycleStep
<1> USE DEF Update, Put, imageVars
<1>1. CASE AddFinalizer
  <2>1. \/ UNCHANGED <<export, image>>
        \/ export' = [export EXCEPT !.finalizer = TRUE] /\ UNCHANGED image
    BY <1>1 DEF AddFinalizer
  <2> QED BY <2>1, StutterSteps DEF LifecycleStep, Lifecycle!Next, Lifecycle!Protect
<1>2. CASE SetPending \/ SetRunning \/ SetFailed \/ SetSuccess
  <2>1. CASE UNCHANGED <<export, image>> BY <2>1, StutterSteps
  <2>2. CASE ~ UNCHANGED <<export, image>>
    <3>1. PICK p \in {PENDING, RUNNING, SUCCESS, FAILED} :
            /\ export' = With(p) /\ image' = image
            /\ p = FAILED => pc = "setFailed"
            /\ pc = "setPending" => p = PENDING
            /\ "exportCtl" \in latest
            /\ pc \notin {"idle", "addFinalizer"}
      BY <1>2, <2>2 DEF SetPending, SetRunning, SetFailed, SetSuccess, Finish
    <3>2. export.finalizer /\ export.progress \notin Final
      BY <3>1 DEF ExportInv, FinalizerInv, HeldInv
    <3>3. export.progress = New => p = PENDING BY <3>1 DEF AcceptedInv
    <3>4. p = FAILED => \E k \in Key : image[k] = FAILED
      BY <3>1 DEF ExportInv, FailedInv, FailedSeen, CacheInv
    <3> QED BY <3>1, <3>2, <3>3, <3>4, StatusSteps DEF Final
  <2> QED BY <2>1, <2>2
<1> QED BY <1>1, <1>2

LEMMA ImageCtlWritesSteps ==
  ASSUME TypeOK, ExportInv, AcceptedInv, ImageCtlWrites
  PROVE  LifecycleStep
<1> USE DEF ImageCtlWrites, Put, imageVars
<1>1. CASE UNCHANGED <<export, image>> BY <1>1, StutterSteps
<1>2. CASE ~ UNCHANGED <<export, image>>
  <2>1. /\ export' = With(report) /\ image' = image
        /\ "imageCtl" \in latest /\ report # Absent
    BY <1>2
  <2>2. export.finalizer /\ export.progress # New
    BY <2>1 DEF AcceptedInv, SomeImage, ExportInv, FinalizerInv, FinalizerFirst
  <2>3. report = FAILED => \E k \in Key : image[k] = FAILED
    BY DEF ExportInv, FailedInv, FailedSeen, CacheInv
  <2>4. export.progress = FAILED => report = FAILED BY <2>1 DEF ExportInv, HeldInv
  <2>5. report \in {PENDING, RUNNING, SUCCESS, FAILED} BY <2>1 DEF AcceptedInv
  <2> QED BY <2>1, <2>2, <2>3, <2>4, <2>5, StatusSteps
<1> QED BY <1>1, <1>2

LEMMA NextSteps == TypeOK /\ ExportInv /\ AcceptedInv /\ [Next]_vars => LifecycleStep
<1> SUFFICES ASSUME TypeOK, ExportInv, AcceptedInv, [Next]_vars PROVE LifecycleStep OBVIOUS
<1> USE DEF exportVars, imageVars, workerVars
<1>1. CASE Reconcile \/ ListImages \/ CheckImages \/ Crash \/ UNCHANGED vars
  BY <1>1, StutterSteps DEF Reconcile, ListImages, CheckImages, Crash, vars
<1>2. CASE SyncExport \/ ImageCtlReads BY <1>2, StutterSteps DEF SyncExport, ImageCtlReads
<1>3. ASSUME NEW c \in todo, ImageFailed(c) \/ ImageExists(c) \/ CreateImage(c)
      PROVE  LifecycleStep
  <2>1. CASE UNCHANGED <<export, image>> BY <2>1, StutterSteps
  <2>2. CASE ~ UNCHANGED <<export, image>>
    <3>1. /\ pc = "createImages" /\ export' = export
          /\ image[KeyOf[c]] = Absent /\ image' = [image EXCEPT ![KeyOf[c]] = New]
      BY <1>3, <2>2 DEF ImageFailed, ImageExists, CreateImage, At
    <3>2. KeyOf[c] \in Key BY ConstantsAssumption DEF TypeOK, ConstantsAssumption
    <3>3. export.finalizer /\ export.progress # New
      BY <3>1 DEF ExportInv, FinalizerInv, AcceptedInv
    <3>4. Lifecycle!Create(KeyOf[c])
      BY <3>1, <3>3, SameStatuses DEF Lifecycle!Create, Lifecycle!Accepted
    <3> QED BY <3>2, <3>4 DEF LifecycleStep, Lifecycle!Next
  <2> QED BY <2>1, <2>2
<1>4. ASSUME NEW k \in Key, SyncImage(k) PROVE LifecycleStep BY <1>4, StutterSteps DEF SyncImage
<1>5. ASSUME NEW k \in Key, ImageMoves(k) PROVE LifecycleStep
  <2>1. PICK p \in ImageStatuses : <<image[k], p>> \in Moves /\ image' = [image EXCEPT ![k] = p]
    BY <1>5 DEF ImageMoves
  <2>2. p \in Progress BY <2>1, ConstantsAssumption DEF ConstantsAssumption
  <2>3. Lifecycle!Advance(k) BY <1>5, <2>1, <2>2, SameStatuses DEF ImageMoves, Lifecycle!Advance
  <2> QED BY <2>3 DEF LifecycleStep, Lifecycle!Next
<1> QED
  BY <1>1, <1>2, <1>3, <1>4, <1>5, UpdateSteps, ImageCtlWritesSteps DEF Next, Step, Environment

\* The two controllers together implement ExportLifecycle, whatever they have read and
\* whatever fails.
THEOREM ImplementsExportLifecycle == Spec => FollowsLifecycle
<1>1. Init => Lifecycle!Init /\ AcceptedInv
  BY SameStatuses DEF Init, Lifecycle!Init, AcceptedInv, SomeImage
<1>2. TypeOK /\ ExportInv /\ AcceptedInv /\ [Next]_vars => [Lifecycle!Next]_(Lifecycle!lifecycleVars)
  BY NextSteps DEF LifecycleStep
<1> QED
  BY <1>1, <1>2, NextAccepted, ExportTypeCorrect, ExportInvariant, PTL
     DEF Spec, FollowsLifecycle, Lifecycle!Spec
=============================================================================

-------------------- MODULE ClusterImageExportReconciler --------------------
(***************************************************************************)
(* The controller of the ClusterImageExports                               *)
(* (internal/controller/raczylo.com/clusterimageexport_controller.go), for *)
(* one export that is not being deleted: it lists the images in use,       *)
(* creates a ClusterImage for each of them and reports when they are done. *)
(* A step is one call to the API server with the cached reads before it;   *)
(* pc names the call the worker is about to make.                          *)
(*                                                                         *)
(* The controller of the ClusterImages is its environment: it takes every  *)
(* image through the statuses of ImageLifecycle, and writes the status of  *)
(* the export from an aggregation of its own.                              *)
(***************************************************************************)
EXTENDS Naturals, Statuses

CONSTANTS
  Container,           \* the containers of the cluster (see ResourceListing)
  NamespaceOf,         \* the namespace of each
  Matching,            \* <<c, p>>: pattern p occurs in the image of container c
  Includes, Excludes,             \* Spec.Includes and Excludes, patterns
  Namespaces, ExcludedNamespaces, \* Spec.Namespaces and ExcludedNamespaces
  Additional,          \* Spec.AdditionalImages, those that can be parsed
  Key,                 \* names of ClusterImages
  KeyOf,               \* nameHash of each container and additional image
  ImageStatuses,       \* bound: the statuses that images take
  Faults,              \* the faults that the environment may produce
  MaxFaults            \* bound: how many of them, late caches not counted

FaultKinds ==
  { "staleObjects",   \* the caches lag behind
    "apiErrors",      \* a write fails and has no effect
    "lostReplies",    \* a write takes effect and the caller gets an error
    "crashes",        \* the operator's process dies and starts again
    "badNames" }      \* a workload somewhere has a name that cannot be parsed

ASSUME ConstantsAssumption ==
  /\ KeyOf \in [Container \cup Additional -> Key]
  /\ Container \cap Additional = {}
  /\ ImageStatuses \subseteq Progress \ {Absent}
  /\ Faults \subseteq FaultKinds
  /\ MaxFaults \in Nat

VARIABLES
  export,      \* status and finalizer of the export
  exportSeen,  \* the cache's copy of it
  latest,      \* who holds the latest version of the export
  image,       \* status of each ClusterImage
  imageSeen,   \* the cache's copy of it
  due,         \* the export is in the work queue
  pc,          \* where the worker is in Reconcile
  todo,        \* fullImagesList, as far as the loop has not come
  report,      \* the status the other controller is about to write, if any
  faults       \* history: the number of faults

exportVars == <<export, exportSeen, latest>>
imageVars  == <<image, imageSeen>>
workerVars == <<due, pc, todo>>
vars == <<exportVars, imageVars, workerVars, report, faults>>

Holder == {"cache", "exportCtl", "imageCtl"}
Steps == { "addFinalizer", "setPending", "listImages", "setRunning",
           "createImages", "setFailed", "setSuccess" }
Object == [progress : Progress \ {Absent}, finalizer : BOOLEAN]

Init ==
  /\ export = [progress |-> New, finalizer |-> FALSE]
  /\ exportSeen = export
  /\ latest = {"cache"}
  /\ image = [k \in Key |-> Absent]
  /\ imageSeen = image
  /\ due = TRUE
  /\ pc = "idle"
  /\ todo = {}
  /\ report = Absent
  /\ faults = 0

-----------------------------------------------------------------------------
\* The filters of listImagesInCluster. A list is the set of its elements: the
\* goroutines that make it leave its order open, and RemoveDuplicates follows.

Included(c) == \E p \in Includes : <<c, p>> \in Matching

\* Mutant: an image is excluded only if all patterns match.
Excluded_All(c) == Excludes # {} /\ \A p \in Excludes : <<c, p>> \in Matching

Excluded(c) == \E p \in Excludes : <<c, p>> \in Matching

InNamespaces(c) == NamespaceOf[c] \in Namespaces
InExcludedNamespace(c) == NamespaceOf[c] \in ExcludedNamespaces

ListImagesInCluster ==
  {c \in Container : /\ Includes # {} => Included(c)
                     /\ ~ Excluded(c)
                     /\ Namespaces # {} => InNamespaces(c)
                     /\ ~ InExcludedNamespace(c)}

\* Additional images are not filtered.
FullImagesList == ListImagesInCluster \cup Additional

-----------------------------------------------------------------------------
\* What the steps are made of.

Fault(f) == f \in Faults /\ faults < MaxFaults /\ faults' = faults + 1
NoFault == UNCHANGED faults

\* A read finds the latest version, or caches may lag.
ReadsExport == "cache" \in latest \/ "staleObjects" \in Faults
ReadsImages(K) == (\A k \in K : imageSeen[k] = image[k]) \/ "staleObjects" \in Faults

\* A copy that has just been read is as fresh as the cache's.
ReadBy(h) == IF "cache" \in latest THEN latest \cup {h} ELSE latest \ {h}

\* An update by holder h; one that changes nothing makes no new version.
Put(h, o) ==
  /\ export' = o
  /\ latest' = IF o = export THEN latest ELSE {h}

Goto(step) == pc' = step /\ UNCHANGED <<due, todo>>

Return(again) ==
  /\ pc' = "idle"
  /\ todo' = {}
  /\ due' = (due \/ again)

\* Reconcile returns an error.
Fail == Return(TRUE)

\* Mutant: the API server does not compare the version.
Update_Overwrites(o, Then) ==
  /\ Put("exportCtl", o) /\ Then
  /\ UNCHANGED <<exportSeen, imageVars, report, faults>>

\* Update or Status().Update of the export by the worker: accepted, refused (a
\* conflict or an API error), or accepted and the reply lost.
Update(o, Then) ==
  /\ \/ /\ "exportCtl" \in latest
        /\ Put("exportCtl", o)
        /\ Then /\ NoFault
     \/ /\ ("exportCtl" \notin latest /\ NoFault) \/ Fault("apiErrors")
        /\ UNCHANGED <<export, latest>>
        /\ Fail
     \/ /\ "exportCtl" \in latest
        /\ Fault("lostReplies")
        /\ Put("exportCtl", o)
        /\ Fail
  /\ UNCHANGED <<exportSeen, imageVars, report>>

With(p) == [export EXCEPT !.progress = p]

-----------------------------------------------------------------------------
\* Reconcile.

\* Where Reconcile goes with an export of status p that has the finalizer.
Final == {SUCCESS, FAILED}
Enter_RunningLeft(p) ==   \* Mutant: an export that is RUNNING is left alone.
  CASE p \in Final \cup {RUNNING} -> "idle"
    [] p = New -> "setPending"
    [] p \notin Final \cup {New, RUNNING} -> "listImages"

Enter_StatusNotSet(p) ==   \* Mutant: a new export is not set to PENDING first.
  IF p \in Final THEN "idle" ELSE "listImages"

Enter(p) ==
  CASE p \in Final -> "idle"
    [] p = New -> "setPending"
    [] p \notin Final \cup {New} -> "listImages"

Reconcile ==
  /\ pc = "idle" /\ due
  /\ ReadsExport
  /\ due' = FALSE
  /\ pc' = IF exportSeen.finalizer THEN Enter(exportSeen.progress) ELSE "addFinalizer"
  /\ latest' = ReadBy("exportCtl")
  /\ UNCHANGED <<export, exportSeen, imageVars, todo, report, faults>>

\* Mutant: an error is ignored.
AddFinalizer_ErrorIgnored ==
  /\ pc = "addFinalizer"
  /\ \/ Update([export EXCEPT !.finalizer = TRUE], Goto(Enter(export.progress)))
     \/ /\ Fault("apiErrors") /\ Goto(Enter(export.progress))
        /\ UNCHANGED <<exportVars, imageVars, report>>

AddFinalizer ==
  /\ pc = "addFinalizer"
  /\ Update([export EXCEPT !.finalizer = TRUE], Goto(Enter(export.progress)))

SetPending ==
  /\ pc = "setPending"
  /\ Update(With(PENDING), Goto("listImages"))

\* One name that cannot be parsed, filtered out or not, fails the whole list.
ListImages ==
  /\ pc = "listImages"
  /\ \/ /\ pc' = "setRunning"
        /\ todo' = FullImagesList
        /\ UNCHANGED due /\ NoFault
     \/ Fault("badNames") /\ Fail
  /\ UNCHANGED <<exportVars, imageVars, report>>

SetRunning ==
  /\ pc = "setRunning"
  /\ Update(With(RUNNING), Goto("createImages"))

\* The loop comes to container c: in any order, the additional images last.
At(c) ==
  /\ pc = "createImages"
  /\ c \in Additional => todo \subseteq Additional
  /\ ReadsImages({KeyOf[c]})

Pass(c) == todo' = todo \ {c} /\ UNCHANGED <<due, pc>>

\* Mutant: an image that is not done yet counts as FAILED.
ImageFailed_NotDone(c) ==
  /\ At(c)
  /\ imageSeen[KeyOf[c]] \notin {Absent, SUCCESS, PRESENT}
  /\ pc' = "setFailed"
  /\ UNCHANGED <<exportVars, imageVars, due, todo, report, faults>>

\* The loop ends at the first image that is FAILED.
ImageFailed(c) ==
  /\ At(c)
  /\ imageSeen[KeyOf[c]] = FAILED
  /\ pc' = "setFailed"
  /\ UNCHANGED <<exportVars, imageVars, due, todo, report, faults>>

ImageExists(c) ==
  /\ At(c)
  /\ imageSeen[KeyOf[c]] \notin {Absent, FAILED}
  /\ Pass(c)
  /\ UNCHANGED <<exportVars, imageVars, report, faults>>

\* Mutant: an error is logged, and the loop goes on.
CreateImage_GoesOn(c) ==
  /\ At(c)
  /\ imageSeen[KeyOf[c]] = Absent
  /\ \/ image' = [image EXCEPT ![KeyOf[c]] = IF @ = Absent THEN New ELSE @] /\ NoFault
     \/ Fault("apiErrors") /\ UNCHANGED image
  /\ Pass(c)
  /\ UNCHANGED <<exportVars, imageSeen, report>>

\* An image the cache does not have yet exists already, and the call fails.
CreateImage(c) ==
  /\ At(c)
  /\ LET k == KeyOf[c]
         Created == image[k] = Absent /\ image' = [image EXCEPT ![k] = New]
         Broken == Return(TRUE)
     IN /\ imageSeen[k] = Absent
        /\ \/ Created /\ Pass(c) /\ NoFault
           \/ image[k] # Absent /\ Broken /\ UNCHANGED image /\ NoFault
           \/ Fault("apiErrors") /\ Broken /\ UNCHANGED image
           \/ Fault("lostReplies") /\ Created /\ Broken
  /\ UNCHANGED <<exportVars, imageSeen, report>>

SeenStatuses == {imageSeen[k] : k \in Key} \ {Absent}

\* checkAllClusterImagesCompleted, on what the cache has of them.
CheckImages ==
  /\ pc = "createImages" /\ todo = {}
  /\ ReadsImages(Key)
  /\ \/ SeenStatuses \subseteq {SUCCESS, PRESENT} /\ Goto("setSuccess")
     \/ ~ (SeenStatuses \subseteq {SUCCESS, PRESENT}) /\ Return(TRUE)
  /\ UNCHANGED <<exportVars, imageVars, report, faults>>

Finish(p) == Update(With(p), Return(FALSE))
SetFailed  == pc = "setFailed" /\ Finish(FAILED)
SetSuccess == pc = "setSuccess" /\ Finish(SUCCESS)

Step ==
  \/ AddFinalizer \/ SetPending \/ ListImages \/ SetRunning
  \/ \E c \in todo : ImageFailed(c) \/ ImageExists(c) \/ CreateImage(c)
  \/ CheckImages \/ SetFailed \/ SetSuccess

Crash ==
  /\ Fault("crashes")
  /\ exportSeen' = export /\ latest' = {"cache"}
  /\ imageSeen' = image
  /\ due' = TRUE /\ pc' = "idle" /\ todo' = {} /\ report' = Absent
  /\ UNCHANGED <<export, image>>

-----------------------------------------------------------------------------
\* The watches, and the controller of the ClusterImages.

\* A change of the export or of an image it owns makes the export due.
SyncExport ==
  /\ "cache" \notin latest
  /\ exportSeen' = export
  /\ latest' = latest \cup {"cache"}
  /\ due' = TRUE
  /\ UNCHANGED <<export, imageVars, pc, todo, report, faults>>

SyncImage(k) ==
  /\ imageSeen[k] # image[k]
  /\ imageSeen' = [imageSeen EXCEPT ![k] = image[k]]
  /\ due' = TRUE
  /\ UNCHANGED <<exportVars, image, pc, todo, report, faults>>

ImageMoves(k) ==
  /\ \E p \in ImageStatuses : /\ <<image[k], p>> \in Moves
                              /\ image' = [image EXCEPT ![k] = p]
  /\ UNCHANGED <<exportVars, imageSeen, workerVars, report, faults>>

\* updateClusterImageExportStatus, after the Job of some image has been looked at.
ImageCtlReads ==
  /\ report = Absent
  /\ \E k \in Key : imageSeen[k] \in {RUNNING, RETRYING, SUCCESS, FAILED}
  /\ ReadsExport /\ ReadsImages(Key)
  /\ Aggregate(SeenStatuses) # exportSeen.progress
  /\ report' = Aggregate(SeenStatuses)
  /\ latest' = ReadBy("imageCtl")
  /\ UNCHANGED <<export, exportSeen, imageVars, workerVars, faults>>

\* Mutant: it writes although it has not aggregated anything.
ImageCtlWrites_Unread ==
  /\ report' = Absent
  /\ "imageCtl" \in latest /\ Put("imageCtl", With(report)) /\ NoFault
  /\ UNCHANGED <<exportSeen, imageVars, workerVars>>

ImageCtlWrites ==
  /\ report # Absent
  /\ report' = Absent
  /\ \/ "imageCtl" \in latest /\ Put("imageCtl", With(report)) /\ NoFault
     \/ "imageCtl" \notin latest /\ UNCHANGED <<export, latest>> /\ NoFault
     \/ Fault("apiErrors") /\ UNCHANGED <<export, latest>>
  /\ UNCHANGED <<exportSeen, imageVars, workerVars>>

Environment ==
  \/ SyncExport
  \/ \E k \in Key : SyncImage(k) \/ ImageMoves(k)
  \/ ImageCtlReads \/ ImageCtlWrites

Next == Reconcile \/ Step \/ Crash \/ Environment

Spec == Init /\ [][Next]_vars

\* The worker and the watches go on. Nothing makes an image move, or the other
\* controller write.
Fairness ==
  /\ WF_vars(Reconcile) /\ WF_vars(Step)
  /\ WF_vars(SyncExport) /\ WF_vars(\E k \in Key : SyncImage(k))

FairSpec == Spec /\ Fairness

-----------------------------------------------------------------------------
\* Properties.

TypeOK ==
  /\ export \in Object /\ exportSeen \in Object
  /\ latest \subseteq Holder
  /\ image \in [Key -> Progress] /\ imageSeen \in [Key -> Progress]
  /\ due \in BOOLEAN
  /\ pc \in Steps \cup {"idle"}
  /\ todo \subseteq Container \cup Additional
  /\ report \in Progress
  /\ faults \in 0 .. MaxFaults

\* The export is FAILED only if one of its images is, although two controllers
\* write that status from rules of their own and caches that lag (Reconcile,
\* updateClusterImageExportStatus).
FailedExportHasFailedImage ==
  export.progress = FAILED => \E k \in Key : image[k] = FAILED

\* FAILED is final: neither controller writes over it with what it has read before
\* ("already in a completed state").
FailedStays == [][export.progress = FAILED => export'.progress = FAILED]_vars

\* Reconcile asks whether all images are done only when each of the list exists,
\* whatever the cache has shown it, and however often it has been interrupted.
NoneLeftOut ==
  pc = "setSuccess" \/ (pc = "createImages" /\ todo = {}) =>
    \A c \in FullImagesList : image[KeyOf[c]] # Absent

\* No image, and so no Job and no file, is there before the finalizer that cleans
\* up after it.
FinalizerFirst == (\E k \in Key : image[k] # Absent) => export.finalizer

\* If every image is settled in the end, the export is COMPLETED or FAILED in the
\* end, although each controller may undo what the other has written.
ImagesSettle == <>[](\A k \in Key : image[k] \in {Absent, SUCCESS, FAILED, PRESENT})
ExportSettles == ImagesSettle => <>[](export.progress \in Final)

\* "ensures that no images were missed out" (README.md).
NoneSkipped ==
  \A c \in FullImagesList : <>(image[KeyOf[c]] # Absent \/ export.progress = FAILED)

-----------------------------------------------------------------------------
\* The objects are those of ExportLifecycle.

Lifecycle == INSTANCE ExportLifecycle

\* Whatever the two controllers have read, and whatever fails, the export and its
\* images change only as the lifecycle allows: no image before the export is protected
\* and accepted, no status without it, FAILED only for a reason and for good.
FollowsLifecycle == Lifecycle!Spec
=============================================================================

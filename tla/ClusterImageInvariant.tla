----------------------- MODULE ClusterImageInvariant -----------------------
(***************************************************************************)
(* The inductive invariants behind the theorems about the controller of    *)
(* the ClusterImages.                                                      *)
(***************************************************************************)
EXTENDS ClusterImageReconciler

\* The cache's copy of an object whose latest version it has is the object.
CacheInv ==
  /\ \A i \in Image : i \in current["cache"] => imageSeen[i] = image[i]
  /\ \A e \in Export : e \in current["cache"] => exportSeen[e] = export[e]

\* A Job that exists, or that the cache shows, has been created, and one that has
\* succeeded is in the history.
BackupInv ==
  /\ succeeded \subseteq attempted
  /\ \A i \in Image : /\ job[i] # "none" \/ jobSeen[i] # "none" => i \in attempted
                      /\ "succeeded" \in {job[i], jobSeen[i]} => i \in succeeded

InBackup == {RUNNING, RETRYING}

NamesakeAttempted(i) == \E j \in attempted : FullName[j] = FullName[i]

\* What a status, current or past, says about the backup of its image.
StatusFacts(s, i) ==
  /\ s.progress \in InBackup \cup {SUCCESS} => i \in attempted
  /\ s.progress = SUCCESS => i \in succeeded
  /\ s.progress = PRESENT => NamesakeAttempted(i)
  /\ s.progress = FAILED => s.retry >= RetryLimit
  /\ s.retry > RetryLimit => s.progress = FAILED

StatusInv == \A i \in Image : StatusFacts(image[i], i) /\ StatusFacts(imageSeen[i], i)

Is(o, progress, retry) == o.progress = progress /\ o.retry = retry

\* What handleRunningClusterImage may make of the status s.
Outcome(s, o) ==
  \/ Is(o, SUCCESS, s.retry) /\ cur \in succeeded
  \/ Is(o, RETRYING, s.retry + 1) /\ s.retry < RetryLimit
  \/ Is(o, FAILED, s.retry) /\ s.retry >= RetryLimit

\* How the worker's copy of its image differs from the status s of the image, as
\* long as nobody else has written that.
Copy(s) ==
  /\ pc = "setPending" => s.progress \in {New} \cup InBackup /\ Is(obj, PENDING, s.retry)
  /\ pc \in {"checkImageExists", "createBackupJob"} => s.progress = PENDING /\ obj = s
  /\ pc = "setPresent" => /\ s.progress = PENDING /\ Is(obj, PRESENT, s.retry)
                          /\ NamesakeAttempted(cur)
  /\ pc = "setRunning" => /\ s.progress = PENDING /\ Is(obj, RUNNING, s.retry)
                          /\ cur \in attempted
  /\ pc = "getJob" => s.progress \in InBackup /\ obj = s
  /\ pc = "recordOutcome" => s.progress \in InBackup /\ Outcome(s, obj)
  /\ pc \in {"deleteJob", "deletePods"} => s.progress \in {SUCCESS, RETRYING, FAILED} /\ obj = s
  /\ pc = "listPods" => s.progress \in InBackup \cup {SUCCESS, FAILED} /\ obj = s
  /\ pc = "setFailed" => /\ s.progress \in InBackup \cup {SUCCESS, FAILED}
                         /\ obj.progress = FAILED
                         /\ obj.retry >= s.retry /\ obj.retry >= RetryLimit
  /\ pc = "setRetrying" => /\ s.progress \in InBackup \cup {SUCCESS}
                           /\ obj.progress = RETRYING
                           /\ obj.retry \in (s.retry + 1) .. RetryLimit
  /\ pc \in {"confirmRunning", "listJobs", "removeJobs", "finalUpdate"} => obj = s

CopyInv == pc # "idle" /\ cur \in current["imageCtl"] => Copy(image[cur])

LifecycleInv == CacheInv /\ BackupInv /\ StatusInv /\ CopyInv

-----------------------------------------------------------------------------
\* What the cache, however late, cannot show.

Outcomes == {SUCCESS, RETRYING, FAILED}
Waiting == {New, PENDING}

\* An outcome is written only by a worker that has read that the image runs, so
\* that the cache does not show it waiting any more.
SeenInv ==
  \A i \in Image : image[i].progress \in Outcomes => imageSeen[i].progress \notin Waiting

\* The steps that precede the record of an outcome.
OutcomeSteps ==
  {"getJob", "recordOutcome", "deleteJob", "deletePods", "listPods", "setFailed", "setRetrying"}

OrderInv ==
  /\ SeenInv
  /\ pc \in OutcomeSteps /\ cur \in current["imageCtl"] => imageSeen[cur].progress \notin Waiting
  /\ pc \in {"checkImageExists", "createBackupJob"} => image[cur].progress \notin Outcomes

HasFailed(e) == \E i \in Image : ExportOf[i] = e /\ image[i].progress = FAILED

\* An image that is FAILED or PRESENT in the cache is so as long as its export is there,
\* an export that is removed is not written again, and one that the controller of the
\* exports is about to call COMPLETED is still RUNNING.
ExportInv ==
  /\ \A i \in Image : imageSeen[i].progress \in {FAILED, PRESENT} =>
       image[i].progress = imageSeen[i].progress \/ export[ExportOf[i]] = Absent
  /\ \A e \in Export : /\ export[e] = FAILED => HasFailed(e)
                       /\ e \in current["exportCtl"] => export[e] = RUNNING
  /\ pc = "setExport" =>
       LET e == ExportOf[cur]
       IN /\ newStatus = FAILED => HasFailed(e) \/ export[e] = Absent
          /\ newStatus # Absent
          /\ e \in current["imageCtl"] => export[e] # Absent

SeenFailed(e) == \E i \in Image : ExportOf[i] = e /\ imageSeen[i].progress = FAILED

Reported == {PENDING, RUNNING, SUCCESS, FAILED}

\* As long as an export is FAILED the cache shows an image of it that is, so that the
\* worker computes no other status for it.
ReportInv ==
  /\ \A e \in Export : /\ export[e] \in Reported \cup {Absent}
                       /\ export[e] = FAILED => SeenFailed(e)
  /\ pc = "setExport" =>
       LET e == ExportOf[cur]
       IN /\ newStatus \in Reported
          /\ newStatus = FAILED => SeenFailed(e) \/ export[e] = Absent
          /\ newStatus # FAILED /\ e \in current["imageCtl"] => export[e] # FAILED

-----------------------------------------------------------------------------
\* What a controller that calls an export COMPLETED has seen of its images.

Done(i) ==
  i \in succeeded \/ image[i].progress = PRESENT \/ export[ExportOf[i]] = Absent

\* All that the list showed of e's images stays true while the controller writes.
ListDone(h, e) == \A i \in ImagesOf(e) \ hidden[h] : Done(i)

DoneInv ==
  /\ pc = "setExport" /\ newStatus = SUCCESS => ListDone("imageCtl", ExportOf[cur])
  /\ \A e \in Export : e \in current["exportCtl"] => ListDone("exportCtl", e)

-----------------------------------------------------------------------------
\* What handleJobRestarts finds after a clean-up.

\* The worker has deleted the Job, so that no container of it restarts any more.
CleanedUp == pc = "deletePods" \/ (pc = "listPods" /\ obj.progress \notin InBackup)

RestartSteps == {"setFailed", "setRetrying"}

\* An outcome that is recorded is written over only for restarts of a container
\* whose Job is gone.
RestartInv ==
  /\ pc = "getJob" => obj.progress \in InBackup
  /\ CleanedUp => job[cur] = "none"
  /\ pc \in RestartSteps =>
       /\ restartsSeen[cur] > 0
       /\ cur \in current["imageCtl"] =>
            image[cur].progress \in InBackup \/ job[cur] = "none"

\* There are none if no deleted Pod is listed.
PodsInv ==
  /\ pc = "listPods" /\ CleanedUp => restartsSeen[cur] = 0
  /\ pc \in RestartSteps /\ cur \in current["imageCtl"] => image[cur].progress \in InBackup

-----------------------------------------------------------------------------
\* The counter of Jobs, while nobody but the operator deletes any.

\* No container restarts and no export is removed: all Jobs are never removed at once,
\* and only the worker deletes one.
CalmInv ==
  /\ deleting = {}
  /\ \A e \in Export : export[e] # Absent
  /\ \A i \in Image : /\ restartsSeen[i] = 0
                      /\ job[i] # "none" \/ imageSeen[i].progress # Absent =>
                           image[i].progress # Absent
  /\ pc \notin RestartSteps \cup {"listJobs", "removeJobs"}
  /\ pc # "idle" => image[cur].progress # Absent
  /\ pc \in {"deleteJob", "deletePods"} => cur \in current["imageCtl"]

\* The Job at hand is there and not counted, or not any more.
NotCounted == pc = "confirmRunning" \/ (pc = "recordOutcome" /\ obj.progress # RETRYING)

\* The Job at hand is gone and still counted.
StillCounted == pc = "deletePods" /\ obj.progress = RETRYING

\* The counter is no more than the number of images whose Job it is for.
InSlotInv ==
  /\ activeJobs <= Cardinality(InSlot) + 1
  /\ ~ StillCounted => activeJobs <= Cardinality(InSlot)
  /\ NotCounted => activeJobs + 1 <= Cardinality(InSlot)
  /\ pc = "setRunning" => job[cur] # "none"
  /\ pc = "setPending" /\ cur \in current["imageCtl"] =>
       image[cur].progress = New \/ job[cur] = "none"
=============================================================================

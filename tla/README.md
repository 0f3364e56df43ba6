# Verification of kubernetes-images-sync-operator

The operator (`cmd/main.go`) runs two controllers. For each
`ClusterImageExport` one of them lists the images the cluster uses and creates a
`ClusterImage` for each; the other takes every `ClusterImage` through a backup
Job. This directory holds TLA+ specifications of them, the TLC runs that check
the specifications on small instances, and proofs that hold for every instance.
Paths below are relative to `src/`; `CI` stands for
`internal/controller/raczylo.com/clusterimage_controller.go` and `CE` for
`internal/controller/raczylo.com/clusterimageexport_controller.go`.

## 1. The system

| Component | State | Operations | Talks to |
|---|---|---|---|
| ClusterImage controller (`CI`) | `ActiveJobs`, its work queue, a local copy of one image; the statuses of all images | `Reconcile` and the handlers it calls | API server (writes), caches (reads), Jobs, Pods |
| ClusterImageExport controller (`CE`) | its work queue, a local copy of one export; the exports' statuses and finalizers | `Reconcile`, `handleDeletion`, `runCleanupJob`, the goroutine `waitForJobCompletionAndDelete` | the same, and the listing below |
| Listing of images (`internal/shared/k8s.go`) | goroutines of one call; the process-wide cache of parsed names | `ListAndProcessResources`, `ProcessContainerName` | caches of Deployments, Jobs, DaemonSets, CronJobs |
| Names and filters (`internal/shared/definitions.go`) | none | parse, normalise, include, exclude, remove duplicates | - |
| Job builder (`internal/shared/jobs.go`) | none | `CreateJob`, `SetupS3Params` | - |
| Worker scripts (`docker-image-worker/*.py`) | the storage | upload, clean up | S3 or a file system |
| Start (`cmd/main.go`) | - | index on `spec.exportName`, leader election, both controllers | - |
| Kubernetes (external) | the objects, resourceVersions, Jobs, Pods | conflicts, watches, Job controller, kubelet, garbage collection | - |

The controllers never call each other. They share the custom resources: both
write the status of an export, each from its own aggregation of the statuses of
its images. Every read (`r.Get`, `r.List`) is answered by an informer cache that
may be behind the API server; every write goes to the API server, which refuses
an update of anything but the latest version of an object. Deletions and
creations of Jobs and Pods carry no version. Each controller has one worker, so
within one of them handlers do not interleave; they interleave with the other
controller, with the Job controller, the kubelet, the garbage collector and the
users, and a crash may come between any two calls.

What is hard here, and the property that makes each part right:

* *ClusterImage controller.* The status of an image, the Job it belongs to and
  the counter `ActiveJobs` are three records of one fact, kept in three places
  and written by separate calls. Right means: statuses tell the truth about the
  backup, no outcome is lost, retries end, the limit on Jobs holds, every image
  is settled in the end and its Job removed.
* *ClusterImageExport controller.* Two aggregations with different rules write one
  field. Right means: final statuses are true of the images and stay; every image
  listed gets one ClusterImage.
* *Deletion.* A finalizer that waits for nothing, a Job without an owner and a
  goroutine without a record. Right means: an export is released, its files and
  its Jobs go away.
* *Listing.* Goroutines, a semaphore, a channel of capacity one that is closed by
  another goroutine. Right means: a list that is returned is complete, an error
  is never swallowed, nobody blocks for ever.
* *Names and filters.* Right means: nothing that the filters leave out is backed up, and
  different versions of an image get different names and files.

`PROJECT.json` lists every component with its status and every hazard with its line.

## 2. Modules

| Module | What it is |
|---|---|
| `Statuses` | the statuses of the custom resources, the moves an image makes, and the aggregation of `updateClusterImageExportStatus` |
| `Cluster` | what the ClusterImage controller shares with others: objects, Jobs, caches, what the other controller writes, and what Kubernetes does to all of them |
| `ClusterImageReconciler` | the ClusterImage controller, composed with `Cluster`; its properties |
| `ImageLifecycle` | the abstract specification of a ClusterImage's status |
| `ClusterImageInvariant` | the inductive invariants of the proofs |
| `MCClusterImageReconciler` | the instances TLC checks |
| `ClusterImageReconcilerProofs` | type correctness |
| `ClusterImageLifecycleProofs` | the inductive invariant, its consequences, and the refinement of `ImageLifecycle` |
| `ClusterImageOrderProofs` | what stale reads cannot do: start a Job for a finished image, fail an export without a failed image, undo COMPLETED, leave the lifecycle of an export |
| `ClusterImageJobProofs` | what becomes of the Jobs: outcomes are recorded first, the images of a COMPLETED export are done, no slot is lost |
| `ClusterImageExportReconciler` | the ClusterImageExport controller, with the other one as the second writer of an export's status; its properties |
| `ExportLifecycle` | the abstract specification of an export's status and finalizer and of the statuses of its images |
| `ImageNames` | names of images: parsing, hash, file name, patterns |
| `ExportNames` | the ClusterImageExport controller with the names and filters of `ImageNames`; the properties about names |
| `MCClusterImageExportReconciler` | the instance TLC checks |
| `ExportNamesProofs` | what the parts, the hash and the file of a name are, and the properties about names |
| `ClusterImageExportReconcilerProofs` | type correctness, the four safety properties of an export, and the refinement of `ExportLifecycle` |
| `ExportDeletion` | an export's deletion, its clean-up Job, the goroutines that wait for it, and exports of the same name afterwards; its properties |
| `ExportDeletionProofs` | type correctness, and that clean-ups come first and remove nothing else |
| `AtomicListing` | the abstract specification of the listing: one step |
| `ResourceListing` | the goroutines that list the images in use; its properties |
| `MCResourceListing` | the instance TLC checks |
| `ResourceListingProofs` | type correctness, that returned lists are complete, and the refinement of `AtomicListing` |

### ClusterImageReconciler

A step of the worker is one call to the API server together with the cached
reads and the computation before the next such call; `pc` names the call about
to be made. `obj` is the local `clusterImage`; `activeJobs` is `r.ActiveJobs`;
`image[i]` and `export[e]` are the statuses the API server stores, `imageSeen`,
`exportSeen` and `jobSeen` the caches' copies, and `restartsSeen[i]` the
`RestartCount` the Pod cache shows for the Pod of the image's Job. Since a Job's
name is its image's (`CI:257`), `job[i]` is *the* Job of image `i`.

Three history variables say what has really happened: `attempted` (a Job was created for
the image), `succeeded` (a Job of its own has succeeded), and `hidden[h]`, the images
whose status a controller did not see in the list that makes it call their export
COMPLETED. An image is `uploaded` if its Job has succeeded and had an upload among its
commands. `createBackupJob` (`CI:242-253`) adds one for the storage `S3` and for `FILE`;
the API accepts `S3` and `file` (`api/raczylo.com/v1/clusterimageexport_types.go:43`),
so that a Job for `file` exports the image, succeeds, and leaves nothing behind.
`Uploads` says so.

`current[h]` is the set of objects of which holder `h` (the caches or a
controller's local copy) has the latest resourceVersion. It stands for all
comparisons of resourceVersions: an update by `h` is accepted iff its object is
in `current[h]`, and then takes the object from all other holders. An update
that changes nothing produces no new version, as in the API server.

| Code | Actions |
|---|---|
| `Reconcile` `CI:43-90` | `ReconcileNothing`, `ReconcileLater`, `ReconcileNew`, `ReconcilePending`, `ReconcileRunning`, `SetPending` |
| `handlePendingClusterImage`, `checkImageExists`, `createBackupJob` | `CheckImageExists`, `SetPresent`, `CreateBackupJob`, `SetRunning` (`:283`), `ConfirmRunning` (`:123-131`) |
| `handleRunningClusterImage` | `JobMissing`, `JobActive`, `JobSucceeded`, `JobRetried`, `JobGivenUp`, `RecordOutcome`, `FinalUpdate` |
| `cleanupJobAndPods` | `DeleteJob`, `DeletePods` |
| `handleJobRestarts`, `removeAllJobsAndContainers` | `ListPods`, `SetFailed`, `SetRetrying`, `ListJobs`, `RemoveJob`, `JobsRemoved` |
| `updateClusterImageExportStatus` | `ExportStatus`, `SetExport` |
| death and start of the process | `Crash` |
| the other controller, `CE:101-122`, `CE:164-180` | `SetRunningAgain`, `SetExportFailed`, `CheckCompleted`, `SetExportCompleted` |
| Kubernetes, users | `ImageEvent`, the rest of `Environment` |

Of the other controller's writes only those that the API server accepts are steps, and
only those that write a new status: a refused one changes nothing here. An accepted one
was made from the latest version of the export, so that its guard may look at the stored
status; of the images it sees what the cache shows, and the list behind a COMPLETED
(`CheckCompleted`) is made a step before the write (`SetExportCompleted`). Order and
timing of these steps are freer than those of `ClusterImageExportReconciler`, which has
the handler in full.

Every update of a status has three outcomes (`StatusUpdate`): accepted, refused
(conflict, object gone, or an API error) or accepted with the reply lost; every
call on Jobs and Pods has the same three (`Call`). In the last two `Reconcile`
returns the error and the key goes back into the queue.

The constant `Faults` says which faults the environment may produce, so that a
run can show which faults a property survives:

| Fault | Meaning |
|---|---|
| `staleObjects` | a cached ClusterImage or ClusterImageExport may be old when it is read |
| `staleJobs` | the same for Jobs |
| `stalePods` | deleted Pods are still listed |
| `apiErrors` | a write fails without effect |
| `lostReplies` | a write takes effect and the caller gets an error |
| `crashes` | the process dies between two calls and a new one starts |
| `restarts` | the kubelet restarts a container |
| `lostJobs` | somebody else deletes a Job |
| `removals` | an export is removed and the garbage collector follows |

Without a fault the read in question waits until the cache is up to date, and the
call in question succeeds.

### ResourceListing

`ListAndProcessResources` (`internal/shared/k8s.go:135-205`) is called four times in
a row by `listImagesInCluster` (`CE:206-219`), with one list. The model is one call
of `listImagesInCluster`: `caller` is where it is, `kind` the kind being listed,
`goroutine[i]` where `processItem` is for workload `i`. One step is one use of
something shared: a slot of the semaphore (`Acquire`, `Release`), the wait group
(`Spawn`, `Done`), the channel (`Report`, `Closer`, `ReceiveError`,
`ReceiveClosed`), the mutex with the slice it guards (`Lock`, `AppendLocal`), the
cache of names (`Process`). The wait group and the semaphore are the sets of those
they count. The append under the mutex is a read and a write, so that the mutex is
needed. `ReceiveDone` and `ProcessFails` are the two places that look at the
context; `Cancel` is the end of the operator. The channel and its closer are new
for every kind; goroutines of a call that has returned an error go on.

The containers a goroutine has parsed are the first `position[i]` of its workload,
so the list of the caller is a set of pairs of a workload and how many of its
containers were appended. Which names can be parsed is the constant `Valid`. The
cache starts with anything valid in it, as earlier calls may have left it.

### ClusterImageExportReconciler

One export that is not being deleted, in the same style: a step of the worker is one
call to the API server with the cached reads before it. `export` is the stored status
and finalizer, `exportSeen` the cache's copy, `latest` the holders of the latest
version among the cache and the two controllers (as `current` above); `todo` is what
is left of `fullImagesList`, `report` the status the other controller has computed
and not written yet.

| Code | Actions |
|---|---|
| `CE:51-81` | `Reconcile`, `AddFinalizer`, `SetPending` |
| `listImagesInCluster`, `CE:84-99` | `ListImages`, with `ListImagesInCluster` and `FullImagesList` |
| `CE:101-105` | `SetRunning` |
| one pass of the loop `CE:107-162` | `ImageFailed` (`:115`), `ImageExists` (`:123`), `CreateImage` |
| `CE:115-122`, the update | `SetFailed` |
| `checkAllClusterImagesCompleted`, `CE:164-180` | `CheckImages`, `SetSuccess` |
| `updateClusterImageExportStatus` `CI:289-331` of the other controller | `ImageCtlReads`, `ImageCtlWrites` |
| the other controller's work on an image | `ImageMoves` |
| death and start of the process | `Crash` |

The other controller is reduced to what this one sees of it. An image moves by any pair
of `Moves`; that the detailed model does nothing else is the theorem `ImagesMove`. It
aggregates the statuses as `Aggregate` does, whenever some image's status shows that
its Job is being looked at, and writes the result or fails to. A list is a set: the
goroutines of `ResourceListing` leave its order open, and `RemoveDuplicates` follows.
The additional images come last and unfiltered, as appended at `CE:97`.

The containers, the patterns they match and the names of their ClusterImages are
constants. `ExportNames` says where they come from: a container has a reference
(registry, path, tag, digest), the workload writes it as a name, and
`ProcessContainerName`, `NameHash`, `NormalizeImageName` and `Matches` of `ImageNames`
work on that name. `Wanted` says what the filters mean of the reference, so that
`OnlyWanted` and `EachHasItsOwn` compare the code's parsing, hash and filters with what
was meant. A name is a sequence of words and separators; a pattern is one word; a
reference has no port (`Reference`). `MCClusterImageExportReconciler` only gives the
references.

Faults: `staleObjects`, `apiErrors`, `lostReplies` and `crashes` as above, and `badNames`:
a workload somewhere has a name that cannot be parsed, and the listing fails
(`CE:84-88`). Late caches are not counted; all others are, up to `MaxFaults`.

### ExportDeletion

The exports of one name, one after the other. `export` is `none`, `live` or `deleted`
(deleted, and held by the finalizer); `job` is the clean-up Job, `files` whether the
export of now has files in its directory. `waiting` and `deleting` count the goroutines
that look at the Job and those about to delete it: a lost reply or a second deletion
starts another. `cleaned` and `hasty` are history.

| Code | Actions |
|---|---|
| `Reconcile` up to `handleDeletion`, `CE:51-58`, `:246` | `Reconcile` |
| `runCleanupJob` `CE:263-308` | `CreateJob` |
| `CE:253-257` | `RemoveFinalizer` |
| `waitForJobCompletionAndDelete` `CE:310-346` | `Poll`, `DeleteJob` |
| death and start of the process | `Crash`: the goroutines are gone, the export is due |
| Job controller, `removeAllJobsAndContainers` | `JobEnds`, `RemoveAllJobs` |
| users, backup Jobs, the other writer of the status | `CreateExport`, `DeleteExport`, `Upload`, `StatusWritten` |
| watches | `SyncExport`, `SyncJob`, `ImageEvent` |

| Fault | Meaning |
|---|---|
| `staleExport`, `staleJobs` | a cached export, or clean-up Job, may be old when it is read |
| `conflicts` | the other controller writes the export's status meanwhile |
| `apiErrors`, `lostReplies`, `crashes` | as above |
| `removals` | `removeAllJobsAndContainers` (`CI:393-407`) finds the clean-up Job, which has the same label |

A clean-up Job that fails may have removed the files before it did.

### Abstractions

* One namespace. In `Cluster` an export's name is not used again after it is removed;
  `ExportDeletion` is about names that are.
* A cache catches up with an object in one step, to its latest state; the states
  in between may be missed, as a watch may.
* `MaxParallelJobs` is overwritten by `Reconcile` before every use (`CI:61`), so
  the model reads the export's limit instead.
* The work queue is a set. Delays and back-off are left out: a key put back may be
  taken at any time.
* A Job is `none`, `active`, `failed` (`Status.Failed > 0`, possibly with a
  replacement Pod that still succeeds) or `succeeded`. Of its commands the upload is
  modelled as there or not (`Uploads`).
  A clean-up Job that has failed stays failed: `Poll` ends the wait at the first look
  at it, as the code does.
* A Job's Pods are one counter of restarts; the first container found with
  restarts is the only one the code looks at (`CI:371`).
* The deletion of a Job in the background is immediate; in the foreground
  (`CI:401`) the Job stays until `JobGoes`. The clean-up Job goes at once in
  both cases.
* A name is a sequence of words and separators. Patterns match whole words, and letter
  case is left out (`NormalizeImageName` also lowers it).

Bounds: two images, stored in S3, and one or two exports; `RetryLimit` 1, or 2 in
`limit`, in place of 3; `MaxRestarts` 1; `MaxDrift` 1: while `activeJobs` is at -1, no
further fault happens, so that the counter has finitely many values. Two images of one
name in two exports are the smallest instance with namesakes; two images in one export
with a limit of 1 the smallest in which the limit and the sharing of slots matter. With
a retry limit of 1 every comparison with the limit is seen on both sides; `setRetrying`
(a restart below the limit) needs 2 and is reached in `limit`. One restart is enough for
every branch of `handleJobRestarts`, which compares a sum with the limit.

`export` has seven containers and one additional image. Two share a name in two
namespaces, the additional one differs from it in its digest only, one has a registry
with a port, one a tag with a hyphen, and each of the four filters removes one that the
others would keep. `MCClusterImageExportReconciler` also compares `NormalizeImageName`,
defined by the places it keeps, with the steps of the code, on all names of up to six
tokens. `ImageStatuses` leaves out RETRYING, for which both controllers do what they do
for RUNNING. `MaxFaults` 1: one failing call, lost reply, bad name or crash at any
place, and any number of late caches; the theorems of section 4 need no bound.
`deletion` has three exports in a row (`MaxLives`), the fewest in which a goroutine of
the first can meet the Job of the last, and three faults.

`listing` has three workloads of one kind so that one waits for a slot while two
run, two bad names of one kind so that a second error finds the channel full, a
workload without containers, one with two, and a second kind to see what is left
of the first. Four contents of the cluster are enough: all names good, one bad, two
bad, one bad in the second kind.

## 3. Runs

Deadlock is not checked: the system stops when all images are settled, when an
export is final, when it is gone and no other is created, or when the list is
returned.

| Run | Instance | Shows |
|---|---|---|
| `failures` | one export, two names, limit 2; `staleJobs`, `crashes`, `apiErrors`, `lostReplies` | `LifecycleInv` (the inductive invariant), `CompletedWasUploaded`, `OutcomeRecordedFirst` |
| `limit` | one export, two names, limit 1, `RetryLimit` 2; `restarts`, `stalePods`, `lostJobs` | `TypeOK`, `JobsWithinLimit`, `GivesUpAtTheLimit`, `CompletedExportIsDone`, `CompletedUndoneByOldPods` |
| `removals` | two exports, one name, limit 2; `removals` | `FollowsLifecycle`, `PresentHasAttempt` |
| `progress` | one export, two names, limit 1; `staleObjects`, fair | `NoSlotLost`, `FailedExportHasFailedImage`, `FinalIsFinal`, `DoneStartsNoJob`, `KeepsExportLifecycle`, `CompletedExportIsDone`, `EventuallySettled`, `JobsCleanedUp` |
| `listing` | three Deployments for two slots, one Job; good and bad names; may be cancelled; fair | `TypeOK`, `CompleteList`, `NeverSendsOnClosed`, `ListsAtomically`, `EveryoneEnds` |
| `export` | seven containers, one additional image; all faults; fair | `TypeOK`, `FailedExportHasFailedImage`, `NoneLeftOut`, `FinalizerFirst`, `OnlyWanted`, `EachHasItsOwn`, `FailedStays`, `ExportSettles`, `FollowsLifecycle` |
| `deletion` | three exports of one name; all faults; fair | `CleanedBeforeRelease`, `BackupsSurvive`, `EventuallyReleased`, `WaitersDelete` |
| `missed` | two exports, one name, no fault | `NoneMissed` fails |
| `completed_again` | one export, `restarts`, `stalePods` | `CompletedIsFinal` fails |
| `stuck_stale_job` | one export, `staleJobs`, fair | `EventuallySettled` fails |
| `skipped` | as `export`; `staleObjects`, `apiErrors`, fair | `NoneSkipped` fails |
| `cleanup_left` | one export, `staleJobs`, fair | `FinishedJobGoes` fails |

The two instances of symmetric runs look the same after a swap of the images
(and of their exports); the runs with fairness use no symmetry.

`OutcomeRecordedFirst` is about the worker's own steps, so that Jobs that others
delete do not count. `EventuallyReleased` and `WaitersDelete` except a clean-up
Job without a goroutine: such a Job stays for ever, and `cleanup_left` shows how
one comes about. `BackupsSurvive` excepts exports created before the last one of the
name, or its clean-up Job, was gone: their files may be removed by that clean-up, which
nothing in the code prevents.

The runs of `MCClusterImageReconciler` have between 425 000 and 2.5 million distinct
states. All faults at once would have several times as many, since the other controller
writes too, so that the late caches of objects are in `progress` with the properties
they endanger, and the failing calls in `failures`. What is checked with some faults is
proved with all of them (section 4), but for `JobsWithinLimit`, which needs its run's,
and `NoSlotLost`.

`CompletedWasUploaded` claims an upload of an image whose storage is `S3`. Of one whose
storage is `file` it says that a Job of its own has succeeded: it is COMPLETED without
an upload. `README.md:57` of the repository calls file storage not ready.

`CompletedExportIsDone` is about two writers, each of which lists the images and writes
later. Meanwhile an image may go from COMPLETED back to RETRYING (see
`completed_again`); the export is called COMPLETED all the same, and what is true then
is that the image *has* been backed up. Two kinds of images are exempt, as `hidden`:
those that the cache of the list does not show at all, and those it shows without a
status. `updateClusterImageExportStatus` counts neither. With two images a late cache
may so hide the second one while it waits or runs.

`GivesUpAtTheLimit` is in `limit` because retries are counted on two paths, for failed Jobs
(`CI:168`) and for restarts (`CI:356-369`), and only there both happen.

`JobsWithinLimit` needs what `limit` assumes. After a retry the deleted Job may still be
in the cache (`staleJobs`); the next call counts the same failure twice and takes the
Job off `ActiveJobs` twice. A crash, which sets `ActiveJobs` to 0 while Jobs run, breaks
the limit as well, and so do failing calls and refused updates between `ActiveJobs--`
and the end of the handler. The property is only checked: a theorem would have to assume
all of these away.

`NoSlotLost` is the other direction: the counter is not ahead of the Jobs there are, as
long as caches of objects are late, deleted Pods linger and the process crashes. Each of
the other faults loses a slot until the next restart, and TLC finds each of them on the
instance of `progress`: a Job not in the cache yet (`staleJobs`) and one that somebody
deletes (`lostJobs`) are taken for missing, `CI:139-145`, which counts nothing off; a
failing call or a lost reply (`apiErrors`, `lostReplies`) ends the handler between the
counter and the Job; removing all Jobs after a restart of a container (`restarts`,
`CI:393-407`) and a removed export (`removals`), whose image is `NotFound` at `CI:47`,
leave the counter as it was.

### What the failing runs show

* `missed`. An image is taken for PRESENT as soon as an image of the same name is
  RUNNING (`CI:417`). Its Job fails, the image goes RETRYING, its Job is gone, so
  PENDING, and now *it* finds the other one PRESENT. Both are PRESENT; nothing was
  uploaded. It takes two Jobs at a time and no fault but a failed Job.
* `stuck_stale_job`. Right after `CreateBackupJob` the worker is called again and
  looks the Job up in the cache (`CI:138`), which does not have it: the image goes
  back to PENDING, its slot stays counted. With a limit of 1 nothing starts any
  more; with a larger one every attempt to create the Job fails since it exists.
  A crash or a lost reply between `CI:278` and `CI:283` ends in the same state, and a
  Job that somebody deletes (`lostJobs`) loses its slot in the same way.
* `completed_again`. `handleJobRestarts` runs after the clean-up of a Job that
  succeeded; a restarted container that the Pod cache still lists makes a
  COMPLETED image RETRYING or FAILED.
* `skipped`. Reconcile has created some of the images when a creation fails (or the
  operator dies). Before it comes back the first images are done, and the other
  controller, which aggregates the images that exist, calls the export COMPLETED
  (`CI:301`). Reconcile then finds it "already in a completed state" (`CE:69`).
* `cleanup_left`. The goroutine looks for the clean-up Job right after its creation
  (`CE:320`), in a cache that does not have it yet, and ends. Nobody deletes the Job;
  its name stays taken, and the next export of that name cannot be released
  (`CE:295`). A crash while the goroutine waits, or a lost reply to the creation, has
  the same effect.

### Fairness

`Fairness` asks for strong fairness of `Reconcile(i)`: client-go's queue is first
in, first out, so a worker that keeps running takes every key that stays or keeps
coming back. The worker's steps, the watches, the end of a Pod and the end of a
foreground deletion are weakly fair, and the process does not crash for ever.
No fault, no creation and no removal is ever forced.

In `ResourceListing` the caller, the closer and every goroutine are weakly fair:
the Go scheduler runs what can run. Each goroutine takes a slot and the mutex once,
so weak fairness is enough for both. `Cancel` is not fair.

In `ClusterImageExportReconciler` the worker and the watches are weakly fair: there is
one key in the queue, so that nothing else delays it. Neither `ImageMoves` nor the other
controller's writes are fair; `ExportSettles` assumes that the images settle, which is
what `progress` shows of the other controller. In `ExportDeletion` the worker, the
goroutines, the watches and the end of the Job are weakly fair; `CreateExport`,
`DeleteExport`, `Upload` and all faults are not.

## 4. Proofs

All proofs are for arbitrary sets, limits and numbers of slots, under the named
assumptions of the modules: `ConstantsAssumption` (types of the constants, limits
that are natural numbers, an export for each image, a name for each container),
`NoImageAssumption` and
`NobodyAssumption` (the null values are not elements), `WordAssumption` and
`NamesAssumption` (separators are not words; different texts have different hashes).
`Faults` is any set of
faults, so what is proved holds with all of them at once (two theorems name the faults
they exclude: `CompletedStays` and `SlotsAreGivenBack`), and `MaxRestarts`,
`MaxDrift`, `MaxFaults` and `MaxLives`, which bound the runs, are any natural numbers.

**ClusterImageReconcilerProofs.** `TypeCorrect`: `Spec => []TypeOK`.

**ClusterImageLifecycleProofs.** `CompletedWasUploaded` and the other two invariants
are not inductive: an update writes `obj`, a copy made steps ago, and decisions were
made on caches that were behind. `LifecycleInv` (module `ClusterImageInvariant`)
closes the gap with four parts:

* `CacheInv`: a holder that has the latest version of an image shows what the API
  server stores;
* `BackupInv`: Jobs and what the cache shows of them never say more than the history
  does: a Job that exists was started, one that succeeded is in `succeeded`;
* `StatusInv`: the three facts (of a `COMPLETED` image a Job has succeeded, `PRESENT`
  has an attempt, retries within the limit) hold of the stored statuses *and* of every
  cached one;
* `CopyInv`: what the worker may write at each step of a handler: if its copy is still
  the latest version, the new status is one the lifecycle allows from the stored one.

The history only grows, which is why stale facts stay true, and a copy that is no
longer the latest is refused. With both, `CopyInv` says that an accepted update is
a move the lifecycle allows. One lemma per action proves that it keeps `LifecycleInv`
(`LifecycleInvariant`); the corollaries are `CompletedIsUploaded`,
`PresentIsAttempted` and `GivenUpAtTheLimit`.

`ImplementsLifecycle` (`Spec => FollowsLifecycle`) is the refinement of `ImageLifecycle`
by the identity on statuses and histories: `MoveSteps` turns an accepted update into a
step of the abstract lifecycle, `EnvironmentSteps` does so for Kubernetes' own steps,
and every other step stutters. `FinalStays` (`Spec => FinalIsFinal`) follows from the
abstract steps alone. `ImagesMove` says the same in the terms of `Statuses`: an image
that exists changes its status by one of `Moves`.

**ClusterImageOrderProofs.** Two properties are about reads that are behind.
`DoneStartsNoJob`: the worker decides to create a Job on a copy from the cache and
creates it before the API server has seen that copy. `OrderInv` says why this is safe:
an outcome (COMPLETED, RETRYING, FAILED) is written only by a worker that has read
that the image runs, in its latest version; a cache never goes back; so a cache that
still shows the image waiting belongs to an image without an outcome.
`FailedExportHasFailedImage`: an export's status is aggregated from cached statuses.
`ExportInv` says that a FAILED status in the cache is still FAILED in the API server
unless the export is gone, and that an export that is gone is not written again.
Both are inductive relative to `LifecycleInv`.

`OldPodsUndoCompleted` is about what `handleJobRestarts` may undo after the clean-up.
`RestartInv`: once the worker has deleted the Job there is none, and where it is about
to write RETRYING or FAILED for restarts, in a version that is still the latest, either
the image was not done, or its Job is gone and the Pod cache lists it all the same. So
COMPLETED is undone by a Pod that outlives its Job and by nothing else, whatever the
faults. `CompletedStays` draws the consequence: without `stalePods` (`NoOldPods`)
`CompletedIsFinal`, which `completed_again` refutes, holds with all other faults; `PodsInv`
adds that the cache then shows no restarts after the clean-up.

`ExportsKeepLifecycle` is one half of the argument that joins the two detailed models.
`ImplementsExportLifecycle` below proves that an export follows `ExportLifecycle` if the
other controller moves images by `Moves` and writes aggregations of what it has seen;
this theorem proves of the detailed model of that other controller that it keeps to the same
lifecycle, with every fault. Its hard case is a FAILED export, over which nothing else
may be written. `ReportInv`: as long as it is FAILED the cache shows one of its images
FAILED (a FAILED image stays so, and a cache does not go back), so that every computation
yields FAILED, and one made earlier is refused.

**ClusterImageJobProofs.** `RecordedFirst` and `CompletedIsDone` relate two steps of a
controller with anything in between. `RecordInv`: at the deletion the stored status is
the outcome, or image and export are gone. `DoneInv`: what a list has shown of an image
that is COMPLETED or PRESENT, of those not `hidden`, stays true until the write that
follows, whatever happens to its status: that a Job of it has succeeded is history, and
PRESENT is left only with the export. `DoneInv` needs `CacheInv` and `StatusInv` for the
cached statuses, and from `ExportInv` that an export the other controller is about to
call COMPLETED is still RUNNING.

`SlotsAreGivenBack` proves `NoSlotLost` for faults among `staleObjects`, `stalePods` and
`crashes` (`SlotFaultsOnly`); here updates are refused. `CalmInv` says what such runs
never see: a restarted container, a removed image or a Job deleted by others, and that
the worker counts off only behind an update that was accepted. `InSlotInv` then bounds
`activeJobs` by the number of images in backup that have a Job (`InSlot`), one more
while a Job to be retried is deleted and not counted off yet (`StillCounted`), and one
less where the Job at hand is not counted yet or not any more (`NotCounted`): a refused
update there leaves the counter behind, never ahead. The last two parts say that an
image is set back to PENDING only when its Job is gone.

**ResourceListingProofs.** `CompleteList` needs to know why the list has nothing missing
when the channel is found closed. `ListingInv` says it: the channel is closed only when
the wait group is empty (`CloserInv`), the wait group counts exactly the goroutines
between their start and their end (`CountInv`), all of a kind are started before there
is a closer (`KindInv`), and one that has ended has appended its containers or left an
error that the channel still has or the caller has returned (`ErrorInv`); the mutex
makes the append one that loses nothing (`MutexInv`). `ReturnsCompleteList` and
`SendsToOpenChannel` follow, and `ListingIsAtomic`, the refinement of `AtomicListing`:
the abstract result is that of the caller and the abstract list is empty until the
caller has returned it. `Succeed` is the step in which the caller finds the channel of
the last kind closed, every other return is `Fail`, and the steps of the goroutines
stutter, those after an error included. It is why `ClusterImageExportReconciler` may
take the listing for one step (`ListImages`).

**ClusterImageExportReconcilerProofs.** Four properties of an export, for any containers,
filters and statuses, with any faults. `ExportInv` has five parts. `CacheInv`: what the
cache shows of a finalizer, of the existence of an image and of a failure is still
true, because none of them is ever undone. `FailedInv`: who has written FAILED, or is
about to, has seen a failed image in the cache. `FinalizerInv`: behind `AddFinalizer`
the finalizer is stored. `ListInv`: each container the loop has passed has its image,
be it created or seen. `HeldInv`: a controller that still holds the latest version is not
about to overwrite a final status it has not seen. The theorems `ExportFailsWithImage`,
`FinalizerComesFirst`, `ListIsComplete` and `FailedIsFinal` follow.
`ImplementsExportLifecycle` is the refinement of `ExportLifecycle` by the identity on the
export and the statuses of its images. `AcceptedInv`, which is inductive relative to
`ExportInv`, adds that behind `SetPending`, or once there is an image, the export has a
status and never loses it: it is why `Create` and `Report` find an accepted export.
`StatusSteps` makes of each stored status an `Accept`, a `Report` or a `GiveUp`.

**ExportNamesProofs.** For any references, not those of one instance, with or without a
port. `NamesAreParsed`: a name splits at its first `@` and what is before that at its
first `:`, and without a port both are where the reference has them (`SplitAt`, from
what the library says of `SelectInSeq`). `PortsAreTags` is its counterpart: with a port
the image is the registry, and the tag is the port, the path and the tag of the
reference. `VersionsHaveHashes` holds of both: of two versions of one repository, one
text cannot be a prefix of the other with the tag of one running into the digest of the
other, since a digest begins with `sha256:` and a tag has no `:`. `VersionsHaveFiles` is
about names that are `Regular`, of which `NormalizeImageName` drops nothing (`Pick` of
all places is the sequence itself), so that it is enough to compare them hyphened.
`OnlyWantedIsCreated` and `VersionsAreApart` carry this to the images that exist,
through `ListedInv` (an image that exists is one of the list) and `ListInv` above.

**ExportDeletionProofs.** `CleanedBeforeRelease` is not inductive: the finalizer is
removed a step after the Job was created, with a copy of the export that may be that of
an earlier one. `DeletionInv` adds that a worker that holds the latest version at
`removeFinalizer` has cleaned up after this export (`HeldInv`), and that an export which
was created when all was gone is untouched until its own deletion (`FreshInv`).
`CleanedFirst` and `FilesSurvive` follow.

Only model-checked: the liveness properties `EventuallySettled`, `JobsCleanedUp`,
`EveryoneEnds`, `ExportSettles`, `EventuallyReleased` and `WaitersDelete` (liveness
under fairness is out of the prover's reach), and `JobsWithinLimit`. Every other
property of a passing run is a theorem.

## 5. Not modelled

* Uploads of an export that is gone. Its backup Jobs may still run after the clean-up;
  nothing in the code tries to stop them before, so that "nothing is left" would fail
  without any fault.
* Of names: which of them are valid (a constant of `ResourceListing`), and letter case.
  `ProcessContainerName` takes a registry's port, and what follows it, for the tag
  (`internal/shared/k8s.go:72`). The model does so too: the filters then see the
  registry only, which is why `OnlyWanted` and the first part of `EachHasItsOwn` exempt
  such images (`Ported`).
* Of two different repositories nothing is promised: `a/b` and `a-b` share a file after
  `NormalizeImageName`, and `nameHash` joins repository, tag and digest without a
  separator (`CE:108`), so that `a:1latest` and `a1` share a text. Nor are the files of
  names that are not `Regular`: hyphens are collapsed and trimmed
  (`definitions.go:93-97`), so that the tags `1--2` and `1-2`, or `v1-` and `v1`, share
  a file, and `a:1-sha256-b` shares one with `a:1@sha256:b`.
* `listImagesInCluster` looks at Deployments, Jobs, DaemonSets and CronJobs only;
  workloads of other kinds are not in the list, and nothing here says they should be.
* The composition of the two detailed controllers in one state space: each is the
  other's environment, reduced to what it does to the shared objects (`CreateImage`, the
  four writes of an export's status and `RemoveExport` in `Cluster`; `ImageMoves` and
  `report` in `ClusterImageExportReconciler`).
* `CreateJob` and `SetupS3Params`: they build an object and command lines and have no
  state. What of it matters to the controllers (a Job's name is its image's, the
  restart policy, the label `app`, that clean-up Jobs have no owner) is in the models of the
  Jobs. The clean-up Job's commands are left out: for `file` it has none (`CE:270-281`).
* The Python scripts: straight-line code around boto3 and the file system. A Job with an
  upload among its commands either uploads or fails.
* Start-up: flags, metrics, probes, `SetupIndexers`. Leader election is taken to
  work, so that one process runs.
* Generated code, charts and manifests.

## 6. Plan

1. An abstract specification of an export's files (uploaded, cleaned, gone) that
   `ExportDeletion` implements, and its clean-up Job's owner in it.
2. The names that `ProcessContainerName` refuses, in `ImageNames`, in place of the constant
   `Valid`.

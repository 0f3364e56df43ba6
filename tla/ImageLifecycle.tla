--------------------------- MODULE ImageLifecycle ---------------------------
(***************************************************************************)
(* What the operator promises about the status of a ClusterImage, whatever *)
(* caches, conflicts, retries and crashes do to the controller that writes *)
(* it: the steps a status may take, and what must have happened to the     *)
(* backup of the image before it takes them.  The statuses are those of    *)
(* internal/shared/definitions.go.                                         *)
(***************************************************************************)
EXTENDS Integers

CONSTANTS
  Image,       \* the ClusterImages
  FullName,    \* the image reference of each
  RetryLimit   \* retries after which an image is FAILED

VARIABLES
  status,      \* [progress, retry] of each image
  attempted,   \* images for which a backup has been started
  succeeded    \* images whose backup Job has run to its end

lifecycleVars == <<status, attempted, succeeded>>

Gone == [progress |-> "ABSENT", retry |-> 0]

Init ==
  /\ status = [i \in Image |-> Gone]
  /\ attempted = {}
  /\ succeeded = {}

\* Image i goes from one of the statuses in From to status to.
Move(i, From, to) ==
  /\ status[i].progress \in From
  /\ status' = [status EXCEPT ![i] = to]

To(i, p) == [progress |-> p, retry |-> status[i].retry]

InBackup == {"RUNNING", "RETRYING"}

Create(i)  == Move(i, {"ABSENT"}, [progress |-> "", retry |-> 0])
Remove(i)  == status' = [status EXCEPT ![i] = Gone]
Enqueue(i) == Move(i, {""} \cup InBackup, To(i, "PENDING"))

Start(i) ==
  /\ i \in attempted
  /\ Move(i, {"PENDING"}, To(i, "RUNNING"))

Skip(i) ==
  /\ \E j \in attempted : FullName[j] = FullName[i]
  /\ Move(i, {"PENDING"}, To(i, "PRESENT"))

Complete(i) ==
  /\ i \in succeeded
  /\ Move(i, InBackup, To(i, "COMPLETED"))

\* A failed Job is tried again; so is one whose container has restarted, even
\* after it has been found complete.
Retry(i) == \E n \in (status[i].retry + 1) .. RetryLimit :
  Move(i, InBackup \cup {"COMPLETED"}, [progress |-> "RETRYING", retry |-> n])

\* The count of a FAILED image can still grow by restarts found while its Job
\* is cleaned up.
GiveUp(i) == LET n == status'[i].retry IN
  /\ n >= RetryLimit /\ n >= status[i].retry
  /\ Move(i, InBackup \cup {"COMPLETED", "FAILED"}, [progress |-> "FAILED", retry |-> n])

StatusStep(i) ==
  /\ \/ Create(i) \/ Remove(i) \/ Enqueue(i) \/ Start(i) \/ Skip(i)
     \/ Complete(i) \/ Retry(i) \/ GiveUp(i)
  /\ UNCHANGED <<attempted, succeeded>>

\* A Job is created, and a Job ends well.
BackupStep(i) ==
  /\ \/ attempted' = attempted \cup {i} /\ UNCHANGED succeeded
     \/ i \in attempted /\ succeeded' = succeeded \cup {i} /\ UNCHANGED attempted
  /\ UNCHANGED status

Next == \E i \in Image : StatusStep(i) \/ BackupStep(i)

Spec == Init /\ [][Next]_lifecycleVars
=============================================================================

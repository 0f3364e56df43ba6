------------------------- MODULE ExportDeletionProofs -------------------------
(***************************************************************************)
(* For any number of lives of an export and any number of faults: it goes  *)
(* only after a clean-up, and a clean-up leaves the files of another alone *)
(* if the user has waited for it.                                          *)
(***************************************************************************)
EXTENDS ExportDeletion, TLAPS

LEMMA FaultsCounted ==
  ASSUME TypeOK, NoFault \/ \E f \in FaultKinds : Fault(f)
  PROVE  faults' \in 0 .. MaxFaults
BY ConstantsAssumption DEF TypeOK, NoFault, Fault, ConstantsAssumption

LEMMA OperatorTypes ==
  ASSUME TypeOK, Operator
  PROVE  TypeOK'
<1>1. CASE Reconcile
  BY <1>1 DEF Reconcile, TypeOK, Holder, jobVars, waiters
<1>2. CASE CreateJob
  <2>1. faults' \in 0 .. MaxFaults
    BY <1>2, FaultsCounted DEF CreateJob, FaultKinds
  <2>2. waiting' \in {waiting, waiting + 1} /\ job' \in {job, "active"}
    BY <1>2, Zenon DEF CreateJob, JobCreated
  <2>3. cleaned' \in BOOLEAN BY <1>2 DEF CreateJob, JobCreated, TypeOK
  <2>4. due' \in BOOLEAN BY <1>2 DEF CreateJob, Return, Goto, TypeOK
  <2>5. pc' \in {"idle", "createJob", "removeFinalizer"}
    BY <1>2 DEF CreateJob, Return, Goto
  <2> QED BY <1>2, <2>1, <2>2, <2>3, <2>4, <2>5 DEF CreateJob, TypeOK, JobState, exportVars
<1>3. CASE RemoveFinalizer
  <2>1. faults' \in 0 .. MaxFaults
    BY <1>3, FaultsCounted DEF RemoveFinalizer, FaultKinds
  <2>2. export' \in ExportState /\ latest' \subseteq Holder
    BY <1>3 DEF RemoveFinalizer, Released, TypeOK, ExportState
  <2>3. due' \in BOOLEAN /\ pc' = "idle" BY <1>3 DEF RemoveFinalizer, Return, TypeOK
  <2> QED BY <1>3, <2>1, <2>2, <2>3 DEF RemoveFinalizer, TypeOK, jobVars, waiters
<1>4. CASE Poll
  <2>1. waiting' \in Nat /\ deleting' \in Nat BY <1>4 DEF Poll, Ends, TypeOK
  <2> QED BY <1>4, <2>1 DEF Poll, TypeOK, exportVars, jobVars
<1>5. CASE DeleteJob
  <2>1. faults' \in 0 .. MaxFaults BY <1>5, FaultsCounted DEF DeleteJob, FaultKinds
  <2>2. deleting' \in Nat BY <1>5 DEF DeleteJob, TypeOK
  <2> QED BY <1>5, <2>1, <2>2 DEF DeleteJob, TypeOK, JobState, exportVars
<1>6. CASE Crash
  <2>1. faults' \in 0 .. MaxFaults BY <1>6, FaultsCounted DEF Crash, FaultKinds
  <2> QED BY <1>6, <2>1 DEF Crash, TypeOK, Holder
<1> QED BY <1>1, <1>2, <1>3, <1>4, <1>5, <1>6 DEF Operator

LEMMA OthersTypes ==
  ASSUME TypeOK, Cluster \/ Users
  PROVE  TypeOK'
<1>1. CASE JobEnds
  BY <1>1 DEF JobEnds, TypeOK, Finished, JobState, exportVars, waiters
<1>2. CASE RemoveAllJobs
  <2>1. faults' \in 0 .. MaxFaults BY <1>2, FaultsCounted DEF RemoveAllJobs, FaultKinds
  <2> QED BY <1>2, <2>1 DEF RemoveAllJobs, TypeOK, JobState, exportVars, waiters
<1>3. CASE StatusWritten
  <2>1. faults' \in 0 .. MaxFaults BY <1>3, FaultsCounted DEF StatusWritten, FaultKinds
  <2> QED BY <1>3, <2>1 DEF StatusWritten, TypeOK, jobVars, waiters
<1>4. CASE CreateExport
  <2>1. lives' \in 0 .. MaxLives
    BY <1>4, ConstantsAssumption DEF CreateExport, TypeOK, ConstantsAssumption
  <2> QED BY <1>4, <2>1 DEF CreateExport, TypeOK, ExportState, waiters
<1>5. CASE DeleteExport BY <1>5 DEF DeleteExport, TypeOK, ExportState, jobVars, waiters
<1>6. CASE Upload BY <1>6 DEF Upload, TypeOK, exportVars, waiters
<1>7. CASE SyncExport BY <1>7 DEF SyncExport, TypeOK, Holder, jobVars, waiters
<1>8. CASE SyncJob BY <1>8 DEF SyncJob, TypeOK, exportVars, waiters
<1>9. CASE ImageEvent BY <1>9 DEF ImageEvent, TypeOK, exportVars, jobVars, waiters
<1> QED BY <1>1, <1>2, <1>3, <1>4, <1>5, <1>6, <1>7, <1>8, <1>9 DEF Cluster, Users

LEMMA NextTypes == TypeOK /\ [Next]_vars => TypeOK'
<1> SUFFICES ASSUME TypeOK, [Next]_vars PROVE TypeOK' OBVIOUS
<1>1. CASE UNCHANGED vars BY <1>1 DEF vars, exportVars, jobVars, waiters, TypeOK
<1> QED BY <1>1, OperatorTypes, OthersTypes DEF Next

\* For any number of lives and faults, every variable keeps its type.
THEOREM DeletionTypeCorrect == Spec => []TypeOK
<1>1. ASSUME Init PROVE TypeOK
  <2>1. lives \in 0 .. MaxLives /\ faults \in 0 .. MaxFaults
    BY <1>1, ConstantsAssumption DEF Init, ConstantsAssumption
  <2> QED BY <1>1, <2>1 DEF Init, TypeOK, ExportState, JobState, Holder
<1> QED BY <1>1, NextTypes, PTL DEF Spec

-----------------------------------------------------------------------------
\* What the latest version of the export says to the worker that holds it.
HeldInv ==
  /\ "cache" \in latest => exportSeen = export
  /\ pc \in {"createJob", "removeFinalizer"} /\ "worker" \in latest => export = "deleted"
  /\ pc = "removeFinalizer" /\ "worker" \in latest => cleaned

\* An export that was created after all traces of the last one had gone.
FreshInv ==
  export = "live" /\ ~ hasty => job = "none" /\ exportSeen # "deleted" /\ pc = "idle"

DeletionInv == HeldInv /\ FreshInv /\ CleanedBeforeRelease

LEMMA NextInv == TypeOK /\ DeletionInv /\ [Next]_vars => DeletionInv'
<1> SUFFICES ASSUME TypeOK, DeletionInv, [Next]_vars PROVE DeletionInv' OBVIOUS
<1> USE DEF DeletionInv, HeldInv, FreshInv, CleanedBeforeRelease, exportVars, jobVars, waiters
<1>1. CASE Reconcile BY <1>1 DEF Reconcile
<1>2. CASE CreateJob BY <1>2 DEF CreateJob, JobCreated, Return, Goto
<1>3. CASE RemoveFinalizer BY <1>3 DEF RemoveFinalizer, Released, Return
<1>4. CASE Poll \/ DeleteJob BY <1>4 DEF Poll, DeleteJob
<1>5. CASE Crash BY <1>5 DEF Crash
<1>6. CASE JobEnds \/ RemoveAllJobs \/ SyncJob \/ ImageEvent
  BY <1>6 DEF JobEnds, RemoveAllJobs, SyncJob, ImageEvent
<1>7. CASE SyncExport BY <1>7 DEF SyncExport
<1>8. CASE CreateExport BY <1>8 DEF CreateExport
<1>9. CASE DeleteExport \/ Upload \/ StatusWritten
  BY <1>9 DEF DeleteExport, Upload, StatusWritten
<1>10. CASE UNCHANGED vars BY <1>10 DEF vars
<1> QED
  BY <1>1, <1>2, <1>3, <1>4, <1>5, <1>6, <1>7, <1>8, <1>9, <1>10
     DEF Next, Operator, Cluster, Users

THEOREM DeletionInvariant == Spec => []DeletionInv
<1>1. Init => DeletionInv
  BY DEF Init, DeletionInv, HeldInv, FreshInv, CleanedBeforeRelease
<1> QED BY <1>1, NextInv, DeletionTypeCorrect, PTL DEF Spec

\* The finalizer goes only after a clean-up Job was created that began when the export
\* was already deleted.
THEOREM CleanedFirst == Spec => []CleanedBeforeRelease
<1> QED BY DeletionInvariant, PTL DEF DeletionInv

LEMMA FilesKept ==
  ASSUME TypeOK, DeletionInv, [Next]_vars, export = "live", files, ~ files'
  PROVE  hasty
<1> USE DEF exportVars, jobVars, waiters
<1>1. CASE JobEnds BY <1>1 DEF JobEnds, DeletionInv, FreshInv
<1>2. CASE CreateExport BY <1>2 DEF CreateExport
<1>3. CASE Operator
  BY <1>3 DEF Operator, Reconcile, CreateJob, RemoveFinalizer, Poll, DeleteJob, Crash
<1>4. CASE RemoveAllJobs \/ SyncJob \/ ImageEvent \/ SyncExport
  BY <1>4 DEF RemoveAllJobs, SyncJob, ImageEvent, SyncExport
<1>5. CASE DeleteExport \/ Upload \/ StatusWritten
  BY <1>5 DEF DeleteExport, Upload, StatusWritten
<1>6. CASE UNCHANGED vars BY <1>6 DEF vars
<1> QED BY <1>1, <1>2, <1>3, <1>4, <1>5, <1>6 DEF Next, Cluster, Users

\* A clean-up removes no files of a live export, unless the user did not wait for the
\* last export of its name to be gone and cleaned up.
THEOREM FilesSurvive == Spec => BackupsSurvive
<1>1. TypeOK /\ DeletionInv /\ [Next]_vars =>
        (export = "live" /\ files /\ ~ files' => hasty)
  BY FilesKept
<1> QED BY <1>1, DeletionTypeCorrect, DeletionInvariant, PTL DEF Spec, BackupsSurvive
=============================================================================

------------------------------ MODULE Statuses ------------------------------
(***************************************************************************)
(* The statuses of the custom resources (internal/shared/definitions.go),  *)
(* and how the controller of the ClusterImages makes the status of an      *)
(* export from those of its images.                                        *)
(***************************************************************************)

Absent   == "ABSENT"     \* no such object
New      == ""           \* created, its status still empty
PENDING  == "PENDING"
RUNNING  == "RUNNING"
RETRYING == "RETRYING"
SUCCESS  == "COMPLETED"
FAILED   == "FAILED"
PRESENT  == "PRESENT"

Progress == {Absent, New, PENDING, RUNNING, RETRYING, SUCCESS, FAILED, PRESENT}

\* The changes that ImageLifecycle makes of the status of an image that exists.
Moves ==
  {<<New, PENDING>>, <<PENDING, RUNNING>>, <<PENDING, PRESENT>>}
    \cup ({RUNNING, RETRYING} \X {PENDING, RETRYING, SUCCESS, FAILED})
    \cup ({SUCCESS} \X {RETRYING, FAILED})

\* The switch has no case for the empty status of a new image.
AllCompleted_RunningToo(S) == S \cap {FAILED, PENDING} = {}
AllCompleted(S) == S \cap {FAILED, RUNNING, RETRYING, PENDING} = {}

Aggregate_RetryingFailed(S) ==
  CASE AllCompleted(S) -> SUCCESS
    [] S \cap {FAILED, RETRYING} # {} -> FAILED
    [] S \cap {FAILED, RETRYING} = {} /\ RUNNING \in S -> RUNNING
    [] OTHER -> PENDING

Aggregate(S) ==
  CASE AllCompleted(S) -> SUCCESS
    [] FAILED \in S -> FAILED
    [] FAILED \notin S /\ S \cap {RUNNING, RETRYING} # {} -> RUNNING
    [] OTHER -> PENDING
=============================================================================

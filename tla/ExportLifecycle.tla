--------------------------- MODULE ExportLifecycle ---------------------------
(***************************************************************************)
(* What the operator promises about a ClusterImageExport and the           *)
(* ClusterImages it owns to those who watch them: two controllers write    *)
(* its status, each from an aggregation of its own, and crashes, conflicts *)
(* and late caches come between; still they seem to take turns in these    *)
(* steps.                                                                  *)
(***************************************************************************)
EXTENDS Statuses

CONSTANT Key   \* names of ClusterImages

VARIABLES
  export,   \* [progress, finalizer]
  image     \* status of each ClusterImage

lifecycleVars == <<export, image>>

Init ==
  /\ export = [progress |-> New, finalizer |-> FALSE]
  /\ image = [k \in Key |-> Absent]

Protect ==
  /\ export' = [export EXCEPT !.finalizer = TRUE]
  /\ UNCHANGED image

\* From here on its images are created, and it is never again without a status.
Accept ==
  /\ export = [progress |-> New, finalizer |-> TRUE]
  /\ export' = [export EXCEPT !.progress = PENDING]
  /\ UNCHANGED image

Accepted == export.finalizer /\ export.progress # New

Create(k) ==
  /\ Accepted
  /\ image[k] = Absent
  /\ image' = [image EXCEPT ![k] = New]
  /\ UNCHANGED export

Advance(k) ==
  /\ \E p \in Progress : /\ <<image[k], p>> \in Moves
                         /\ image' = [image EXCEPT ![k] = p]
  /\ UNCHANGED export

\* COMPLETED is not final: late caches hide images that are not done.
Report ==
  /\ Accepted /\ export.progress # FAILED
  /\ \E p \in {PENDING, RUNNING, SUCCESS} : export' = [export EXCEPT !.progress = p]
  /\ UNCHANGED image

GiveUp ==
  /\ Accepted
  /\ \E k \in Key : image[k] = FAILED
  /\ export' = [export EXCEPT !.progress = FAILED]
  /\ UNCHANGED image

Next == Protect \/ Accept \/ Report \/ GiveUp \/ \E k \in Key : Create(k) \/ Advance(k)

Spec == Init /\ [][Next]_lifecycleVars
=============================================================================

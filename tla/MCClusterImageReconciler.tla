---------------------- MODULE MCClusterImageReconciler ----------------------
(***************************************************************************)
(* ClusterImageReconciler on small instances: the values its constants are *)
(* given in the .cfg files of its runs.                                    *)
(***************************************************************************)
EXTENDS ClusterImageInvariant, TLC

CONSTANTS i1, i2, e1, e2

\* Which images belong to which export.
OneExport  == [i \in Image |-> e1]
TwoExports == i1 :> e1 @@ i2 :> e2

\* Images of one name, as two exports of one cluster have, or of different names.
SameName  == [i \in Image |-> "busybox"]
TwoNames  == i1 :> "busybox" @@ i2 :> "nginx"

\* The storage of the sample export, for all images.
InS3 == [i \in Image |-> "S3"]

NoneAtATime == [e \in Export |-> 0]
OneAtATime  == [e \in Export |-> 1]
TwoAtATime  == [e \in Export |-> 2]

\* The instances look the same when their images, and their exports, are swapped.
SwapImages  == {i1 :> i2 @@ i2 :> i1}
SwapExports == {i1 :> i2 @@ i2 :> i1 @@ e1 :> e2 @@ e2 :> e1}
=============================================================================

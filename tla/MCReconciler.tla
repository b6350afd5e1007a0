---------------------------- MODULE MCReconciler ----------------------------
(* Small instance: the reconciler watches the kernel's repository on the    *)
(* default registry or on a mirror with a port; manifests are signed for    *)
(* the former and for another repository of the mirror.                     *)
EXTENDS Reconciler

kernel == [registry |-> "aryalabs", repo |-> "safety-kernel",
           port |-> FALSE, pinned |-> FALSE]
mirrored == [registry |-> "mirror", repo |-> "safety-kernel",
             port |-> TRUE, pinned |-> FALSE]
other == [registry |-> "mirror", repo |-> "other",
          port |-> TRUE, pinned |-> FALSE]

\* Whichever is watched, one of the manifests' images passes check_image.
MCImages == {kernel, other}
MCConfigured == {kernel, mirrored}
=============================================================================

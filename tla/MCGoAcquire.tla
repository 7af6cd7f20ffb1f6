----------------------------- MODULE MCGoAcquire -----------------------------
(* GoAcquire for TLC, on the memories of MCImager. *)
EXTENDS GoAcquire
MC == INSTANCE MCImager
MCLayouts == MC!HiddenInRuns
=============================================================================

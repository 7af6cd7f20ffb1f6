---------------------------- MODULE MCCppImager ----------------------------
(* CppImager for TLC, on the memories of MCImager. *)
EXTENDS CppImager
MC == INSTANCE MCImager
MCLayouts == MC!HiddenInRuns
=============================================================================

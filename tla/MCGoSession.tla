----------------------------- MODULE MCGoSession -----------------------------
(* GoSession for TLC: two processes.                                          *)
EXTENDS GoSession
=============================================================================

-------------------------- MODULE MCDriverLifecycle --------------------------
(* DriverLifecycle for TLC: page 0, the rogue page and one page to read.      *)
EXTENDS DriverLifecycle
MCPages == 0 .. 2
=============================================================================

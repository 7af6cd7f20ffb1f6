---------------------------- MODULE MCCppSession ----------------------------
(* CppSession for TLC: two runs, one after the other.                         *)
EXTENDS CppSession
=============================================================================

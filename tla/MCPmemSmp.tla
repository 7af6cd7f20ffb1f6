----------------------------- MODULE MCPmemSmp ------------------------------
(* PmemSmp for TLC: one client that reads two pages in the PTE mode.         *)
EXTENDS PmemSmp

TwoPages == {[addr |-> 2, len |-> 4]}
UsesPte  == {[asks |-> {PTE}, setFirst |-> TRUE]}
=============================================================================

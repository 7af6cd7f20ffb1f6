------------------------------ MODULE RawImage ------------------------------
(***************************************************************************)
(* What an acquisition promises: a raw image is a file in which every page *)
(* of physical memory sits at the offset that is its address.  Pages of    *)
(* the memory ranges that can be read are there; pages outside the ranges, *)
(* and pages the hypervisor hides, are pages of zeros.                     *)
(*                                                                         *)
(* The unit is the page.  A genuine page is named by its page number.      *)
(***************************************************************************)
EXTENDS Integers, Sequences

CONSTANT Layouts     \* the memories considered: records [runs, hidden]

VARIABLES
    layout,          \* runs: sequence of [base, len], ascending; hidden: unreadable pages
    file,            \* the output file, a function from 0 .. size - 1
    status           \* "running", "done" or "failed"

vars == <<layout, file, status>>

Zero == -1

PagesOf(run) == run.base .. run.base + run.len - 1
End(l) == IF l.runs = <<>> THEN 0
          ELSE l.runs[Len(l.runs)].base + l.runs[Len(l.runs)].len

Expected(l, p) ==
    IF p \notin l.hidden /\ \E i \in DOMAIN l.runs : p \in PagesOf(l.runs[i])
    THEN p ELSE Zero

\* The first n pages of the right image.
Image(l, n) == [p \in 0 .. n - 1 |-> Expected(l, p)]

Init ==
    /\ layout \in Layouts
    /\ file = Image(layout, 0)
    /\ status = "running"

Extend ==
    /\ status = "running"
    /\ \E m, n \in 0 .. End(layout) :
          /\ m < n
          /\ file = Image(layout, m)
          /\ file' = Image(layout, n)
    /\ UNCHANGED <<layout, status>>

Finish ==
    /\ status = "running"
    /\ file = Image(layout, End(layout))
    /\ status' = "done"
    /\ UNCHANGED <<layout, file>>

\* Cancelled by the user, or the output cannot be written.
Abort ==
    /\ status = "running"
    /\ status' = "failed"
    /\ UNCHANGED <<layout, file>>

Next == Extend \/ Finish \/ Abort

Spec == Init /\ [][Next]_vars /\ WF_vars(Next)
=============================================================================

----------------------------- MODULE MCGoReadAt -----------------------------
(* GoReadAt for TLC.  Pages of two bytes; memory in pages 1, 2 and 4, a gap  *)
(* before and between, page 5 and on beyond the end.  Page 0 is never readable.*)
EXTENDS GoReadAt

Runs == << [base |-> 2, len |-> 4], [base |-> 8, len |-> 2] >>
MCLayouts == {[runs |-> Runs, hidden |-> h] : h \in {{0}, {0, 1}, {0, 3}}}

Ask(o, n) == [offset |-> o, len |-> n]
\* From the gap before the first range into it, twice; from the middle of a page over
\* the range's end; a whole range; a part of a page; beyond the last range; nothing.
MCRequests == {Ask(0, 4), Ask(1, 2), Ask(5, 3), Ask(2, 4), Ask(8, 1), Ask(10, 1), Ask(2, 0)}

\* One range of two pages, the first of which cannot be read.
OneHidden == {[runs |-> << [base |-> 2, len |-> 4] >>, hidden |-> {0, 1}]}
Whole     == {Ask(2, 4)}
=============================================================================

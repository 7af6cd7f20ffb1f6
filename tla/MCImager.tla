------------------------------ MODULE MCImager ------------------------------
(* The memories that the imagers are checked on: a range at page 0, adjacent *)
(* ranges, gaps shorter and longer than a block, ranges that are and are not *)
(* a multiple of a bulk, every set of hidden pages, and an empty memory.     *)
EXTENDS Integers, Sequences

Run(b, n) == [base |-> b, len |-> n]
RunLists == { <<>>,
              <<Run(0, 3)>>,
              <<Run(1, 4), Run(5, 1)>>,
              <<Run(0, 1), Run(2, 2), Run(7, 3)>> }
MCLayouts == UNION { {[runs |-> rs, hidden |-> h] : h \in SUBSET (0 .. 9)} : rs \in RunLists }
InRuns(rs) == UNION {rs[i].base .. rs[i].base + rs[i].len - 1 : i \in DOMAIN rs}
\* Pages are hidden from a range; the driver refuses to read at address 0.
HiddenInRuns == {l \in MCLayouts :
    l.hidden \subseteq InRuns(l.runs) /\ (0 \in InRuns(l.runs) => 0 \in l.hidden)}
=============================================================================

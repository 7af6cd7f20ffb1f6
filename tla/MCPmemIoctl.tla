---------------------------- MODULE MCPmemIoctl -----------------------------
(* PmemIoctl for TLC.  Tables of two entries, one table per level (page      *)
(* 10 + its level); every level has an entry that leads on and one that does *)
(* not: absent, or a large page where there are large pages.  At most one    *)
(* table has no virtual address.                                             *)
EXTENDS PmemIoctl

Absent == [present |-> FALSE, large |-> FALSE, frame |-> 0]
Small(f) == [present |-> TRUE, large |-> FALSE, frame |-> f]
Large(f) == [present |-> TRUE, large |-> TRUE, frame |-> f]
Entries(a, b) == [i \in Index |-> IF i = 0 THEN a ELSE b]

Tables(l3, l2, l1) ==
    [t \in 11 .. 14 |-> CASE t = 14 -> Entries(Small(13), Absent)
                          [] t = 13 -> Entries(Small(12), l3)
                          [] t = 12 -> Entries(Small(11), l2)
                          [] t = 11 -> Entries(l1, Small(32))]
Levels == 11 .. 14
MCMachines ==
    {[root |-> 14, leaf |-> 11, virtual |-> v, tables |-> Tables(l3, l2, l1)] :
        v \in {Levels} \cup {Levels \ {t} : t \in Levels},
        l3 \in {Absent, Large(40)}, l2 \in {Absent, Large(20), Large(21)},
        l1 \in {Absent, Small(31), Large(35)}}
\* Large(f) has its PAT bit set as a level-1 entry, and with an odd f as one of level 2.
MCLeafEntries == {Absent, Small(31), Large(35), [Small(32) EXCEPT !.present = FALSE]}

Va(a, b, c, d) == <<d, c, b, a>>
MCQueries == {Null, Va(0, 0, 0, 1), Va(0, 0, 1, 0), Va(0, 0, 1, 1),
              Va(0, 1, 1, 1), Va(1, 0, 0, 1)}

\* No memory, and lists of up to one range more than NUMBER_OF_RUNS.
MCMemories == {<<>>, <<"r1">>, <<"r1", "r2">>, <<"r1", "r3">>, <<"r1", "r2", "r3">>}

\* GET_INFO and an unknown code with all buffers, on a machine that does not matter to
\* them; searches with all buffers on one machine, and with good ones on all; and a
\* request that goes with the loading of the driver.
Request(code, in, out, va) == [code |-> code, in |-> in, out |-> out, va |-> va]
Scenario(c, mem, m) == [call |-> c, memory |-> mem, machine |-> m, loaded |-> TRUE]
SomeMachine == [root |-> 14, leaf |-> 11, virtual |-> Levels,
                tables |-> Tables(Absent, Large(20), Small(31))]
\* As Windows does it: an entry of the root leads to the root, so tables can be addressed.
SelfMapped == [SomeMachine EXCEPT !.tables[14] = Entries(Small(13), Small(14))]
MCScenarios ==
    {Scenario(Request(c, i, o, Null), mem, SomeMachine) :
        c \in {"GET_INFO", "unknown"}, i \in Buffers, o \in Buffers, mem \in MCMemories}
    \cup {Scenario(Request("REVERSE_SEARCH_QUERY", i, o, Va(0, 0, 0, 1)), <<>>, m) :
        i \in Buffers, o \in Buffers, m \in {SomeMachine}}
    \cup {Scenario(Request("REVERSE_SEARCH_QUERY", "word", "word", va), <<>>, m) :
        va \in MCQueries, m \in MCMachines}
    \cup {Scenario(Request("REVERSE_SEARCH_QUERY", "word", "word", va), <<>>, SelfMapped) :
        va \in {Va(1, 0, 0, 0), Va(1, 1, 0, 1), Va(1, 1, 1, 1), Va(0, 0, 0, 1)}}
    \cup {[Scenario(Request("unknown", "none", "none", Null), <<>>, SomeMachine)
             EXCEPT !.loaded = FALSE]}

\* The first two fit into the first buffer, the others do not; kr alone is a name the
\* driver takes for the kernel's.
MCModuleLists ==
    {<<"nt">>, <<"nt", "kr">>, <<"nt", "other", "kr">>, <<"nt", "other", "kr", "other">>}
=============================================================================

------------------------------ MODULE PageWalk ------------------------------
(***************************************************************************)
(* virt_find_pte of src/pte_mmap.c - how the driver finds the page-table   *)
(* entry that maps a virtual address, for its rogue page when it is loaded *)
(* and for any address in IOCTL_REVERSE_SEARCH_QUERY - and, beside it,     *)
(* what the processor makes of the same page tables.                       *)
(*                                                                         *)
(* Level 4 is the PML4, level 1 a page table.  An entry is a record        *)
(* [present, large, frame]: large is bit 7 and frame a page number.  Tables*)
(* are known by their page number; the offset in a page plays no part.     *)
(*                                                                         *)
(* Bit 7 of a level-1 entry is its PAT bit and says nothing of its size.  A*)
(* large page begins at a multiple of its size; its PAT bit is the lowest  *)
(* of what is the frame in a level-1 entry.                                *)
(***************************************************************************)
EXTENDS Integers

CONSTANT Fanout      \* entries of a table (512)

ASSUME FanoutAssumption == Fanout \in Nat \ {0}

Index == 0 .. Fanout - 1
\* A virtual address: va[l] is the index it has at level l.
Address == [1 .. 4 -> Index]
Null == [l \in 1 .. 4 |-> 0]

Entry == [present : BOOLEAN, large : BOOLEAN, frame : Nat]

\* A machine has a root table (CR3), its tables by page number, and the tables for
\* which MmGetVirtualForPhysical gives an address; leaf is a level-1 table.  The entries
\* that va selects, as far as they lead to tables:
Entry4(m, va) == m.tables[m.root][va[4]]
Entry3(m, va) == m.tables[Entry4(m, va).frame][va[3]]
Entry2(m, va) == m.tables[Entry3(m, va).frame][va[2]]
Entry1(m, va) == m.tables[Entry2(m, va).frame][va[1]]

\* The tables that are consulted for va exist, and the level-1 table is none of those
\* of a higher level (where the kernel maps its own tables, only the others recur).
WellFormed(m, va) ==
    LET upper == DOMAIN m.tables \ {m.leaf}
        e4 == Entry4(m, va)
        e3 == Entry3(m, va)
        e2 == Entry2(m, va)
    IN  /\ m = [root |-> m.root, leaf |-> m.leaf, virtual |-> m.virtual, tables |-> m.tables]
        /\ m.tables \in [DOMAIN m.tables -> [Index -> Entry]]
        /\ m.virtual \subseteq DOMAIN m.tables /\ m.leaf \in DOMAIN m.tables
        /\ m.root \in upper
        /\ e4.present => e4.frame \in upper
        /\ (e4.present /\ e3.present /\ ~e3.large) =>
              /\ e3.frame \in upper
              /\ e2.present => IF e2.large THEN e2.frame % Fanout \in {0, 1}
                                           ELSE e2.frame \in DOMAIN m.tables

-----------------------------------------------------------------------------
(* The processor.                                                            *)

Unmapped == [page |-> 0, level |-> 0, pat |-> FALSE]

\* The page number va is translated to, if it is mapped, by an entry of which level,
\* and whether that entry has its PAT bit set.
Translation(m, va) ==
    LET e4 == Entry4(m, va)
        e3 == Entry3(m, va)
        e2 == Entry2(m, va)
        e1 == Entry1(m, va)
        large(e, size, within, level) ==
            [page |-> e.frame - (e.frame % size) + within, level |-> level,
             pat |-> e.frame % size # 0]
    IN  IF ~e4.present \/ ~e3.present THEN Unmapped
        ELSE IF e3.large THEN large(e3, Fanout * Fanout, va[2] * Fanout + va[1], 3)
        ELSE IF ~e2.present THEN Unmapped
        ELSE IF e2.large THEN large(e2, Fanout, va[1], 2)
        ELSE IF ~e1.present THEN Unmapped
        ELSE [page |-> e1.frame, level |-> 1, pat |-> e1.large]

-----------------------------------------------------------------------------
(* The driver.                                                               *)

NotFound == [found |-> FALSE, table |-> 0, index |-> 0]

\* virt_find_pte's return value and *pPTE, going down from the root.  A page of
\* level 2 is found, one of level 3 is an error.
VirtFindPte(m, va) ==
    LET e4 == Entry4(m, va)
        e3 == Entry3(m, va)
        e2 == Entry2(m, va)
    IN  IF m.root \notin m.virtual \/ ~e4.present
           \/ e4.frame \notin m.virtual \/ ~e3.present \/ e3.large
           \/ e3.frame \notin m.virtual \/ ~e2.present THEN NotFound
        ELSE IF e2.large THEN [found |-> TRUE, table |-> e3.frame, index |-> va[2]]
        ELSE IF e2.frame \notin m.virtual \/ ~Entry1(m, va).present THEN NotFound
        ELSE [found |-> TRUE, table |-> e2.frame, index |-> va[1]]

\* Mutant: the index within a large page is left out.
PageOfBase(frame, large, va) == frame

\* What the reverse search makes of an entry's frame: bit 7 means a large page to it.
PageOf(frame, large, va) == IF large THEN frame + va[1] ELSE frame
=============================================================================

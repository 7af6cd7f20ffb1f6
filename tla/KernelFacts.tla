----------------------------- MODULE KernelFacts ----------------------------
(***************************************************************************)
(* src/kd.c: what the driver finds out about the running kernel.           *)
(*                                                                         *)
(* KernelGetModuleBaseByPtr, called once by DriverEntry, asks for the list *)
(* of loaded modules - first with a small buffer, and if the list does not *)
(* fit with one of the size the first answer named - and takes the first   *)
(* module with a name like the kernel's.  Drivers come and go meanwhile.   *)
(*                                                                         *)
(* GetKPCR, called by IOCTL_GET_INFO, visits every active processor to read*)
(* that processor's own KPCR.  The scheduler moves a thread to any         *)
(* processor its affinity allows, and processors may be added.             *)
(*                                                                         *)
(* Abstracted: of a module's name, whether it has nt and os or kr in it;   *)
(* a module's base is its place in the list, a KPCR its processor's number *)
(* plus one.  Sizes count modules.  The module list, the system calls     *)
(* and the scheduler are external.                                         *)
(***************************************************************************)
EXTENDS Integers, Sequences

CONSTANTS
    ModuleLists,     \* the lists of loaded modules: sequences of names
    PreAllocated,    \* modules that fit into preAllocateSize
    Processors       \* numbers of the processors the machine may have

Names == {"nt", "kr", "other"}     \* nt..os or nt..kr; ..kr without nt; neither

\* The kernel is the first module that is loaded.
ASSUME ListsAssumption ==
    \A list \in ModuleLists : list \in Seq(Names) /\ list # <<>> /\ list[1] = "nt"
ASSUME PreAllocatedAssumption == PreAllocated \in Nat
\* Bits of a mask; the machine has booted on processor 0.
ASSUME ProcessorsAssumption == Processors \subseteq 0 .. 63 /\ 0 \in Processors

VARIABLES
    modules,     \* the modules that are loaded
    lookup,      \* KernelGetModuleBaseByPtr: [pc, size, allocated, list]
    kernelbase,  \* extension->kernelbase
    disturbed,   \* history: the list outgrew the second buffer, or a call failed
    active,      \* the processors that are running
    cpu,         \* the one the requesting thread runs on
    affinity,    \* those it may run on
    survey       \* GetKPCR: [pc, mask, kpcr]

facts == <<modules, lookup, kernelbase, disturbed>>
processors == <<active, cpu, affinity, survey>>

NtBase == 1
NoList == <<>>
NoLookup == [pc |-> "done", size |-> 0, allocated |-> FALSE, list |-> NoList]
Kpcr(p) == p + 1
NoSurvey == [pc |-> "no", mask |-> {}, kpcr |-> [p \in Processors |-> 0]]

\* The other processors come when they may be noticed.
InitProcessors ==
    /\ active = {0}
    /\ cpu = 0
    /\ affinity = Processors
    /\ survey = NoSurvey

InitLookup ==
    /\ modules \in ModuleLists
    /\ lookup = [NoLookup EXCEPT !.pc = "allocate"]
    /\ kernelbase = 0
    /\ disturbed = FALSE

\* A driver whose DriverEntry found the kernel.
InitKnown ==
    /\ modules = <<"nt">>
    /\ lookup = NoLookup
    /\ kernelbase = NtBase
    /\ disturbed = FALSE

-----------------------------------------------------------------------------
(* The kernel.                                                               *)

\* Drivers are loaded or unloaded.
ModulesChange ==
    /\ lookup.pc # "done"
    /\ modules' \in ModuleLists \ {modules}
    /\ disturbed' = \/ disturbed
                    \/ lookup.pc \in {"reallocate", "requery"} /\ Len(modules') > lookup.size
    /\ UNCHANGED <<lookup, kernelbase>>

\* The scheduler moves the thread.
Migrate ==
    /\ survey.pc \in {"called", "pin", "self"}
    /\ cpu' \in (affinity \cap active) \ {cpu}
    /\ UNCHANGED <<active, affinity, survey>>

AddProcessor ==
    /\ survey.pc \in {"called", "pin", "self"}
    /\ \E p \in Processors \ active : active' = active \cup {p}
    /\ UNCHANGED <<cpu, affinity, survey>>

-----------------------------------------------------------------------------
(* KernelGetModuleBaseByPtr.                                                 *)

\* The buffer is freed, the base is returned.
Found(base) ==
    /\ lookup' = NoLookup
    /\ kernelbase' = base

Fails ==
    /\ Found(0)
    /\ disturbed' = TRUE
    /\ UNCHANGED modules

\* The first buffer, and the second one.
Allocate ==
    /\ lookup.pc \in {"allocate", "reallocate"}
    /\ \/ /\ lookup' = [lookup EXCEPT
                          !.pc = IF @ = "allocate" THEN "query" ELSE "requery",
                          !.size = IF lookup.pc = "allocate" THEN PreAllocated ELSE @,
                          !.allocated = TRUE]
          /\ UNCHANGED <<modules, kernelbase, disturbed>>
       \/ Fails

Fits == Len(modules) <= lookup.size

\* Mutant: the second buffer is as large as the first one.
QueryForgetsSize ==
    /\ lookup.pc \in {"query", "requery"}
    /\ \/ /\ Fits
          /\ lookup' = [lookup EXCEPT !.pc = "search", !.list = modules]
          /\ UNCHANGED <<modules, kernelbase, disturbed>>
       \/ /\ ~Fits /\ lookup.pc = "query"
          /\ lookup' = [lookup EXCEPT !.pc = "reallocate", !.allocated = FALSE]
          /\ UNCHANGED <<modules, kernelbase, disturbed>>
       \/ ~Fits /\ lookup.pc = "requery" /\ Found(0) /\ UNCHANGED <<modules, disturbed>>
       \/ Fails

\* The list is copied if it fits.  If not, the first buffer is replaced by one of the
\* size it would have needed; after the second there is no third.
Query ==
    /\ lookup.pc \in {"query", "requery"}
    /\ \/ /\ Fits
          /\ lookup' = [lookup EXCEPT !.pc = "search", !.list = modules]
          /\ UNCHANGED <<modules, kernelbase, disturbed>>
       \/ /\ ~Fits /\ lookup.pc = "query"
          /\ lookup' = [lookup EXCEPT !.pc = "reallocate", !.size = Len(modules),
                                      !.allocated = FALSE]
          /\ UNCHANGED <<modules, kernelbase, disturbed>>
       \/ ~Fits /\ lookup.pc = "requery" /\ Found(0) /\ UNCHANGED <<modules, disturbed>>
       \/ Fails

\* The name test: kr alone is enough for it.
LooksLikeKernel(name) == name \in {"nt", "kr"}

Search ==
    LET hits == {n \in DOMAIN lookup.list : LooksLikeKernel(lookup.list[n])}
    IN  /\ lookup.pc = "search"
        /\ Found(IF hits = {} THEN 0 ELSE CHOOSE n \in hits : \A h \in hits : n <= h)
        /\ UNCHANGED <<modules, disturbed>>

LookUp == Allocate \/ Query \/ Search

-----------------------------------------------------------------------------
(* GetKPCR.                                                                  *)

\* The call; the slots are zero.
CallGetKPCR ==
    /\ survey' = [NoSurvey EXCEPT !.pc = "called"]
    /\ UNCHANGED <<active, cpu, affinity>>

\* The mask of active processors is read, once.
QueryActive ==
    /\ survey.pc = "called"
    /\ survey' = [survey EXCEPT !.pc = "pin", !.mask = active]
    /\ UNCHANGED <<active, cpu, affinity>>

\* The processor whose turn it is: the first of the mask without a KPCR.
Due == {p \in survey.mask : survey.kpcr[p] = 0}
Turn == CHOOSE p \in Due : \A q \in Due : p <= q

\* Mutant: the thread stays where it is.
PinNowhere ==
    /\ survey.pc = "pin" /\ Due # {}
    /\ survey' = [survey EXCEPT !.pc = "self"]
    /\ UNCHANGED <<active, cpu, affinity>>

\* KeSetSystemAffinityThread: from here on the thread runs on that processor.
Pin ==
    /\ survey.pc = "pin" /\ Due # {}
    /\ affinity' = {Turn}
    /\ cpu' = Turn
    /\ survey' = [survey EXCEPT !.pc = "self"]
    /\ UNCHANGED active

\* __readgsqword(0x18).
ReadSelf ==
    /\ survey.pc = "self"
    /\ survey' = [survey EXCEPT !.pc = "pin", !.kpcr[Turn] = Kpcr(cpu)]
    /\ UNCHANGED <<active, cpu, affinity>>

\* KeRevertToUserAffinityThread.  It should give back the affinity the thread came with; the
\* comment there doubts that it does.
Revert ==
    /\ survey.pc = "pin" /\ Due = {}
    /\ affinity' \in {Processors, affinity}
    /\ survey' = [survey EXCEPT !.pc = "done"]
    /\ UNCHANGED <<active, cpu>>

-----------------------------------------------------------------------------
(* Properties.                                                               *)

FactsTypeOK ==
    /\ lookup.pc # "done" => modules \in ModuleLists
    /\ lookup.pc \in {"allocate", "query", "reallocate", "requery", "search", "done"}
    /\ lookup.size \in Nat /\ lookup.allocated \in BOOLEAN
    /\ kernelbase \in Nat
    /\ active \subseteq Processors /\ cpu \in active
    /\ affinity \subseteq Processors
    /\ survey.pc \in {"no", "called", "pin", "self", "done"}
    /\ survey.mask \subseteq Processors
    /\ survey.kpcr \in [Processors -> Nat]

\* Once DriverEntry is done, the kernel base is the kernel's or 0, never another
\* module's; and it is known unless a call failed or the list outgrew the buffer made for
\* it, however long the list is and whatever else was loaded and unloaded meanwhile.
KernelBaseIsKernels ==
    lookup.pc = "done" =>
        /\ kernelbase \in {0, NtBase}
        /\ ~disturbed => kernelbase = NtBase

\* Every processor that was active when GetKPCR asked has its own KPCR in its own slot,
\* wherever the scheduler had the thread in between; the other slots stay empty.
KpcrsAreOwn ==
    survey.pc = "done" =>
        survey.kpcr = [p \in Processors |-> IF p \in survey.mask THEN Kpcr(p) ELSE 0]
=============================================================================

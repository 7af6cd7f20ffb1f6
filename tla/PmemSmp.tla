------------------------------ MODULE PmemSmp -------------------------------
(***************************************************************************)
(* The driver of PmemDriver on a machine with several processors, each with*)
(* a translation lookaside buffer (TLB) of its own.                        *)
(*                                                                         *)
(* pte_remap_rogue_page writes the rogue PTE and flushes nothing: its      *)
(* __invlpg is a comment.  Earlier the tool stayed on one processor        *)
(* (CHANGELOG.md:23); now the setup disables caching in the PTE, which is  *)
(* said to keep the translation out of the TLBs (pte_mmap.c:97,            *)
(* CHANGELOG.md:6).  Whether it does is the processor's business, not the  *)
(* driver's: in the x86 architecture that bit selects the memory type of   *)
(* the page, and the buffering of translations does not depend on it.  So  *)
(* it is a constant here, Caching: FALSE is the driver's belief.  The PTE  *)
(* is one of the kernel's global ones, which survive a switch of address   *)
(* spaces.                                                                 *)
(***************************************************************************)
EXTENDS PmemDriver

CONSTANTS
    Processors,
    Caching      \* BOOLEAN: may a processor keep the translation of an uncached page?

VARIABLES
    cpu,     \* cpu[t]: the processor thread t runs on
    tlb      \* tlb[c]: the page c translates the rogue page to, or NoEntry

smpVars == <<vars, cpu, tlb>>

NoEntry == -1

SmpInit ==
    /\ Init
    /\ cpu \in [Threads -> Processors]
    /\ tlb = [c \in Processors |-> NoEntry]

\* The scheduler moves a thread; at APC_LEVEL, with the mutex held, it may do so too.
Migrate(t) ==
    /\ \E c \in Processors \ {cpu[t]} : cpu' = [cpu EXCEPT ![t] = c]
    /\ UNCHANGED <<vars, tlb>>

\* A processor needs the place for another translation, or flushes its buffer.
Evict(c) ==
    /\ tlb[c] # NoEntry
    /\ tlb' = [tlb EXCEPT ![c] = NoEntry]
    /\ UNCHANGED <<vars, cpu>>

\* pte_remap_rogue_page: the page frame in memory, and nothing else.
RemapHere(t) ==
    /\ RemapRogue(t)
    /\ UNCHANGED <<cpu, tlb>>

\* The page an access to the rogue page reaches on processor c.
Seen(c) == IF tlb[c] = NoEntry THEN rogue ELSE tlb[c]

\* The copy, on the processor the thread is on now.
CopyHere(t) ==
    /\ pc[t] = "window"
    /\ CopyFrom(t, Seen(cpu[t])) \/ NothingRead(t)
    /\ tlb' = IF Caching THEN [tlb EXCEPT ![cpu[t]] = Seen(cpu[t])] ELSE tlb
    /\ UNCHANGED <<iomap, cpu>>

\* No other step of a thread has to do with the rogue page.
Elsewhere(t) ==
    /\ \/ SetModeCheck(t) \/ SetModeApply(t)
       \/ Read(t) \/ Reject(t) \/ Enter(t) \/ Acquire(t) \/ Nail(t)
       \/ ReadPhysical(t) \/ ReadIoSpace(t)
       \/ Return(t)
    /\ UNCHANGED <<cpu, tlb>>

SmpNext ==
    \/ \E t \in Threads : Migrate(t) \/ RemapHere(t) \/ CopyHere(t) \/ Elsewhere(t)
    \/ \E c \in Processors : Evict(c)

SmpSpec == SmpInit /\ [][SmpNext]_smpVars
=============================================================================

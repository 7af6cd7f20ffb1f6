----------------------------- MODULE PmemDriver -----------------------------
(***************************************************************************)
(* The running WinPmem driver: IOCTL_SET_MODE and the read path, called by *)
(* several client threads at once (src/winpmem.c, src/read.c,              *)
(* src/pte_mmap.c).                                                        *)
(*                                                                         *)
(* The device extension is shared by all of them.  Three acquisition modes *)
(* exist; the PTE mode reads through ONE page whose PTE the driver points  *)
(* at each physical page in turn, so its readers need the fast mutex ext->mu*)
(* between the remapping and the copy.  The driver decides from            *)
(* extension->mode whether to take the mutex, which method to use for each *)
(* page, and whether to release the mutex - reading the field anew each    *)
(* time.                                                                   *)
(*                                                                         *)
(* Abstracted: a byte of memory is named by its physical address; whether  *)
(* a copy faults (a page the hypervisor hides) is chosen freely at each    *)
(* copy; an access to the remapped page sees the page its PTE names (the   *)
(* TLB is assumed coherent, as the comment in pte_remap_rogue_page says).  *)
(***************************************************************************)
EXTENDS Integers, FiniteSets

CONSTANTS
    Threads,      \* client threads, each with a handle (and an IRP) of its own
    PageSize,     \* bytes in a page
    Requests,     \* reads the clients issue: records [addr, len]
    Programs,     \* what client programs may do: records [asks, setFirst] -
                  \* asks: the mode numbers they pass to IOCTL_SET_MODE;
                  \* setFirst: they read only once their own SET_MODE was answered
                  \* with SUCCESS or with ACCESS_DENIED ("already set")
    RoguePage     \* address of the physical page behind the rogue section

\* PMEM_MODE_* of winpmem_shared.h.
IOSPACE  == 0
PHYSICAL == 1
PTE      == 2
Modes    == {IOSPACE, PHYSICAL, PTE}

ASSUME PageSizeAssumption == PageSize \in Nat \ {0}
ASSUME RequestsAssumption == Requests \subseteq [addr : Nat, len : Nat]
ASSUME ProgramsAssumption == Programs \subseteq [asks : SUBSET Nat, setFirst : BOOLEAN]
ASSUME RogueAssumption    == RoguePage \in Nat

VARIABLES
    program,     \* the program all clients run
    ext,         \* DEVICE_EXTENSION: mode, MemoryHandle, pte_method_is_ready_to_use
    permits,     \* acquisitions the fast mutex ext->mu still grants (1 = free)
    rogue,       \* address of the page the rogue PTE's page_frame names
    pc,          \* pc[t]: where thread t is
    configured,  \* configured[t]: t's own SET_MODE gave SUCCESS or ACCESS_DENIED
    owns,        \* owns[t]: t acquired the mutex and has not released it
    mdl,         \* mdl[t]: t holds an MDL with its buffer's pages locked
    iomap,       \* iomap[t]: I/O-space mappings the read of t has made and not undone
    req, got, buf, io   \* the read of t: request, total_read, buffer, IoStatus

threadVars == <<pc, configured, owns, mdl, iomap, req, got, buf, io>>
vars == <<program, ext, permits, rogue, threadVars>>

PC == {"idle", "setmode", "read", "acquire", "loop", "dispatch", "window", "failed"}
\* Where a thread is inside PmemRead.
Reading == {"read", "acquire", "loop", "dispatch", "window", "failed"}

\* A buffer cell the driver has not written; the IoStatus of a read under way.
Untouched == -1
NoResult == [status |-> "NONE", info |-> 0]
Statuses == {"NONE", "SUCCESS", "INVALID_PARAMETER", "ACCESS_VIOLATION", "IO_DEVICE_ERROR"}

Init ==
    /\ program \in Programs
    \* RtlZeroMemory leaves mode 0; the other two fields are DriverEntry's findings.
    /\ ext \in [mode : {0}, MemoryHandle : BOOLEAN, ready : BOOLEAN]
    /\ permits = 1
    /\ rogue = RoguePage
    /\ pc = [t \in Threads |-> "idle"]
    /\ configured = [t \in Threads |-> FALSE]
    /\ owns = [t \in Threads |-> FALSE]
    /\ mdl = [t \in Threads |-> FALSE]
    /\ iomap = [t \in Threads |-> 0]
    /\ req \in {r \in [Threads -> Requests] : \A t, u \in Threads : r[t] = r[u]}
    /\ got = [t \in Threads |-> 0]
    /\ buf = [t \in Threads |-> [i \in 0 .. req[t].len - 1 |-> Untouched]]
    /\ io = [t \in Threads |-> NoResult]

-----------------------------------------------------------------------------
(* IOCTL_SET_MODE: the test of ext->mode and the assignment are two steps.  *)

SetModeCheck(t) ==
    /\ pc[t] = "idle"
    /\ IF ext.mode # 0
       THEN /\ configured' = [configured EXCEPT ![t] = TRUE]   \* ACCESS_DENIED
            /\ pc' = pc
       ELSE /\ pc' = [pc EXCEPT ![t] = "setmode"]
            /\ UNCHANGED configured
    /\ UNCHANGED <<program, ext, permits, rogue, owns, mdl, iomap, req, got, buf, io>>

Available(m) ==
    \/ m = PHYSICAL /\ ext.MemoryHandle
    \/ m = IOSPACE
    \/ m = PTE /\ ext.ready

SetModeApply(t) ==
    /\ pc[t] = "setmode"
    /\ \E m \in program.asks :
          IF Available(m)
          THEN /\ ext' = [ext EXCEPT !.mode = m]
               /\ configured' = [configured EXCEPT ![t] = TRUE]
          ELSE UNCHANGED <<ext, configured>>   \* NOT_SUPPORTED, INVALID_PARAMETER
    /\ pc' = [pc EXCEPT ![t] = "idle"]
    /\ UNCHANGED <<program, permits, rogue, owns, mdl, iomap, req, got, buf, io>>

-----------------------------------------------------------------------------
(* PmemRead / pmemFastIoRead.  Every mode number passes their "no mode set"  *)
(* test, 0 being IOSPACE, so the test has no branch here.                    *)

Read(t) ==
    /\ pc[t] = "idle"
    /\ program.setFirst => configured[t]
    /\ pc' = [pc EXCEPT ![t] = "read"]
    /\ \E r \in Requests :
          /\ req' = [req EXCEPT ![t] = r]
          /\ buf' = [buf EXCEPT ![t] = [i \in 0 .. r.len - 1 |-> Untouched]]
    /\ got' = [got EXCEPT ![t] = 0]
    /\ io' = [io EXCEPT ![t] = NoResult]
    /\ iomap' = [iomap EXCEPT ![t] = 0]
    /\ UNCHANGED <<program, ext, permits, rogue, configured, owns, mdl>>

\* bail_out: an empty request, or ProbeForWrite raised an exception.
Reject(t) ==
    /\ pc[t] = "read"
    /\ io' = [io EXCEPT ![t] =
                [status |-> IF req[t].len = 0 THEN "INVALID_PARAMETER"
                                              ELSE "ACCESS_VIOLATION",
                 info |-> 0]]
    /\ pc' = [pc EXCEPT ![t] = "idle"]
    /\ UNCHANGED <<program, ext, permits, rogue, configured, owns, mdl, iomap, req, got, buf>>

-----------------------------------------------------------------------------
(* DeviceRead.                                                               *)

\* Mutant: the mutex is not taken for the PTE mode.
EnterUnguarded(t) ==
    /\ pc[t] = "read"
    /\ req[t].len > 0
    /\ pc' = [pc EXCEPT ![t] = "loop"]
    /\ UNCHANGED <<program, ext, permits, rogue, configured, owns, mdl, iomap, req, got, buf, io>>

Enter(t) ==
    /\ pc[t] = "read"
    /\ req[t].len > 0
    /\ pc' = [pc EXCEPT ![t] = IF ext.mode = PTE THEN "acquire" ELSE "loop"]
    /\ UNCHANGED <<program, ext, permits, rogue, configured, owns, mdl, iomap, req, got, buf, io>>

\* Mutant: the caller tries to get the mutex and does not look at the answer.
AcquireWithoutWaiting(t) ==
    /\ pc[t] = "acquire"
    /\ permits' = permits - 1
    /\ owns' = [owns EXCEPT ![t] = TRUE]
    /\ pc' = [pc EXCEPT ![t] = "loop"]
    /\ UNCHANGED <<program, ext, rogue, configured, mdl, iomap, req, got, buf, io>>

Acquire(t) ==
    /\ pc[t] = "acquire"
    /\ permits > 0
    /\ permits' = permits - 1
    /\ owns' = [owns EXCEPT ![t] = TRUE]
    /\ pc' = [pc EXCEPT ![t] = "loop"]
    /\ UNCHANGED <<program, ext, rogue, configured, mdl, iomap, req, got, buf, io>>

\* ExAcquireFastMutex raises the thread to APC_LEVEL until the release.
Irql(t) == IF owns[t] THEN "APC_LEVEL" ELSE "PASSIVE_LEVEL"

\* One MDL per page; allocating, locking or mapping it may fail.
Nail(t) ==
    /\ pc[t] = "loop"
    /\ got[t] < req[t].len
    /\ \/ /\ mdl' = [mdl EXCEPT ![t] = TRUE]
          /\ pc' = [pc EXCEPT ![t] = "dispatch"]
       \/ /\ pc' = [pc EXCEPT ![t] = "failed"]
          /\ UNCHANGED mdl
    /\ UNCHANGED <<program, ext, permits, rogue, configured, owns, iomap, req, got, buf, io>>

Smaller(a, b) == IF a <= b THEN a ELSE b

Cursor(t)     == req[t].addr + got[t]                     \* physAddr_cursor
PageOffset(a) == a % PageSize
\* Mutant: the address to map is not rounded down to its page.
Unrounded(a)  == a
PageBase(a)   == a - PageOffset(a)
\* current_read_window, cut at the end of the page: the methods' to_read.
ToRead(t) == Smaller(PageSize - PageOffset(Cursor(t)),
                     Smaller(PageSize, req[t].len - got[t]))

\* Mutant: the cursors advance by a page, however few bytes were read.
CopyFromWholePage(t, page) ==
    /\ buf' = [buf EXCEPT ![t] =
                 [i \in 0 .. req[t].len - 1 |->
                    IF got[t] <= i /\ i < got[t] + ToRead(t)
                    THEN page + PageOffset(Cursor(t)) + (i - got[t])
                    ELSE buf[t][i]]]
    /\ got' = [got EXCEPT ![t] = @ + PageSize]
    /\ mdl' = [mdl EXCEPT ![t] = FALSE]
    /\ pc' = [pc EXCEPT ![t] = "loop"]
    /\ UNCHANGED <<program, ext, permits, rogue, configured, owns, req, io>>

\* RtlCopyMemory of ToRead(t) bytes from the mapped page at address page, then
\* the loop's bookkeeping: MmUnlockPages, IoFreeMdl, the two cursors.
CopyFrom(t, page) ==
    LET from == page + PageOffset(Cursor(t))
        n == ToRead(t)
    IN  /\ buf' = [buf EXCEPT ![t] =
                     [i \in 0 .. req[t].len - 1 |->
                        IF got[t] <= i /\ i < got[t] + n THEN from + (i - got[t])
                                                        ELSE buf[t][i]]]
        /\ got' = [got EXCEPT ![t] = @ + n]
        /\ mdl' = [mdl EXCEPT ![t] = FALSE]
        /\ pc' = [pc EXCEPT ![t] = "loop"]
        /\ UNCHANGED <<program, ext, permits, rogue, configured, owns, req, io>>

\* Mutant: the driver zeroes the part of the buffer it could not fill.
NothingReadZeroed(t) ==
    /\ buf' = [buf EXCEPT ![t] = [i \in DOMAIN @ |-> IF i < got[t] THEN @[i] ELSE 0]]
    /\ mdl' = [mdl EXCEPT ![t] = FALSE]
    /\ pc' = [pc EXCEPT ![t] = "failed"]
    /\ UNCHANGED <<program, ext, permits, rogue, configured, owns, req, got, io>>

\* bytes_read = 0: the MDL is freed, the loop is left, the buffer is not touched.
NothingRead(t) ==
    /\ mdl' = [mdl EXCEPT ![t] = FALSE]
    /\ pc' = [pc EXCEPT ![t] = "failed"]
    /\ UNCHANGED <<program, ext, permits, rogue, configured, owns, req, got, buf, io>>

\* PhysicalMemoryPartialRead maps a private view, which it unmaps whether or not the
\* copy faults; it cannot run above PASSIVE_LEVEL.
ReadPhysical(t) ==
    /\ pc[t] = "dispatch"
    /\ ext.mode = PHYSICAL
    /\ \/ /\ Irql(t) = "PASSIVE_LEVEL" /\ ext.MemoryHandle /\ Cursor(t) # 0
          /\ CopyFrom(t, PageBase(Cursor(t)))
       \/ NothingRead(t)
    /\ UNCHANGED iomap

StaysMapped(t) == iomap' = [iomap EXCEPT ![t] = @ + 1]

\* Mutant: a page that was read stays mapped.
ReadIoSpaceLeaks(t) ==
    /\ pc[t] = "dispatch"
    /\ ext.mode = IOSPACE
    /\ \/ Cursor(t) # 0 /\ CopyFrom(t, PageBase(Cursor(t))) /\ StaysMapped(t)
       \/ NothingRead(t) /\ UNCHANGED iomap

\* MapIOPagePartialRead maps a private view too.  It may not get one; if the copy
\* faults, it returns without unmapping it.
ReadIoSpace(t) ==
    /\ pc[t] = "dispatch"
    /\ ext.mode = IOSPACE
    /\ \/ Cursor(t) # 0 /\ CopyFrom(t, PageBase(Cursor(t))) /\ UNCHANGED iomap
       \/ NothingRead(t) /\ UNCHANGED iomap
       \/ Cursor(t) # 0 /\ NothingRead(t) /\ StaysMapped(t)

\* PTEMmapPartialRead points the shared rogue PTE at the page ...
RemapRogue(t) ==
    /\ pc[t] = "dispatch"
    /\ ext.mode = PTE
    /\ IF Cursor(t) # 0 /\ PageBase(Cursor(t)) # 0
       THEN /\ rogue' = PageBase(Cursor(t))
            /\ pc' = [pc EXCEPT ![t] = "window"]
            /\ UNCHANGED <<program, ext, permits, configured, owns, mdl, iomap, req, got, buf, io>>
       ELSE NothingRead(t) /\ UNCHANGED iomap

\* ... and copies whatever page the PTE names by then.
CopyRogue(t) ==
    /\ pc[t] = "window"
    /\ CopyFrom(t, rogue) \/ NothingRead(t)
    /\ UNCHANGED iomap

\* Mutant: the release is forgotten.
KeepMutex(t) == UNCHANGED <<permits, owns>>

\* end: the mutex is released if the mode is (now) PTE.  Releasing a fast mutex
\* nobody holds adds a permit.
ReleaseIfPte(t) ==
    IF ext.mode = PTE
    THEN /\ permits' = permits + 1
         /\ owns' = [owns EXCEPT ![t] = FALSE]
    ELSE UNCHANGED <<permits, owns>>

\* Mutant: the error path skips the label "end" and with it the release.
ReturnEarly(t) ==
    /\ \/ /\ pc[t] = "loop" /\ got[t] = req[t].len
          /\ io' = [io EXCEPT ![t] = [status |-> "SUCCESS", info |-> got[t]]]
          /\ ReleaseIfPte(t)
       \/ /\ pc[t] = "failed"
          /\ io' = [io EXCEPT ![t] = [status |-> "IO_DEVICE_ERROR", info |-> 0]]
          /\ UNCHANGED <<permits, owns>>
    /\ pc' = [pc EXCEPT ![t] = "idle"]
    /\ UNCHANGED <<program, ext, rogue, configured, mdl, iomap, req, got, buf>>

\* Mutant: the status of DeviceRead is not tested, only *total_read.
ReturnShort(t) ==
    /\ \/ pc[t] = "loop" /\ got[t] = req[t].len
       \/ pc[t] = "failed"
    /\ io' = [io EXCEPT ![t] = IF got[t] > 0
                                THEN [status |-> "SUCCESS", info |-> got[t]]
                                ELSE [status |-> "IO_DEVICE_ERROR", info |-> 0]]
    /\ ReleaseIfPte(t)
    /\ pc' = [pc EXCEPT ![t] = "idle"]
    /\ UNCHANGED <<program, ext, rogue, configured, mdl, iomap, req, got, buf>>

Return(t) ==
    /\ \/ /\ pc[t] = "loop" /\ got[t] = req[t].len
          /\ io' = [io EXCEPT ![t] = [status |-> "SUCCESS", info |-> got[t]]]
       \/ /\ pc[t] = "failed"
          /\ io' = [io EXCEPT ![t] = [status |-> "IO_DEVICE_ERROR", info |-> 0]]
    /\ ReleaseIfPte(t)
    /\ pc' = [pc EXCEPT ![t] = "idle"]
    /\ UNCHANGED <<program, ext, rogue, configured, mdl, iomap, req, got, buf>>

-----------------------------------------------------------------------------
\* A thread's own progress once it is in the driver (Acquire apart).
Advance(t) ==
    \/ SetModeApply(t)
    \/ Reject(t) \/ Enter(t) \/ Nail(t)
    \/ ReadPhysical(t) \/ ReadIoSpace(t) \/ RemapRogue(t) \/ CopyRogue(t)
    \/ Return(t)

Next == \E t \in Threads : SetModeCheck(t) \/ Read(t) \/ Acquire(t) \/ Advance(t)

Safety == Init /\ [][Next]_vars

\* The scheduler runs every thread that can run; a fast mutex that becomes free
\* again and again is eventually granted to each waiter.  Clients owe nothing.
Spec == Safety /\ \A t \in Threads : WF_vars(Advance(t)) /\ SF_vars(Acquire(t))

-----------------------------------------------------------------------------
(* Properties.                                                               *)

\* The types of the device extension, the mutex and each thread's read.
TypeOK ==
    /\ program \in Programs
    /\ ext \in [mode : Modes, MemoryHandle : BOOLEAN, ready : BOOLEAN]
    /\ permits \in Nat
    /\ rogue \in Nat
    /\ pc \in [Threads -> PC]
    /\ configured \in [Threads -> BOOLEAN]
    /\ owns \in [Threads -> BOOLEAN]
    /\ mdl \in [Threads -> BOOLEAN]
    /\ iomap \in [Threads -> Nat]
    /\ req \in [Threads -> Requests]
    /\ got \in [Threads -> Nat]
    /\ \A t \in Threads : got[t] <= req[t].len
    /\ buf = [t \in Threads |-> buf[t]]
    /\ \A t \in Threads : buf[t] \in [0 .. req[t].len - 1 -> Int]
    /\ io \in [Threads -> [status : Statuses, info : Nat]]

\* While a thread is between remapping the rogue PTE and copying from it, the PTE
\* names the very page that thread asked for: no other reader moved it.
WindowStable ==
    \A t \in Threads : pc[t] = "window" => rogue = PageBase(Cursor(t))

\* The fast mutex excludes: of two readers between remap and copy, never both,
\* and a remapping reader holds it.
WindowGuarded ==
    \A t \in Threads : pc[t] = "window" =>
        /\ owns[t]
        /\ \A u \in Threads \ {t} : ~owns[u]

\* Bytes delivered are the bytes of physical memory asked for, in order, and the
\* driver writes nothing past what it has counted in *total_read.
DeliveredExact ==
    \A t \in Threads : buf[t] =
        [i \in 0 .. req[t].len - 1 |-> IF i < got[t] THEN req[t].addr + i ELSE Untouched]

\* A thread that left the driver holds neither the mutex nor a locked MDL, and the
\* mutex grants exactly one acquisition when no thread holds it.  Its read has left no
\* page mapped, unless it failed: then it may have left one.
NothingHeldOutside ==
    /\ \A t \in Threads : pc[t] \in {"idle", "setmode"} =>
          /\ ~owns[t] /\ ~mdl[t]
          /\ iomap[t] <= IF io[t].status = "IO_DEVICE_ERROR" THEN 1 ELSE 0
    /\ permits = IF \E t \in Threads : owns[t] THEN 0 ELSE 1

\* A read that reports success reports the whole length, of a buffer full of the
\* right bytes; one that reports an error reports no bytes at all.
ResultHonest ==
    \A t \in Threads :
        /\ io[t].status = "SUCCESS" =>
              /\ io[t].info = req[t].len
              /\ \A i \in 0 .. req[t].len - 1 : buf[t][i] = req[t].addr + i
        /\ io[t].status # "SUCCESS" => io[t].info = 0

\* A request to read is answered: no reader waits for the mutex, or loops, forever.
ReadReturns == \A t \in Threads : pc[t] \in Reading ~> pc[t] = "idle"

\* The driver implements the contract of a read.
Contract == INSTANCE PhysicalRead WITH pending <- [t \in Threads |-> pc[t] \in Reading]
ReadContract == Contract!Spec
=============================================================================

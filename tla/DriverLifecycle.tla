--------------------------- MODULE DriverLifecycle ---------------------------
(***************************************************************************)
(* The WinPmem driver from DriverEntry to IoUnload (src/winpmem.c), with   *)
(* clients that open the device, choose the PTE mode, read, and close.     *)
(*                                                                         *)
(* DriverEntry clears DO_DEVICE_INITIALIZING and publishes the symbolic    *)
(* link BEFORE it fills in the device extension, so a client that does not *)
(* wait for the service to have started gets in between any two of its     *)
(* later steps.  The mutex is the last thing it initialises.  IoUnload is  *)
(* called by the I/O manager once the last handle is closed, and by        *)
(* DriverEntry itself when it gives up.                                    *)
(*                                                                         *)
(* A read is reduced to what matters to its surroundings: its three looks  *)
(* at the mode, the mutex, and the rogue PTE, which it leaves pointing     *)
(* anywhere (PmemDriver has the details).  What the I/O manager does -     *)
(* refuse opens and wait for the last handle once a stop was requested - is*)
(* external.                                                               *)
(***************************************************************************)
EXTENDS Integers, FiniteSets

CONSTANTS
    Clients,     \* client processes
    Pages,       \* physical pages readers map through the rogue PTE
    HomePage     \* the physical page that belongs behind the rogue PTE

ASSUME HomeAssumption == HomePage \in Pages \ {0}

IOSPACE == 0
PHYSICAL == 1
PTE == 2
Modes == {IOSPACE, PHYSICAL, PTE}

VARIABLES
    early,       \* clients that open the device without waiting for the service
    driver,      \* how far DriverEntry got; "running", "stopping" or "absent"
    resources,   \* kernel objects the driver has created and not deleted
    ext,         \* DEVICE_EXTENSION: mode, MemoryHandle, pte_data's ready, original
    permits,     \* ext->mu: how many may acquire it; none while it is zeroed
    frame,       \* page_frame of the rogue PTE
    pc,          \* pc[c]: "away", "open", "setting" (in IOCTL_SET_MODE), or in DeviceRead:
                 \* "waiting", "reading", "holding" (the mutex)
    lost,        \* clients that queued on the mutex before it was initialised
    switched     \* history: the mode became PTE, or another one than PTE, under a read

client == <<pc, lost, switched>>
vars == <<early, driver, resources, ext, permits, frame, client>>

Phases == {"absent", "created", "table", "linked", "zeroed", "section", "pte",
           "running", "stopping"}
Objects == {"device", "fastio", "link", "section"}
ZeroedExtension == [mode |-> 0, MemoryHandle |-> FALSE, ready |-> FALSE, original |-> 0]

Handles == {c \in Clients : pc[c] # "away"}
\* Who is in DeviceRead, behind its first look at the mode; who of them may read by now.
Inside == {c \in Clients : pc[c] \in {"waiting", "reading", "holding"}}
Readers == {c \in Clients : pc[c] \in {"reading", "holding"}}

Init ==
    /\ early \in SUBSET Clients
    /\ driver = "absent"
    /\ resources = {}
    /\ ext = ZeroedExtension
    /\ permits = 0
    /\ frame = HomePage
    /\ pc = [c \in Clients |-> "away"]
    /\ lost = {}
    /\ switched = FALSE

-----------------------------------------------------------------------------
(* IoUnload.                                                                 *)

\* restoreOriginalRoguePage: remaps unless the method was never ready, or the
\* backup is null.
RestoredFrame == IF ext.ready /\ ext.original # 0 THEN ext.original ELSE frame

\* ZwClose, IoDeleteSymbolicLink, ExFreePool of the fast I/O table, IoDeleteDevice.
DeletedObjects ==
    {"link", "fastio", "device"} \cup IF ext.MemoryHandle THEN {"section"} ELSE {}

IoUnload ==
    /\ frame' = RestoredFrame
    /\ resources' = resources \ DeletedObjects
    /\ driver' = "absent"
    /\ UNCHANGED <<early, ext, permits, client>>

-----------------------------------------------------------------------------
(* DriverEntry, one step per thing it makes.                                 *)

\* IoCreateDeviceSecure; the I/O manager hands out a zeroed extension.
CreateDevice ==
    /\ driver = "absent"
    /\ driver' = "created"
    /\ resources' = resources \cup {"device"}
    /\ ext' = ZeroedExtension
    /\ permits' = 0
    /\ switched' = FALSE
    /\ UNCHANGED <<early, frame, pc, lost>>

AllocateFastIo ==
    /\ driver = "created"
    /\ \/ /\ driver' = "table"
          /\ resources' = resources \cup {"fastio"}
          /\ UNCHANGED <<early, ext, permits, frame, client>>
       \/ IoUnload

\* Mutant: DriverEntry fails without cleaning up after itself.
CreateLinkNoCleanup ==
    /\ driver = "table"
    /\ \/ /\ driver' = "linked"
          /\ resources' = resources \cup {"link"}
       \/ /\ driver' = "absent"
          /\ UNCHANGED resources
    /\ UNCHANGED <<early, ext, permits, frame, client>>

CreateLink ==
    /\ driver = "table"
    /\ \/ /\ driver' = "linked"
          /\ resources' = resources \cup {"link"}
          /\ UNCHANGED <<early, ext, permits, frame, client>>
       \/ IoUnload

\* RtlZeroMemory over the extension, the mutex included.
ZeroExtension ==
    /\ driver = "linked"
    /\ driver' = "zeroed"
    /\ ext' = ZeroedExtension
    /\ permits' = 0
    /\ UNCHANGED <<early, resources, frame, client>>

\* setupPhysMemSectionHandle may fail: the method is then not available.
OpenSection ==
    /\ driver = "zeroed"
    /\ driver' = "section"
    /\ \/ /\ ext' = [ext EXCEPT !.MemoryHandle = TRUE]
          /\ resources' = resources \cup {"section"}
       \/ UNCHANGED <<ext, resources>>
    /\ UNCHANGED <<early, permits, frame, client>>

\* The check for 5-level paging and setupBackupForOriginalRoguePage, which may
\* not find the PTE: the method is then not available.
SetupPte ==
    /\ driver = "section"
    /\ driver' = "pte"
    /\ \/ frame # 0 /\ ext' = [ext EXCEPT !.ready = TRUE, !.original = frame]
       \/ UNCHANGED ext
    /\ UNCHANGED <<early, resources, permits, frame, client>>

\* ExInitializeFastMutex, and DriverEntry returns.  Whoever queued on the mutex
\* before is not in the new queue.
InitializeMutex ==
    /\ driver = "pte"
    /\ driver' = "running"
    /\ permits' = 1
    /\ lost' = lost \cup {c \in Clients : pc[c] = "waiting"}
    /\ UNCHANGED <<early, resources, ext, frame, pc, switched>>

-----------------------------------------------------------------------------
(* The service control manager and the I/O manager.                          *)

StopService ==
    /\ driver = "running"
    /\ driver' = "stopping"
    /\ UNCHANGED <<early, resources, ext, permits, frame, client>>

UnloadDriver ==
    /\ driver = "stopping"
    /\ Handles = {}
    /\ IoUnload

-----------------------------------------------------------------------------
(* Clients.                                                                  *)

\* Mutant: the mutex is initialised for every new handle.
OpenInitializes(c) ==
    /\ pc[c] = "away"
    /\ "link" \in resources
    /\ driver = "running" \/ (c \in early /\ driver # "stopping")
    /\ pc' = [pc EXCEPT ![c] = "open"]
    /\ permits' = 1
    /\ lost' = lost \cup {d \in Clients : pc[d] = "waiting"}
    /\ UNCHANGED <<early, driver, resources, ext, frame, switched>>

\* CreateFile and wddCreateClose.
Open(c) ==
    /\ pc[c] = "away"
    /\ "link" \in resources
    /\ driver = "running" \/ (c \in early /\ driver # "stopping")
    /\ pc' = [pc EXCEPT ![c] = "open"]
    /\ UNCHANGED <<early, driver, resources, ext, permits, frame, lost, switched>>

Available(m) ==
    \/ m = IOSPACE
    \/ m = PHYSICAL /\ ext.MemoryHandle
    \/ m = PTE /\ ext.ready

\* IOCTL_SET_MODE, the test that no mode was set (0 is one of the modes) ...
SetModeCheck(c) ==
    /\ pc[c] = "open"
    /\ ext.mode = 0
    /\ pc' = [pc EXCEPT ![c] = "setting"]
    /\ UNCHANGED <<early, driver, resources, ext, permits, frame, lost, switched>>

\* ... and, no lock being held in between, the switch that sets it or refuses.
SetModeApply(c) ==
    /\ pc[c] = "setting"
    /\ \E mode \in {ext.mode} \cup {m \in Modes : Available(m)} :
          /\ ext' = [ext EXCEPT !.mode = mode]
          /\ switched' = \/ switched
                         \/ mode # ext.mode /\ PTE \in {mode, ext.mode} /\ Inside # {}
    /\ pc' = [pc EXCEPT ![c] = "open"]
    /\ UNCHANGED <<early, driver, resources, permits, frame, lost>>

\* DeviceRead: the mode is PTE, and ExAcquireFastMutex is called, or it is not.
Read(c) ==
    /\ pc[c] = "open"
    /\ pc' = [pc EXCEPT ![c] = IF ext.mode = PTE THEN "waiting" ELSE "reading"]
    /\ UNCHANGED <<early, driver, resources, ext, permits, frame, lost, switched>>

Acquire(c) ==
    /\ pc[c] = "waiting"
    /\ permits > 0 /\ c \notin lost
    /\ permits' = permits - 1
    /\ pc' = [pc EXCEPT ![c] = "holding"]
    /\ UNCHANGED <<early, driver, resources, ext, frame, lost, switched>>

\* Mutant: the test for page 0 is missing.
RemapAnyPage(c) ==
    /\ c \in Readers
    /\ ext.mode = PTE
    /\ \E p \in Pages : frame' = p
    /\ UNCHANGED <<early, driver, resources, ext, permits, client>>

\* The pages, one by one, each by the mode as it is then (a page number 0 is refused).
Remap(c) ==
    /\ c \in Readers
    /\ ext.mode = PTE
    /\ \E p \in Pages \ {0} : frame' = p
    /\ UNCHANGED <<early, driver, resources, ext, permits, client>>

\* Mutant: an exit of DeviceRead does not release the mutex.
FinishHolding(c) ==
    /\ c \in Readers
    /\ pc' = [pc EXCEPT ![c] = "open"]
    /\ UNCHANGED <<early, driver, resources, ext, permits, frame, lost, switched>>

\* The end of DeviceRead: the mutex is released if the mode is PTE by now.
Finish(c) ==
    /\ c \in Readers
    /\ permits' = IF ext.mode = PTE THEN permits + 1 ELSE permits
    /\ pc' = [pc EXCEPT ![c] = "open"]
    /\ UNCHANGED <<early, driver, resources, ext, frame, lost, switched>>

\* Mutant: closing a handle puts the rogue page back.
CloseRestores(c) ==
    /\ pc[c] = "open"
    /\ frame' = RestoredFrame
    /\ pc' = [pc EXCEPT ![c] = "away"]
    /\ UNCHANGED <<early, driver, resources, ext, permits, lost, switched>>

Close(c) ==
    /\ pc[c] = "open"
    /\ pc' = [pc EXCEPT ![c] = "away"]
    /\ UNCHANGED <<early, driver, resources, ext, permits, frame, lost, switched>>

-----------------------------------------------------------------------------
DriverEntry ==
    \/ AllocateFastIo \/ CreateLink \/ ZeroExtension \/ OpenSection
    \/ SetupPte \/ InitializeMutex

Next ==
    \/ CreateDevice \/ DriverEntry \/ StopService \/ UnloadDriver
    \/ \E c \in Clients : Open(c) \/ SetModeCheck(c) \/ SetModeApply(c) \/ Read(c)
                            \/ Acquire(c) \/ Remap(c) \/ Finish(c) \/ Close(c)

Safety == Init /\ [][Next]_vars

\* The kernel runs DriverEntry and the unloading to the end; a reader reads on to
\* the end of its request, a waiter eventually gets a mutex that becomes free, and
\* a client closes its handle some day (or exits).
Spec ==
    /\ Safety
    /\ WF_vars(DriverEntry) /\ WF_vars(UnloadDriver)
    /\ \A c \in Clients : /\ WF_vars(SetModeApply(c)) /\ WF_vars(Finish(c))
                          /\ SF_vars(Acquire(c)) /\ SF_vars(Close(c))

-----------------------------------------------------------------------------
(* Properties.                                                               *)

\* The types of the driver's and the clients' state.
TypeOK ==
    /\ early \subseteq Clients
    /\ driver \in Phases
    /\ resources \subseteq Objects
    /\ ext \in [mode : Modes, MemoryHandle : BOOLEAN, ready : BOOLEAN, original : Pages \cup {0}]
    /\ permits \in Nat
    /\ frame \in Pages \ {0}
    /\ pc \in [Clients -> {"away", "open", "setting", "waiting", "reading", "holding"}]
    /\ lost \subseteq Clients
    /\ switched \in BOOLEAN

\* A driver that is gone - unloaded, or given up by DriverEntry at whatever point -
\* has left no kernel object behind and has put its rogue page back.
LeavesNoTrace == driver = "absent" => resources = {} /\ frame = HomePage

\* The rogue PTE is put back by IoUnload with nobody in the driver (IoUnload does not take
\* the mutex, and a read may be under way when a stop comes), and otherwise written only by
\* a reader that has the mutex and is alone in the driver - except after a mode has turned
\* under a read, which PmemDriver's WindowGuarded is about.
RestoreUnraced ==
    [][frame' # frame =>
         IF driver' = "absent" THEN driver = "stopping" /\ Handles = {}
         ELSE switched \/ \E c \in Clients : pc[c] = "holding" /\ Readers = {c}]_vars

\* Only a client that did not wait for the service can end up on the queue of a mutex
\* that is initialised behind its back.
OnlyEarlyLost == lost \subseteq early

\* A service that is asked to stop does, unless it has lost a client that way, or the mode
\* turned under a read: then one may leave DeviceRead without releasing the mutex.
StopHonoured == driver = "stopping" ~> (driver = "absent" \/ lost # {} \/ switched)
=============================================================================

------------------------ MODULE DriverLifecycleProofs ------------------------
(***************************************************************************)
(* Proofs that the driver leaves no trace (LeavesNoTrace), that its rogue  *)
(* page is restored without a race (RestoreUnraced) and that only a client *)
(* that opened the device too early can lose the mutex (OnlyEarlyLost):    *)
(* for any set of clients and of pages, any number of loads and unloads,   *)
(* and a failure of DriverEntry wherever it can fail.                      *)
(***************************************************************************)
EXTENDS DriverLifecycle, TLAPS

\* The phases before the first open, and those in which the PTE method may be ready.
Unpublished == {"absent", "created", "table"}
Unready == {"created", "table", "linked", "zeroed", "section"}
InService == {"running", "stopping"}

\* Who can be where: nobody before the link is published, patient clients only once
\* the service runs.
ClientInv ==
    \A c \in Clients :
        /\ pc[c] # "away" => driver \notin Unpublished
        /\ pc[c] # "away" /\ c \notin early => driver \in InService

\* As long as no mode has turned under a read, what a reader found at its first look at
\* the mode is still so at the others, and the mutex, once it is initialised, excludes.
MutexInv ==
    ~switched =>
        /\ \A c \in Clients :
              /\ pc[c] \in {"waiting", "holding"} => ext.mode = PTE
              /\ pc[c] = "reading" => ext.mode # PTE
              /\ pc[c] = "holding" => permits = 0 /\ driver \in InService
        /\ \A c, d \in Clients : pc[c] = "holding" /\ pc[d] = "holding" => c = d
        /\ permits \in {0, 1}
        /\ permits = 1 => driver \in InService \cup {"absent"}

\* The backup is the page that belongs there, and whoever could have moved the rogue
\* PTE since has gone through the ready flag.
BackupInv ==
    /\ ext.mode = PTE => ext.ready
    /\ ext.ready => ext.original = HomePage
    /\ driver \in Unready => ~ext.ready
    /\ driver = "absent" \/ ~ext.ready => frame = HomePage

\* The section handle is where IoUnload looks for it; the link comes after the table.
ResourceInv ==
    /\ driver = "absent" => resources = {}
    /\ "link" \in resources => driver \notin Unpublished
    /\ "section" \in resources => ext.MemoryHandle /\ driver \in {"section", "pte"} \cup InService

IInv == TypeOK /\ ClientInv /\ MutexInv /\ BackupInv /\ ResourceInv /\ OnlyEarlyLost

-----------------------------------------------------------------------------
\* Before any driver is loaded the invariant holds.
THEOREM InitInv == Init => IInv
<1> SUFFICES ASSUME Init PROVE IInv
  OBVIOUS
<1> USE DEF Init, Phases, Objects, ZeroedExtension, Modes, IOSPACE, PHYSICAL, PTE
<1>1. TypeOK
  BY HomeAssumption DEF TypeOK
<1>2. ClientInv /\ MutexInv
  BY DEF ClientInv, MutexInv, InService, Unpublished
<1>3. BackupInv /\ ResourceInv /\ OnlyEarlyLost
  BY DEF BackupInv, ResourceInv, OnlyEarlyLost, Unready
<1> QED BY <1>1, <1>2, <1>3 DEF IInv

\* IoUnload, called where nobody has the device open, removes everything.
LEMMA UnloadInv ==
  ASSUME IInv, IoUnload, Handles = {}, driver # "absent"
  PROVE  IInv'
<1>1. resources' = {}
  BY DEF IInv, TypeOK, ResourceInv, IoUnload, DeletedObjects, Objects
<1>2. frame' = HomePage
  BY HomeAssumption DEF IInv, BackupInv, IoUnload, RestoredFrame
<1>3. \A c \in Clients : pc[c] = "away"
  BY DEF Handles
<1>4. TypeOK'
  BY <1>1, <1>2, HomeAssumption DEF IInv, TypeOK, IoUnload, client, Phases
<1>5. ClientInv' /\ MutexInv'
  BY <1>3 DEF IInv, TypeOK, ClientInv, MutexInv, IoUnload, client, Unpublished, InService
<1>6. BackupInv' /\ ResourceInv' /\ OnlyEarlyLost'
  BY <1>1, <1>2
  DEF IInv, BackupInv, ResourceInv, OnlyEarlyLost, IoUnload, client, Unready, InService
<1> QED BY <1>4, <1>5, <1>6 DEF IInv

\* Every step of DriverEntry, the failing ones included, preserves the invariant.
LEMMA DriverEntryInv ==
  ASSUME IInv, CreateDevice \/ DriverEntry
  PROVE  IInv'
<1> USE DEF IInv, TypeOK, ClientInv, MutexInv, BackupInv, ResourceInv, OnlyEarlyLost, client,
            Phases, Objects, Unpublished, InService, Unready, Modes, IOSPACE, PHYSICAL, PTE
<1>1. CASE CreateDevice
  <2>1. Handles = {}
    BY <1>1 DEF CreateDevice, Handles
  <2>2. \A c \in Clients : pc[c] = "away"
    BY <2>1 DEF Handles
  <2>3. TypeOK'
    BY <1>1 DEF CreateDevice, ZeroedExtension
  <2>4. ClientInv'
    BY <1>1, <2>2 DEF CreateDevice
  <2>5. MutexInv'
    BY <1>1, <2>2 DEF CreateDevice
  <2>6. BackupInv'
    BY <1>1 DEF CreateDevice, ZeroedExtension
  <2>7. ResourceInv' /\ OnlyEarlyLost'
    BY <1>1, <2>2 DEF CreateDevice
  <2> QED BY <2>3, <2>4, <2>5, <2>6, <2>7
<1>2. CASE AllocateFastIo
  <2>1. driver = "created" /\ Handles = {}
    BY <1>2 DEF AllocateFastIo, Handles
  <2>2. CASE IoUnload
    BY <2>1, <2>2, UnloadInv
  <2>3. CASE ~IoUnload
    BY <1>2, <2>3 DEF AllocateFastIo
  <2> QED BY <2>2, <2>3
<1>3. CASE CreateLink
  <2>1. driver = "table" /\ Handles = {}
    BY <1>3 DEF CreateLink, Handles
  <2>2. CASE IoUnload
    BY <2>1, <2>2, UnloadInv
  <2>3. CASE ~IoUnload
    BY <1>3, <2>3 DEF CreateLink
  <2> QED BY <2>2, <2>3
<1>4. CASE ZeroExtension
  BY <1>4 DEF ZeroExtension, ZeroedExtension
<1>5. CASE OpenSection
  BY <1>5 DEF OpenSection
<1>6. CASE SetupPte
  BY <1>6 DEF SetupPte
<1>7. CASE InitializeMutex
  BY <1>7 DEF InitializeMutex
<1> QED BY <1>1, <1>2, <1>3, <1>4, <1>5, <1>6, <1>7 DEF DriverEntry

\* What clients do preserves the invariant.
LEMMA ClientStepInv ==
  ASSUME IInv, NEW c \in Clients,
         \/ Open(c) \/ SetModeCheck(c) \/ SetModeApply(c) \/ Read(c)
         \/ Acquire(c) \/ Remap(c) \/ Finish(c) \/ Close(c)
  PROVE  IInv'
<1> USE DEF IInv, TypeOK, ClientInv, MutexInv, BackupInv, ResourceInv, OnlyEarlyLost, client,
            Phases, Objects, Unpublished, InService, Unready, Modes, IOSPACE, PHYSICAL, PTE
<1>1. CASE Open(c)
  BY <1>1 DEF Open
<1>2. CASE SetModeCheck(c)
  BY <1>2 DEF SetModeCheck
<1>3. CASE Read(c)
  BY <1>3 DEF Read
<1>4. CASE Acquire(c)
  BY <1>4 DEF Acquire
<1>5. CASE Remap(c)
  <2>1. ext.ready /\ driver \notin Unready /\ driver # "absent"
    BY <1>5 DEF Remap, Readers
  <2> QED BY <1>5, <2>1 DEF Remap
<1>6. CASE Finish(c)
  <2>1. TypeOK'
    <3>1. permits' \in Nat
      BY <1>6 DEF Finish
    <3> QED BY <1>6, <3>1 DEF Finish
  <2>2. BackupInv' /\ ResourceInv' /\ OnlyEarlyLost'
    BY <1>6 DEF Finish
  <2>3. ClientInv'
    BY <1>6 DEF Finish, Readers
  <2>4. CASE pc[c] = "holding" /\ ~switched
    <3>1. ext.mode = PTE /\ permits' = 1
      BY <1>6, <2>4 DEF Finish
    <3>2. \A d \in Clients : pc'[d] # "holding"
      BY <1>6, <2>4 DEF Finish
    <3> QED BY <1>6, <2>1, <2>4, <3>1, <3>2 DEF Finish
  <2>5. CASE pc[c] = "reading" /\ ~switched
    <3>1. ext.mode # PTE /\ permits' = permits
      BY <1>6, <2>5 DEF Finish
    <3> QED BY <1>6, <2>1, <2>5, <3>1 DEF Finish
  <2>6. CASE switched
    <3>1. switched'
      BY <1>6, <2>6 DEF Finish
    <3>2. MutexInv'
      BY <3>1
    <3> QED BY <2>1, <2>2, <2>3, <3>2
  <2> QED BY <1>6, <2>1, <2>4, <2>5, <2>6, <2>2, <2>3 DEF Finish, Readers
<1>7. CASE Close(c)
  BY <1>7 DEF Close
<1>8. CASE SetModeApply(c)
  BY <1>8 DEF SetModeApply, Available, Inside
<1> QED BY <1>1, <1>2, <1>3, <1>4, <1>5, <1>6, <1>7, <1>8

\* Every step preserves the invariant.
THEOREM StepInv == IInv /\ [Next]_vars => IInv'
<1> SUFFICES ASSUME IInv, [Next]_vars PROVE IInv'
  OBVIOUS
<1>1. CASE CreateDevice \/ DriverEntry
  BY <1>1, DriverEntryInv
<1>2. CASE StopService
  BY <1>2 DEF StopService, client, IInv, TypeOK, ClientInv, MutexInv, BackupInv,
              ResourceInv, OnlyEarlyLost, Phases, Unpublished, InService, Unready
<1>3. CASE UnloadDriver
  BY <1>3, UnloadInv DEF UnloadDriver
<1>4. CASE \E c \in Clients : Open(c) \/ SetModeCheck(c) \/ SetModeApply(c) \/ Read(c)
                                \/ Acquire(c) \/ Remap(c) \/ Finish(c) \/ Close(c)
  BY <1>4, ClientStepInv
<1>5. CASE UNCHANGED vars
  BY <1>5 DEF vars, client, IInv, TypeOK, ClientInv, MutexInv, BackupInv, ResourceInv,
              OnlyEarlyLost
<1> QED BY <1>1, <1>2, <1>3, <1>4, <1>5 DEF Next

\* The invariant holds in every behaviour of the driver and its clients.
THEOREM Invariance == Spec => []IInv
<1>1. Init /\ [][Next]_vars => []IInv
  BY InitInv, StepInv, PTL
<1> QED BY <1>1, PTL DEF Spec, Safety

-----------------------------------------------------------------------------
\* The state of the driver and its clients is always well typed.
THEOREM TypeCorrect == Spec => []TypeOK
  BY Invariance, PTL DEF IInv

\* An unloaded, or never quite loaded, driver has left nothing behind.
THEOREM NothingLeft == Spec => []LeavesNoTrace
<1>1. IInv => LeavesNoTrace
  BY DEF IInv, BackupInv, ResourceInv, LeavesNoTrace
<1> QED BY <1>1, Invariance, PTL

\* A client that waits for the service never waits for a mutex that is then initialised.
THEOREM PatientClientsServed == Spec => []OnlyEarlyLost
  BY Invariance, PTL DEF IInv

\* An IoUnload that moves the rogue PTE is alone in the driver; anybody else who writes it is
\* a reader that holds the mutex and is the only one, unless a mode turned under a read.
THEOREM UnloadIsAlone == Spec => RestoreUnraced
<1> DEFINE Guarded ==
      frame' # frame =>
        IF driver' = "absent" THEN driver = "stopping" /\ Handles = {}
        ELSE switched \/ \E c \in Clients : pc[c] = "holding" /\ Readers = {c}
<1>1. IInv /\ Next => Guarded
  <2> SUFFICES ASSUME IInv, Next, frame' # frame
               PROVE  IF driver' = "absent" THEN driver = "stopping" /\ Handles = {}
                      ELSE switched \/ \E c \in Clients : pc[c] = "holding" /\ Readers = {c}
    OBVIOUS
  <2>1. ASSUME NEW c \in Clients, Remap(c)
        PROVE  driver' # "absent" /\ (switched \/ (pc[c] = "holding" /\ Readers = {c}))
    <3>1. ext.mode = PTE /\ c \in Readers /\ driver' = driver
      BY <2>1 DEF Remap
    <3>2. driver # "absent"
      BY <3>1 DEF IInv, ClientInv, Readers, Unpublished
    <3>3. ASSUME ~switched PROVE \A d \in Readers : pc[d] = "holding" /\ d = c
      <4>1. \A d \in Readers : pc[d] = "holding"
        BY <3>1, <3>3 DEF IInv, MutexInv, Readers
      <4> QED BY <3>1, <3>3, <4>1 DEF IInv, MutexInv, Readers
    <3> QED BY <3>1, <3>2, <3>3
  <2>2. CASE UnloadDriver
    BY <2>2 DEF UnloadDriver, IoUnload
  <2>3. driver \in {"created", "table"} => ~IoUnload
    BY DEF IoUnload, RestoredFrame, IInv, BackupInv, Unready
  <2> QED
    BY <2>1, <2>2, <2>3
    DEF Next, CreateDevice, DriverEntry, AllocateFastIo, CreateLink, ZeroExtension,
        OpenSection, SetupPte, InitializeMutex, StopService, Open, SetModeCheck,
        SetModeApply, Read, Acquire, Finish, Close
<1>2. IInv /\ [Next]_vars => [Guarded]_vars
  BY <1>1
<1> QED BY <1>2, Invariance, PTL DEF Spec, Safety, RestoreUnraced
=============================================================================

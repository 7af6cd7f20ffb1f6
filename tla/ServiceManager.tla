--------------------------- MODULE ServiceManager ---------------------------
(***************************************************************************)
(* What the two user-mode tools find around them, none of it code of the   *)
(* repository: the service control manager, which keeps the entry of a     *)
(* deleted service until its driver is gone; the kernel, which unloads a   *)
(* stopped driver when its last handle is closed and may keep the file of a*)
(* loaded driver from being deleted; and some other program that uses the  *)
(* device.  There is one service name, the tools' default.                 *)
(***************************************************************************)
EXTENDS Integers, FiniteSets

CONSTANTS
    Runs,        \* processes; each runs one command and names its own driver file
    Outsider,    \* some other program that uses the device
    Nobody

ASSUME OthersAssumption == Outsider \notin Runs /\ Nobody \notin Runs

VARIABLES
    service,     \* the entry in the service database: [path, marked]
    driver,      \* "absent", "running", "stopping"
    image,       \* whose file the loaded driver came from
    ready, mode, \* the driver's PTE method is usable; its mode
    handles,     \* who has the device open
    files        \* whose driver file exists

scm == <<service, driver, image, ready, mode>>

PHYSICAL == 1
PTE == 2
NoService == [path |-> Nobody, marked |-> FALSE]

NothingInstalled ==
    /\ service = NoService
    /\ driver = "absent" /\ image = Nobody /\ ready = FALSE /\ mode = 0
    /\ handles = {}
    /\ files = {}

\* The service entry becomes s, the driver d; what is due to go goes.
Settle(s, d) ==
    /\ service' = IF s.marked /\ d = "absent" THEN NoService ELSE s
    /\ driver' = d
    /\ image' = IF d = "absent" THEN Nobody ELSE image
    /\ UNCHANGED <<ready, mode>>

\* A stop request: the driver goes at once if nobody has the device open.
AskToStop == Settle(service, IF handles = {} THEN "absent" ELSE "stopping")

\* The service entry is marked for deletion.
MarkDeleted == Settle([service EXCEPT !.marked = TRUE], driver)

\* A driver can be started from an entry that is not marked and whose file is there.
Startable == service # NoService /\ ~service.marked /\ driver = "absent" /\ service.path \in files

\* StartService and the driver's DriverEntry.
LoadDriver ==
    /\ driver' = "running" /\ image' = service.path
    /\ ready' \in BOOLEAN /\ mode' = 0

\* c's handle, if it has one, is closed.
CloseHandle(c) ==
    /\ handles' = handles \ {c}
    /\ Settle(service, IF driver = "stopping" /\ handles \subseteq {c} THEN "absent" ELSE driver)

\* Deleting i's file; that of a loaded driver may be kept.
DeleteFile(i) ==
    \/ files' = files \ {i}
    \/ image = i /\ files' = files

\* The other program opens the device, chooses a mode, closes the device.
OutsiderOpens ==
    /\ driver = "running"
    /\ handles' = handles \cup {Outsider}
    /\ UNCHANGED <<scm, files>>

OutsiderSetsMode ==
    /\ Outsider \in handles
    /\ mode = 0
    /\ mode' = PHYSICAL
    /\ UNCHANGED <<service, driver, image, ready, handles, files>>

OutsiderCloses ==
    /\ Outsider \in handles
    /\ CloseHandle(Outsider)
    /\ UNCHANGED files

ScmTypeOK ==
    /\ service \in [path : Runs \cup {Nobody}, marked : BOOLEAN]
    /\ driver \in {"absent", "running", "stopping"}
    /\ image \in Runs \cup {Nobody}
    /\ ready \in BOOLEAN /\ mode \in {0, PHYSICAL, PTE}
    /\ handles \subseteq Runs \cup {Outsider}
    /\ files \subseteq Runs
    /\ handles # {} => driver # "absent"
=============================================================================

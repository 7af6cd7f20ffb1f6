------------------------------ MODULE GoSession ------------------------------
(***************************************************************************)
(* The life of the current tool's commands acquire, install and uninstall  *)
(* (go-winpmem/cmd/acquire.go, cmd/install.go, install.go): write the      *)
(* driver to a file, replace the service, start it, open the device, set   *)
(* the mode, image, and undo all of it in doAcquire's deferred calls.      *)
(*                                                                         *)
(* Several processes may do this at once under the one default service     *)
(* name, and a process may be killed at any point.  The service control    *)
(* manager and the kernel around them are in ServiceManager.               *)
(***************************************************************************)
EXTENDS ServiceManager

VARIABLES
    command,     \* command[i]: what process i was asked to do
    named,       \* the processes that were given --driver_path
    sequential,  \* the processes run one after the other
    trouble,     \* calls fail for reasons of their own, users cancel, an outsider is about
    pc,          \* where process i is
    closing,     \* i's UninstallDriver is its last act, not InstallDriver's first
    outcome      \* "none", "ok" or "failed": what the command returned

process == <<pc, closing, outcome>>
vars == <<command, named, sequential, trouble, scm, handles, files, process>>
const == <<command, named, sequential, trouble>>

Commands == {"acquire", "install", "uninstall"}

Init ==
    /\ command \in [Runs -> Commands]
    /\ named \in SUBSET Runs
    /\ sequential \in BOOLEAN
    /\ trouble \in BOOLEAN
    /\ NothingInstalled
    /\ pc = [i \in Runs |-> "start"]
    /\ closing = [i \in Runs |-> FALSE]
    /\ outcome = [i \in Runs |-> "none"]

-----------------------------------------------------------------------------
(* Where a process goes next.                                                *)

Goto(i, l) == pc' = [pc EXCEPT ![i] = l]
Stay(i) == UNCHANGED <<closing, outcome>>

\* acquire's way out: os.Remove is deferred only where doAcquire made a temporary file;
\* the file of --driver_path stays, and install's, whichever it is.
Leave(i) == Goto(i, IF command[i] = "acquire" /\ i \notin named THEN "unlink" ELSE "exit")

\* The command returns an error before its deferred UninstallDriver is due.
GiveUp(i) ==
    /\ Leave(i)
    /\ outcome' = [outcome EXCEPT ![i] = "failed"]
    /\ UNCHANGED closing

\* UninstallDriver returned nil, or an error: InstallDriver goes on or gives up,
\* the deferred call and the command uninstall ignore it.
Uninstalled(i) ==
    /\ IF closing[i] THEN Leave(i) ELSE Goto(i, "create")
    /\ Stay(i)
UninstallFailed(i) == IF closing[i] THEN Uninstalled(i) ELSE GiveUp(i)

-----------------------------------------------------------------------------
(* The steps of a process.                                                   *)

\* The driver is written to a file; uninstall has nothing to write.
WriteDriver(i) ==
    /\ pc[i] = "start"
    /\ sequential => \A j \in Runs : pc[j] \in {"start", "gone", "dead"}
    /\ files' = IF command[i] = "uninstall" THEN files ELSE files \cup {i}
    /\ closing' = [closing EXCEPT ![i] = command[i] = "uninstall"]
    /\ outcome' = [outcome EXCEPT ![i] = IF command[i] = "uninstall" THEN "ok" ELSE "none"]
    /\ Goto(i, "check")
    /\ UNCHANGED <<const, scm, handles>>

\* Mutant: an existing service is not noticed.
CheckNothing(i) ==
    /\ pc[i] = "check"
    /\ Uninstalled(i)
    /\ UNCHANGED <<const, scm, handles, files>>

\* checkServiceExists.
Check(i) ==
    /\ pc[i] = "check"
    /\ \/ service # NoService /\ Goto(i, "stop") /\ Stay(i)
       \/ service = NoService /\ Uninstalled(i)
       \/ trouble /\ UninstallFailed(i)
    /\ UNCHANGED <<const, scm, handles, files>>

\* controlService: an error (no such service, not running, already stopping) is logged.
Stop(i) ==
    /\ pc[i] = "stop"
    /\ \/ /\ service # NoService /\ driver = "running"
          /\ AskToStop
          /\ Goto(i, "poll")
       \/ /\ service = NoService \/ driver # "running" \/ trouble
          /\ Goto(i, "remove")
          /\ UNCHANGED scm
    /\ Stay(i)
    /\ UNCHANGED <<const, handles, files>>

PollStopped(i) ==
    /\ pc[i] = "poll"
    /\ driver = "absent"
    /\ Goto(i, "remove") /\ Stay(i)
    /\ UNCHANGED <<const, scm, handles, files>>

\* Mutant: there is no timeout.
PollOn(i) ==
    /\ pc[i] = "poll"
    /\ driver # "absent"
    /\ UNCHANGED vars

\* Ten seconds have passed (or the query failed): logged, too.
PollTimeout(i) ==
    /\ pc[i] = "poll"
    /\ driver # "absent"
    /\ Goto(i, "remove") /\ Stay(i)
    /\ UNCHANGED <<const, scm, handles, files>>

\* removeService: an error if it is gone or marked already.
Remove(i) ==
    /\ pc[i] = "remove"
    /\ \/ /\ service # NoService /\ ~service.marked
          /\ MarkDeleted
          /\ Uninstalled(i)
       \/ /\ service = NoService \/ service.marked \/ trouble
          /\ UninstallFailed(i)
          /\ UNCHANGED scm
    /\ UNCHANGED <<const, handles, files>>

\* installService.
Create(i) ==
    /\ pc[i] = "create"
    /\ \/ /\ service = NoService
          /\ service' = [path |-> i, marked |-> FALSE]
          /\ Goto(i, "load") /\ Stay(i)
       \/ /\ service # NoService \/ trouble
          /\ GiveUp(i)
          /\ UNCHANGED service
    /\ UNCHANGED <<const, driver, image, ready, mode, handles, files>>

\* startService, and the driver's DriverEntry.
StartService(i) ==
    /\ pc[i] = "load"
    /\ \/ /\ Startable
          /\ LoadDriver
          /\ IF command[i] = "acquire"
             THEN Goto(i, "open") /\ Stay(i)
             ELSE Goto(i, "exit") /\ outcome' = [outcome EXCEPT ![i] = "ok"] /\ UNCHANGED closing
       \/ /\ ~Startable \/ trouble
          /\ GiveUp(i)
          /\ UNCHANGED <<driver, image, ready, mode>>
    /\ UNCHANGED <<const, service, handles, files>>

\* Mutant: the error of CreateFile is not tested.
OpenUntested(i) ==
    /\ pc[i] = "open"
    /\ handles' = handles \cup {i}
    /\ Goto(i, "mode") /\ Stay(i)
    /\ UNCHANGED <<const, scm, files>>

\* NewImager; on an error the deferred UninstallDriver is due.
Open(i) ==
    /\ pc[i] = "open"
    /\ \/ /\ driver = "running"
          /\ handles' = handles \cup {i}
          /\ Goto(i, "mode") /\ Stay(i)
       \/ /\ driver # "running" \/ trouble
          /\ Goto(i, "check")
          /\ closing' = [closing EXCEPT ![i] = TRUE]
          /\ outcome' = [outcome EXCEPT ![i] = "failed"]
          /\ UNCHANGED handles
    /\ UNCHANGED <<const, scm, files>>

\* Imager.SetMode, whose error acquire does not look at; then the image, if a
\* filename was given.
SetMode(i) ==
    /\ pc[i] = "mode"
    /\ mode' = IF mode = 0 /\ ready THEN PTE ELSE mode
    /\ \E l \in {"image", "close"} : Goto(i, l)
    /\ Stay(i)
    /\ UNCHANGED <<const, service, driver, image, ready, handles, files>>

\* The output file is made and WriteTo writes the image into it; doAcquire returns their
\* error (the user's cancelling is one, too), once the deferred calls are done.
Image(i) ==
    /\ pc[i] = "image"
    /\ \/ UNCHANGED outcome
       \/ trouble /\ outcome' = [outcome EXCEPT ![i] = "failed"]
    /\ Goto(i, "close")
    /\ UNCHANGED <<const, scm, handles, files, closing>>

\* Mutant: the deferred calls are in the wrong order, the driver is uninstalled first.
CloseLate(i) ==
    /\ pc[i] = "close"
    /\ Goto(i, "check")
    /\ closing' = [closing EXCEPT ![i] = TRUE]
    /\ outcome' = [outcome EXCEPT ![i] = IF @ = "failed" THEN @ ELSE "ok"]
    /\ UNCHANGED <<const, scm, handles, files>>

\* Imager.Close, the first of the deferred calls that concern the driver.
Close(i) ==
    /\ pc[i] = "close"
    /\ CloseHandle(i)
    /\ Goto(i, "check")
    /\ closing' = [closing EXCEPT ![i] = TRUE]
    /\ outcome' = [outcome EXCEPT ![i] = IF @ = "failed" THEN @ ELSE "ok"]
    /\ UNCHANGED <<const, files>>

\* os.Remove of the temporary file, whose error is only logged.
Unlink(i) ==
    /\ pc[i] = "unlink"
    /\ DeleteFile(i)
    /\ Goto(i, "exit") /\ Stay(i)
    /\ UNCHANGED <<const, scm, handles>>

\* The process ends, and with it its handles.
Exit(i) ==
    /\ pc[i] = "exit"
    /\ CloseHandle(i)
    /\ Goto(i, "gone") /\ Stay(i)
    /\ UNCHANGED <<const, files>>

\* The process is killed (a signal before install_sig_handler, a power cut of its console).
Kill(i) ==
    /\ pc[i] \notin {"start", "gone", "dead"}
    /\ CloseHandle(i)
    /\ Goto(i, "dead") /\ Stay(i)
    /\ UNCHANGED <<const, files>>

Step(i) ==
    \/ WriteDriver(i) \/ Check(i) \/ Stop(i) \/ PollStopped(i) \/ PollTimeout(i)
    \/ Remove(i) \/ Create(i) \/ StartService(i) \/ Open(i) \/ SetMode(i)
    \/ Image(i) \/ Close(i) \/ Unlink(i) \/ Exit(i)

\* Another program that uses the device.
Other ==
    /\ trouble
    /\ OutsiderOpens \/ OutsiderSetsMode \/ OutsiderCloses
    /\ UNCHANGED <<const, process>>

Next == Other \/ \E i \in Runs : Step(i) \/ Kill(i)

\* A process that was started runs; nobody has to start, kill or use anything.
Spec ==
    /\ Init /\ [][Next]_vars
    /\ \A i \in Runs : WF_vars(pc[i] # "start" /\ Step(i))

-----------------------------------------------------------------------------
(* Properties.                                                               *)

\* The types of the system's and the processes' state; nobody has a device open whose
\* driver is not there.
TypeOK ==
    /\ command \in [Runs -> Commands]
    /\ named \subseteq Runs
    /\ sequential \in BOOLEAN /\ trouble \in BOOLEAN
    /\ ScmTypeOK
    /\ pc \in [Runs -> {"start", "check", "stop", "poll", "remove", "create", "load", "open",
                        "mode", "image", "close", "unlink", "exit", "gone", "dead"}]
    /\ closing \in [Runs -> BOOLEAN]
    /\ outcome \in [Runs -> {"none", "ok", "failed"}]

\* Commands that ran to their end and did not fail leave no service and no driver behind,
\* however many of them ran at once, in whatever order.  Of the files, if they ran one at
\* a time, only those stay that the user named.
CleanExit ==
    ~trouble /\ (\A i \in Runs : \/ pc[i] = "start"
                                 \/ pc[i] = "gone" /\ outcome[i] = "ok" /\ command[i] # "install")
        => service = NoService /\ driver = "absent" /\ (sequential => files \subseteq named)

\* A command that has the machine to itself succeeds, whatever an earlier one that was
\* killed, at whatever point, has left installed.
KillsHeal == sequential /\ ~trouble => \A i \in Runs : outcome[i] # "failed"

\* A command that was started ends, even if another program keeps the device open.
CommandsEnd == \A i \in Runs : pc[i] # "start" ~> pc[i] \in {"gone", "dead"}

\* acquire.go: "We only support this mode now - it is the most reliable." - the image is
\* read through the PTE mode.
ImagedThroughPte == \A i \in Runs : pc[i] = "image" => mode = PTE
=============================================================================

----------------------------- MODULE CppSession -----------------------------
(***************************************************************************)
(* The life of a run of the C++ tool (_tmain of src/executable/main.cpp,   *)
(* with install_driver, uninstall_driver, set_acquisition_mode and         *)
(* create_output_file of winpmem.cpp): image the memory, load the driver,  *)
(* unload it, or only extract its file.                                    *)
(*                                                                         *)
(* Unlike the Go tool this one does not wait for the driver to stop, stops *)
(* it while its own handle is still open, and deletes the driver's file as *)
(* soon as it is loaded.  The runs come one after the other; a run may be  *)
(* killed at any point.  write_raw_image is one step (CppImager has the    *)
(* details).                                                               *)
(***************************************************************************)
EXTENDS ServiceManager

VARIABLES
    command,     \* command[i]: what run i was asked to do
    asked,       \* asked[i]: the mode on its command line
    named,       \* named[i]: its driver file was named with -d
    trouble,     \* calls fail for reasons of their own, an outsider is about
    pc,          \* where run i is
    output,      \* output[i]: out_fd_ is a valid handle
    status,      \* _tmain's status (0: not yet set, or no service control manager)
    imaged       \* history: an image was written, read through the mode asked for

const == <<command, asked, named, trouble>>
local == <<output, status, imaged>>
vars == <<const, scm, handles, files, pc, local>>

Commands == {"image", "load", "unload", "extract"}

Init ==
    /\ command \in [Runs -> Commands]
    /\ asked \in [Runs -> {PHYSICAL, PTE}]
    /\ \A i \in Runs : command[i] \in {"unload", "extract"} => asked[i] = PTE   \* not used
    /\ \E b \in BOOLEAN : named = [i \in Runs |-> b]
    /\ trouble \in BOOLEAN
    /\ NothingInstalled
    /\ pc = [i \in Runs |-> "start"]
    /\ output = [i \in Runs |-> FALSE]
    /\ status = [i \in Runs |-> 0]
    /\ imaged = [i \in Runs |-> FALSE]

Goto(i, l) == pc' = [pc EXCEPT ![i] = l]
Result(i, n) == status' = [status EXCEPT ![i] = n]
World == <<scm, handles, files>>

-----------------------------------------------------------------------------
\* _tmain; create_output_file's -1 is as true as its 1.
Start(i) ==
    /\ pc[i] = "start"
    /\ \A j \in Runs : pc[j] \in {"start", "gone", "dead"}
    /\ Goto(i, IF command[i] = "unload" THEN "stop" ELSE "extract")
    /\ \E opened \in {command[i] = "image"} \cup (IF trouble THEN {FALSE} ELSE {}) :
          output' = [output EXCEPT ![i] = opened]
    /\ UNCHANGED <<const, World, status, imaged>>

\* Mutant: an old service is left where it is.
ExtractOnly(i) ==
    /\ pc[i] = "extract"
    /\ files' = files \cup {i}
    /\ IF command[i] = "extract" THEN Goto(i, "exit") /\ Result(i, 1)
                                 ELSE Goto(i, "create") /\ UNCHANGED status
    /\ UNCHANGED <<const, scm, handles, output, imaged>>

\* extract_driver; a file that could not be written whole stays until the cleanup.
Extract(i) ==
    /\ pc[i] = "extract"
    /\ \/ /\ files' = files \cup {i}
          /\ IF command[i] = "extract" THEN Goto(i, "exit") /\ Result(i, 1)
                                       ELSE Goto(i, "restop") /\ UNCHANGED status
       \/ /\ trouble
          /\ files' \in {files, files \cup {i}}
          /\ Goto(i, IF command[i] = "extract" THEN "exit" ELSE "cleanup")
          /\ Result(i, -1)
    /\ UNCHANGED <<const, scm, handles, output, imaged>>

\* Mutant: the tool waits for the driver to be gone before it goes on.
StopAndWait(i) ==
    /\ pc[i] \in {"restop", "stop"}
    /\ IF service # NoService /\ driver = "running"
       THEN AskToStop /\ pc' = pc
       ELSE /\ driver # "stopping"
            /\ Goto(i, IF pc[i] = "restop" THEN "redelete" ELSE "delete")
            /\ UNCHANGED scm
    /\ UNCHANGED <<const, handles, files, local>>

\* uninstall_driver: ControlService ("restop" within install_driver, "stop" at the
\* end); whether it worked is not looked at ...  Without the service control manager
\* nothing is done, and -u returns 0.
Stop(i) ==
    /\ pc[i] \in {"restop", "stop"}
    /\ \/ /\ service # NoService /\ driver = "running" /\ AskToStop
          /\ Goto(i, IF pc[i] = "restop" THEN "redelete" ELSE "delete")
       \/ /\ service = NoService \/ driver # "running" \/ trouble
          /\ Goto(i, IF pc[i] = "restop" THEN "redelete" ELSE "delete")
          /\ UNCHANGED scm
       \/ /\ trouble
          /\ Goto(i, IF pc[i] = "restop" THEN "create" ELSE "exit")
          /\ UNCHANGED scm
    /\ UNCHANGED <<const, handles, files, local>>

\* Mutant: the result of uninstall_driver is added to the run's.
DeleteCounts(i) ==
    /\ pc[i] \in {"redelete", "delete"}
    /\ Goto(i, IF pc[i] = "redelete" THEN "create" ELSE "exit")
    /\ IF service # NoService THEN MarkDeleted ELSE UNCHANGED scm
    /\ Result(i, status[i] + 1)
    /\ UNCHANGED <<const, handles, files, output, imaged>>

\* ... and DeleteService.  The command -u then returns 1 whatever happened.
Delete(i) ==
    /\ pc[i] \in {"redelete", "delete"}
    /\ Goto(i, IF pc[i] = "redelete" THEN "create" ELSE "exit")
    /\ \/ service # NoService /\ MarkDeleted
       \/ (service = NoService \/ trouble) /\ UNCHANGED scm
    /\ status' = [status EXCEPT ![i] = IF command[i] = "unload" THEN 1 ELSE @]
    /\ UNCHANGED <<const, handles, files, output, imaged>>

\* CreateService, or OpenService if there is one that is not marked for deletion.
Create(i) ==
    /\ pc[i] = "create"
    /\ \/ /\ service = NoService
          /\ service' = [path |-> i, marked |-> FALSE]
          /\ Goto(i, "load") /\ UNCHANGED status
       \/ /\ service # NoService /\ ~service.marked
          /\ Goto(i, "load") /\ UNCHANGED <<service, status>>
       \/ /\ service.marked \/ trouble
          /\ Goto(i, "cleanup") /\ Result(i, -1) /\ UNCHANGED service
    /\ UNCHANGED <<const, driver, image, ready, mode, handles, files, output, imaged>>

\* StartService; a driver that runs already will do.
Load(i) ==
    /\ pc[i] = "load"
    /\ \/ /\ Startable /\ LoadDriver
          /\ Goto(i, "open") /\ UNCHANGED status
       \/ /\ driver = "running"
          /\ Goto(i, "open") /\ UNCHANGED <<driver, image, ready, mode, status>>
       \/ /\ (~Startable /\ driver # "running") \/ trouble
          /\ Goto(i, "cleanup") /\ Result(i, -1)
          /\ UNCHANGED <<driver, image, ready, mode>>
    /\ UNCHANGED <<const, service, handles, files, output, imaged>>

\* CreateFile; its failure is noted in status, which is then overwritten with 1.
Open(i) ==
    /\ pc[i] = "open"
    /\ \/ driver = "running" /\ handles' = handles \cup {i}
       \/ (driver # "running" \/ trouble) /\ UNCHANGED handles
    /\ Goto(i, "cleanup") /\ Result(i, 1)
    /\ UNCHANGED <<const, scm, files, output, imaged>>

\* The end of install_driver: a temporary driver file is deleted.
Cleanup(i) ==
    /\ pc[i] = "cleanup"
    /\ IF named[i] THEN UNCHANGED files ELSE DeleteFile(i)
    /\ Goto(i, IF status[i] > 0 THEN "mode" ELSE IF command[i] = "image" THEN "stop" ELSE "exit")
    /\ UNCHANGED <<const, scm, handles, local>>

Accepted(i) == i \in handles /\ mode = 0 /\ (asked[i] = PTE => ready)

\* Mutant: whether the mode was set is not looked at.
SetModeAnyway(i) ==
    /\ pc[i] = "mode"
    /\ mode' = IF Accepted(i) THEN asked[i] ELSE mode
    /\ Goto(i, IF command[i] = "image" THEN "image" ELSE "exit")
    /\ UNCHANGED <<const, service, driver, image, ready, handles, files, local>>

\* Mutant: a run whose mode is refused ends at once.
SetModeGivesUp(i) ==
    /\ pc[i] = "mode"
    /\ IF Accepted(i)
       THEN /\ mode' = asked[i] /\ UNCHANGED status
            /\ Goto(i, IF command[i] = "image" THEN "image" ELSE "exit")
       ELSE UNCHANGED mode /\ Result(i, -1) /\ Goto(i, "exit")
    /\ UNCHANGED <<const, service, driver, image, ready, handles, files, output, imaged>>

\* set_acquisition_mode; the command -l does not look at its result.
SetMode(i) ==
    /\ pc[i] = "mode"
    /\ \/ /\ Accepted(i) /\ mode' = asked[i]
          /\ Goto(i, IF command[i] = "image" THEN "image" ELSE "exit")
          /\ UNCHANGED status
       \/ /\ ~Accepted(i) \/ trouble
          /\ UNCHANGED mode
          /\ IF command[i] = "image" THEN Goto(i, "stop") /\ Result(i, -1)
                                     ELSE Goto(i, "exit") /\ UNCHANGED status
    /\ UNCHANGED <<const, service, driver, image, ready, handles, files, output, imaged>>

\* write_raw_image.
Image(i) ==
    /\ pc[i] = "image"
    /\ \/ /\ output[i]
          /\ Result(i, 1) /\ imaged' = [imaged EXCEPT ![i] = mode = asked[i]]
       \/ /\ ~output[i] \/ trouble
          /\ Result(i, -1) /\ UNCHANGED imaged
    /\ Goto(i, "stop")
    /\ UNCHANGED <<const, World, output>>

\* The destructor closes the device, _tmain returns status.
Exit(i) ==
    /\ pc[i] = "exit"
    /\ CloseHandle(i)
    /\ Goto(i, "gone")
    /\ UNCHANGED <<const, files, local>>

\* The process is killed.
Kill(i) ==
    /\ pc[i] \notin {"start", "gone", "dead"}
    /\ CloseHandle(i)
    /\ Goto(i, "dead")
    /\ UNCHANGED <<const, files, local>>

Step(i) ==
    \/ Start(i) \/ Extract(i) \/ Stop(i) \/ Delete(i) \/ Create(i) \/ Load(i)
    \/ Open(i) \/ Cleanup(i) \/ SetMode(i) \/ Image(i) \/ Exit(i)

\* Another program that uses the device.
Other ==
    /\ trouble
    /\ OutsiderOpens \/ OutsiderSetsMode \/ OutsiderCloses
    /\ UNCHANGED <<const, pc, local>>

Next == Other \/ \E i \in Runs : Step(i) \/ Kill(i)

\* A process that was started runs; nobody has to start, kill or use anything.
Spec ==
    /\ Init /\ [][Next]_vars
    /\ \A i \in Runs : WF_vars(pc[i] # "start" /\ Step(i))

-----------------------------------------------------------------------------
(* Properties.                                                               *)

\* The types of the system's and the runs' state.
TypeOK ==
    /\ ScmTypeOK
    /\ pc \in [Runs -> {"start", "extract", "restop", "redelete", "create", "load", "open",
                        "cleanup", "mode", "image", "stop", "delete", "exit", "gone", "dead"}]
    /\ output \in [Runs -> BOOLEAN]
    /\ status \in [Runs -> {-1, 0, 1}]
    /\ imaged \in [Runs -> BOOLEAN]

\* Runs that imaged (even in vain: the mode was not available) or unloaded leave neither
\* service nor driver behind, although the driver is stopped under an open handle.
CleanExit ==
    ~trouble /\ (\A i \in Runs : pc[i] = "start" \/ (pc[i] = "gone" /\ command[i] # "load"))
        => service = NoService /\ driver = "absent"

\* Whatever an earlier run left installed - loaded on purpose, killed at whatever point -
\* a run that images in the mode PHYSICAL succeeds (while nothing else fails, a freshly
\* loaded driver has that mode).
KillsHeal ==
    ~trouble => \A i \in Runs :
        pc[i] = "gone" /\ command[i] = "image" /\ asked[i] = PHYSICAL => status[i] = 1

\* A run that images and returns 1 has read the memory through the mode it was asked to
\* use, into a file that could be opened.
ImageHonest ==
    \A i \in Runs : pc[i] = "gone" /\ command[i] = "image" /\ status[i] = 1 =>
        imaged[i] /\ output[i]

\* A run that was started ends, even if another program keeps the device open.
RunsEnd == \A i \in Runs : pc[i] # "start" ~> pc[i] \in {"gone", "dead"}
=============================================================================

--------------------------- MODULE GoSessionProofs ---------------------------
(***************************************************************************)
(* Theorems about the Go tool's commands, for any number of processes that *)
(* run at once or one after the other and may be killed anywhere: they     *)
(* clean up after themselves, and the next one heals what a killed one has *)
(* left.                                                                   *)
(***************************************************************************)
EXTENDS GoSession, TLAPS

-----------------------------------------------------------------------------
(* The inductive invariant.                                                  *)

Opened == {"mode", "image", "close"}
\* i has begun and not ended.
Active(i) == pc[i] \notin {"start", "gone", "dead"}

\* The driver and the service's entry: a loaded driver has an entry, a marked entry has a
\* loaded driver, a stopped one waits for somebody's handle.
ScmInv ==
    /\ driver = "absent" <=> image = Nobody
    /\ driver # "absent" => service # NoService
    /\ service.marked => driver # "absent"
    /\ driver = "stopping" => handles # {}
    /\ service # NoService => service.path \in Runs

\* Who has the device open.
HandleInv ==
    /\ \A i \in Runs : i \in handles => pc[i] \in Opened
    /\ ~trouble => Outsider \notin handles

\* What a process knows of its own past.
PhaseInv == \A i \in Runs :
    /\ ~closing[i] /\ pc[i] \notin {"close", "unlink", "exit", "gone", "dead"}
          => outcome[i] = "none"
    /\ command[i] = "uninstall" /\ pc[i] # "start" => closing[i]
    /\ pc[i] \in {"create", "load", "open"} \cup Opened => ~closing[i]
    /\ pc[i] = "unlink" => closing[i] \/ outcome[i] = "failed"
    /\ pc[i] = "exit" => closing[i] \/ outcome[i] = "failed" \/ command[i] = "install"

\* One after the other.
SeqInv == sequential => \A i, j \in Runs : i # j => ~Active(i) \/ ~Active(j)

\* Nobody was killed, nobody failed, nobody installed for good: then an entry that is not
\* marked has a process that will mark it, and a driver that runs one that will stop it.
Orderly == ~trouble /\ \A i \in Runs :
    pc[i] # "start" => outcome[i] # "failed" /\ pc[i] # "dead" /\ command[i] # "install"
Marker(i) == pc[i] \in {"check", "stop", "poll", "remove", "load", "open"} \cup Opened
Stopper(i) == pc[i] \in {"check", "stop", "open"} \cup Opened
CareInv == Orderly =>
    /\ service # NoService /\ ~service.marked => \E i \in Runs : Marker(i)
    /\ driver = "running" => \E i \in Runs : Stopper(i)

\* One after the other they leave no temporary file either.
FilesInv == sequential /\ Orderly => \A i \in Runs :
    /\ pc[i] = "unlink" => driver = "absent"
    /\ i \in files \ named => /\ command[i] # "uninstall"
                             /\ pc[i] \notin {"start", "exit", "gone"}

\* One after the other, and with kills: what process i finds where it is.
Finds(i) ==
    /\ outcome[i] # "failed"
    /\ Active(i) /\ ~closing[i] => i \in files
    /\ pc[i] \in {"poll", "remove", "create", "load"} => driver = "absent"
    /\ pc[i] \in {"stop", "poll", "remove"} => service # NoService
    /\ pc[i] = "create" => service = NoService
    /\ pc[i] = "load" => service.path = i /\ service # NoService
    /\ pc[i] \in {"open"} \cup Opened => driver = "running"
HealInv == sequential /\ ~trouble =>
    ~service.marked /\ driver # "stopping" /\ \A i \in Runs : Finds(i)

IInv == /\ TypeOK /\ ScmInv /\ HandleInv /\ PhaseInv /\ SeqInv
        /\ CareInv /\ FilesInv /\ HealInv

-----------------------------------------------------------------------------
(* What the service manager and the kernel do.                               *)

Entries == [path : Runs \cup {Nobody}, marked : BOOLEAN]

LEMMA NoServiceFacts ==
    NoService \in Entries /\ NoService.marked = FALSE /\ NoService.path = Nobody
BY DEF NoService, Entries

\* An entry and a driver change; a marked entry goes with its driver.
LEMMA Settles ==
    ASSUME ScmTypeOK, NEW s \in Entries, NEW d \in {"absent", "running", "stopping"}, Settle(s, d)
    PROVE  /\ service' = (IF s.marked /\ d = "absent" THEN NoService ELSE s)
           /\ service' \in Entries
           /\ driver' = d
           /\ image' = (IF d = "absent" THEN Nobody ELSE image)
           /\ image' \in Runs \cup {Nobody}
           /\ ready' = ready /\ mode' = mode
BY NoServiceFacts DEF Settle, ScmTypeOK

\* A handle is closed; the last one lets a stopped driver go.
LEMMA Closes ==
    ASSUME ScmTypeOK, ScmInv, NEW c, CloseHandle(c)
    PROVE  /\ handles' = handles \ {c}
           /\ UNCHANGED <<ready, mode>>
           /\ \/ /\ UNCHANGED <<service, driver, image>>
                 /\ driver = "stopping" => handles' # {}
              \/ /\ driver = "stopping" /\ driver' = "absent" /\ image' = Nobody
                 /\ handles' = {}
                 /\ service' = IF service.marked THEN NoService ELSE service
<1>1. service \in Entries /\ driver \in {"absent", "running", "stopping"}
  BY DEF ScmTypeOK, Entries
<1>2. CASE driver = "stopping" /\ handles \subseteq {c}
  BY <1>1, <1>2, Settles DEF CloseHandle
<1>3. CASE ~(driver = "stopping" /\ handles \subseteq {c})
  BY <1>1, <1>3, Settles DEF CloseHandle, ScmInv
<1> QED BY <1>2, <1>3

\* A driver that runs is asked to stop.
LEMMA Stops ==
    ASSUME ScmTypeOK, AskToStop
    PROVE  /\ UNCHANGED <<ready, mode>>
           /\ \/ /\ handles = {} /\ driver' = "absent" /\ image' = Nobody
                 /\ service' = IF service.marked THEN NoService ELSE service
              \/ handles # {} /\ driver' = "stopping" /\ UNCHANGED <<service, image>>
<1>1. service \in Entries
  BY DEF ScmTypeOK, Entries
<1> QED BY <1>1, Settles DEF AskToStop

\* An entry is marked; without a driver it is gone.
LEMMA Marks ==
    ASSUME ScmTypeOK, ScmInv, MarkDeleted
    PROVE  /\ UNCHANGED <<driver, image, ready, mode>>
           /\ service' \in Entries
           /\ IF driver = "absent" THEN service' = NoService
                                   ELSE service'.marked /\ service'.path = service.path
<1>1. service \in Entries /\ driver \in {"absent", "running", "stopping"}
  BY DEF ScmTypeOK, Entries
<1> DEFINE marked == [service EXCEPT !.marked = TRUE]
<1>2. marked \in Entries /\ marked.marked /\ marked.path = service.path
  BY <1>1 DEF Entries
<1> HIDE DEF marked
<1> QED BY <1>1, <1>2, Settles DEF MarkDeleted, marked, ScmInv

\* A driver is loaded.
LEMMA Loads ==
    ASSUME ScmTypeOK, Startable, LoadDriver
    PROVE  /\ driver = "absent" /\ handles = {} /\ driver' = "running"
           /\ service # NoService /\ ~service.marked
           /\ image' = service.path /\ image' \in files /\ image' \in Runs
           /\ ready' \in BOOLEAN /\ mode' = 0
BY DEF Startable, LoadDriver, ScmTypeOK

-----------------------------------------------------------------------------
(* The types, and what holds whatever the processes do.                      *)

LEMMA InitInv == Init => IInv
<1> SUFFICES ASSUME Init PROVE IInv
  OBVIOUS
<1> USE DEF Init, NothingInstalled
<1>1. TypeOK
  BY NoServiceFacts DEF TypeOK, ScmTypeOK, Entries
<1>2. ScmInv /\ HandleInv /\ PhaseInv /\ SeqInv
  BY NoServiceFacts DEF ScmInv, HandleInv, PhaseInv, SeqInv, Active, Opened
<1>3. CareInv /\ FilesInv /\ HealInv
  BY NoServiceFacts DEF CareInv, FilesInv, HealInv, Finds, Active, Opened
<1> QED BY <1>1, <1>2, <1>3 DEF IInv

LEMMA TypeStep == TypeOK /\ ScmInv /\ [Next]_vars => TypeOK'
<1> SUFFICES ASSUME TypeOK, ScmInv, [Next]_vars PROVE TypeOK'
  OBVIOUS
<1>a. ScmTypeOK
  BY DEF TypeOK
<1>b. service \in Entries
  BY DEF TypeOK, ScmTypeOK, Entries
<1> USE NoServiceFacts DEF TypeOK, ScmTypeOK, Goto, Stay, const, scm
<1>1. ASSUME NEW i \in Runs, WriteDriver(i) PROVE TypeOK'
  BY <1>1 DEF WriteDriver
<1>2. ASSUME NEW i \in Runs, Check(i) PROVE TypeOK'
  BY <1>2 DEF Check, Uninstalled, UninstallFailed, GiveUp, Leave
<1>3. ASSUME NEW i \in Runs, Stop(i) PROVE TypeOK'
  BY <1>3, <1>a, <1>b, Stops DEF Stop, Entries
<1>4. ASSUME NEW i \in Runs, PollStopped(i) \/ PollTimeout(i) PROVE TypeOK'
  BY <1>4 DEF PollStopped, PollTimeout
<1>5. ASSUME NEW i \in Runs, Remove(i) PROVE TypeOK'
  BY <1>5, <1>a, Marks DEF Remove, Uninstalled, UninstallFailed, GiveUp, Leave, Entries
<1>6. ASSUME NEW i \in Runs, Create(i) PROVE TypeOK'
  <2>1. [path |-> i, marked |-> FALSE] \in Entries
    BY DEF Entries
  <2>2. service' \in Entries
    BY <1>6, <1>b, <2>1 DEF Create
  <2> QED BY <1>6, <2>2 DEF Create, GiveUp, Leave, Entries
<1>7. ASSUME NEW i \in Runs, StartService(i) PROVE TypeOK'
  BY <1>7, <1>a, Loads DEF StartService, GiveUp, Leave
<1>8. ASSUME NEW i \in Runs, Open(i) PROVE TypeOK'
  BY <1>8 DEF Open
<1>9. ASSUME NEW i \in Runs, SetMode(i) \/ Image(i) PROVE TypeOK'
  BY <1>9 DEF SetMode, Image
<1>10. ASSUME NEW i \in Runs, Close(i) \/ Exit(i) \/ Kill(i) PROVE TypeOK'
  <2>1. outcome' \in [Runs -> {"none", "ok", "failed"}]
    BY <1>10 DEF Close, Exit, Kill
  <2> QED BY <1>10, <1>a, <1>b, <2>1, Closes DEF Close, Exit, Kill, Entries
<1>11. ASSUME NEW i \in Runs, Unlink(i) PROVE TypeOK'
  BY <1>11 DEF Unlink, DeleteFile
<1>12. CASE Other
  <2>1. CASE OutsiderOpens \/ OutsiderSetsMode
    BY <1>12, <2>1 DEF Other, OutsiderOpens, OutsiderSetsMode, process
  <2>2. CASE OutsiderCloses
    BY <1>12, <2>2, <1>a, <1>b, Closes DEF Other, OutsiderCloses, process, Entries
  <2> QED BY <1>12, <2>1, <2>2 DEF Other
<1>13. CASE UNCHANGED vars
  BY <1>13 DEF vars, process
<1> QED
  BY <1>1, <1>2, <1>3, <1>4, <1>5, <1>6, <1>7, <1>8, <1>9, <1>10, <1>11, <1>12, <1>13
  DEF Next, Step

LEMMA ScmStep == TypeOK /\ ScmInv /\ [Next]_vars => ScmInv'
<1> SUFFICES ASSUME TypeOK, ScmInv, [Next]_vars PROVE ScmInv'
  OBVIOUS
<1>a. ScmTypeOK
  BY DEF TypeOK
<1> USE NoServiceFacts, OthersAssumption DEF ScmTypeOK, const, scm
<1>1. CASE UNCHANGED <<scm, handles>>
  BY <1>1 DEF ScmInv
<1>2. ASSUME NEW i \in Runs, Stop(i), ~UNCHANGED scm PROVE ScmInv'
  BY <1>2, <1>a, Stops DEF Stop, ScmInv
<1>3. ASSUME NEW i \in Runs, Remove(i), ~UNCHANGED scm PROVE ScmInv'
  BY <1>3, <1>a, Marks DEF Remove, ScmInv
<1>4. ASSUME NEW i \in Runs, Create(i) PROVE ScmInv'
  <2>1. CASE service' = service
    BY <1>4, <2>1 DEF Create, ScmInv
  <2>2. CASE service = NoService /\ service' = [path |-> i, marked |-> FALSE]
    <3>1. service'.path = i /\ ~service'.marked /\ driver = "absent"
      BY <2>2 DEF ScmInv
    <3> QED BY <1>4, <3>1 DEF Create, ScmInv
  <2> QED BY <1>4, <2>1, <2>2 DEF Create
<1>5. ASSUME NEW i \in Runs, StartService(i) PROVE ScmInv'
  BY <1>5, <1>a, Loads DEF StartService, ScmInv, OthersAssumption
<1>6. ASSUME NEW i \in Runs, Open(i) PROVE ScmInv'
  BY <1>6 DEF Open, ScmInv
<1>7. ASSUME NEW c, CloseHandle(c) PROVE ScmInv'
  BY <1>7, <1>a, Closes DEF ScmInv
<1>8. ASSUME OutsiderOpens \/ OutsiderSetsMode PROVE ScmInv'
  BY <1>8 DEF OutsiderOpens, OutsiderSetsMode, ScmInv
<1>9. ASSUME NEW i \in Runs, SetMode(i) PROVE ScmInv'
  BY <1>9 DEF SetMode, ScmInv
<1> QED
  BY <1>1, <1>2, <1>3, <1>4, <1>5, <1>6, <1>7, <1>8, <1>9
  DEF Next, Step, Other, WriteDriver, Check, Stop, PollStopped, PollTimeout, Remove, Image, Close,
      Unlink, Exit, Kill, OutsiderCloses, vars

\* A process has the device open between its opening and its closing.
LEMMA HandleStep == TypeOK /\ ScmInv /\ HandleInv /\ [Next]_vars => HandleInv'
<1> SUFFICES ASSUME TypeOK, ScmInv, HandleInv, [Next]_vars PROVE HandleInv'
  OBVIOUS
<1>a. ScmTypeOK
  BY DEF TypeOK
<1> USE DEF HandleInv, Opened, Goto, const
<1>1. ASSUME NEW i \in Runs, Close(i) \/ Exit(i) \/ Kill(i) PROVE HandleInv'
  BY <1>1, <1>a, Closes DEF Close, Exit, Kill, TypeOK
<1>2. ASSUME NEW i \in Runs, Open(i) PROVE HandleInv'
  BY <1>2, OthersAssumption DEF Open, TypeOK, OthersAssumption
<1>3. ASSUME NEW i \in Runs, handles' = handles, trouble' = trouble,
             \A j \in Runs : j # i => pc'[j] = pc[j],
             pc[i] \in Opened => pc'[i] \in Opened
      PROVE HandleInv'
  BY <1>3
<1>4. CASE Other
  <2>1. CASE OutsiderCloses
    BY <1>4, <2>1, <1>a, Closes DEF Other, OutsiderCloses, process
  <2> QED BY <1>4, <2>1, OthersAssumption
          DEF Other, OutsiderOpens, OutsiderSetsMode, process, OthersAssumption
<1>5. CASE UNCHANGED vars
  BY <1>5 DEF vars, process
<1>6. ASSUME NEW i \in Runs, Step(i), ~Close(i), ~Exit(i), ~Open(i) PROVE HandleInv'
  <2>1. handles' = handles /\ trouble' = trouble
    BY <1>6 DEF Step, WriteDriver, Check, Stop, PollStopped, PollTimeout, Remove, Create,
                StartService, SetMode, Image, Unlink
  <2>2. \A j \in Runs : j # i => pc'[j] = pc[j]
    BY <1>6 DEF Step, WriteDriver, Check, Stop, PollStopped, PollTimeout, Remove, Create,
                StartService, SetMode, Image, Unlink, Uninstalled, UninstallFailed, GiveUp, Leave,
                TypeOK
  <2>3. pc[i] \in Opened => pc'[i] \in Opened
    BY <1>6 DEF Step, WriteDriver, Check, Stop, PollStopped, PollTimeout, Remove, Create,
                StartService, SetMode, Image, Unlink, TypeOK
  <2> QED BY <1>3, <2>1, <2>2, <2>3
<1> QED BY <1>1, <1>2, <1>4, <1>5, <1>6 DEF Next, Step

LEMMA PhaseStep == TypeOK /\ PhaseInv /\ [Next]_vars => PhaseInv'
<1> SUFFICES ASSUME TypeOK, PhaseInv, [Next]_vars PROVE PhaseInv'
  OBVIOUS
<1> USE DEF PhaseInv, TypeOK, Opened, Goto, Stay, const
<1>1. ASSUME NEW i \in Runs, WriteDriver(i) PROVE PhaseInv'
  BY <1>1 DEF WriteDriver
<1>2. ASSUME NEW i \in Runs, Check(i) \/ Remove(i) PROVE PhaseInv'
  BY <1>2 DEF Check, Remove, Uninstalled, UninstallFailed, GiveUp, Leave
<1>3. ASSUME NEW i \in Runs, Stop(i) \/ PollStopped(i) \/ PollTimeout(i) PROVE PhaseInv'
  BY <1>3 DEF Stop, PollStopped, PollTimeout
<1>4. ASSUME NEW i \in Runs, Create(i) \/ StartService(i) PROVE PhaseInv'
  BY <1>4 DEF Create, StartService, GiveUp, Leave, Commands
<1>5. ASSUME NEW i \in Runs, Open(i) \/ SetMode(i) \/ Image(i) \/ Close(i) PROVE PhaseInv'
  BY <1>5 DEF Open, SetMode, Image, Close
<1>6. ASSUME NEW i \in Runs, Unlink(i) \/ Exit(i) \/ Kill(i) PROVE PhaseInv'
  BY <1>6 DEF Unlink, Exit, Kill
<1>7. CASE Other \/ UNCHANGED vars
  BY <1>7 DEF Other, vars, process
<1> QED BY <1>1, <1>2, <1>3, <1>4, <1>5, <1>6, <1>7 DEF Next, Step

\* A process moves alone, and begins only when it may.
LEMMA Moves ==
    ASSUME TypeOK, NEW i \in Runs, Step(i) \/ Kill(i)
    PROVE  /\ UNCHANGED const
           /\ pc[i] \notin {"gone", "dead"} /\ pc'[i] # "start"
           /\ \A j \in Runs : j # i => UNCHANGED <<pc[j], closing[j], outcome[j]>>
           /\ pc[i] = "start" /\ sequential => \A j \in Runs : ~Active(j)
<1> USE DEF TypeOK, Goto, Stay, GiveUp, Leave, Uninstalled, UninstallFailed, Active
<1>1. CASE WriteDriver(i)
  BY <1>1 DEF WriteDriver
<1>2. CASE Check(i) \/ Stop(i) \/ PollStopped(i) \/ PollTimeout(i) \/ Remove(i)
  BY <1>2 DEF Check, Stop, PollStopped, PollTimeout, Remove
<1>3. CASE Create(i) \/ StartService(i) \/ Open(i)
  BY <1>3 DEF Create, StartService, Open
<1>4. CASE SetMode(i) \/ Image(i) \/ Close(i)
  BY <1>4 DEF SetMode, Image, Close
<1>5. CASE Unlink(i) \/ Exit(i) \/ Kill(i)
  BY <1>5 DEF Unlink, Exit, Kill
<1> QED BY <1>1, <1>2, <1>3, <1>4, <1>5 DEF Step

\* One after the other means that no two are active.
LEMMA SeqStep == TypeOK /\ SeqInv /\ [Next]_vars => SeqInv'
<1> SUFFICES ASSUME TypeOK, SeqInv, [Next]_vars PROVE SeqInv'
  OBVIOUS
<1>1. ASSUME NEW i \in Runs, Step(i) \/ Kill(i) PROVE SeqInv'
  BY <1>1, Moves DEF SeqInv, Active, const
<1>2. CASE Other \/ UNCHANGED vars
  BY <1>2 DEF Other, vars, process, const, SeqInv, Active
<1> QED BY <1>1, <1>2 DEF Next

\* Order that is lost does not come back.
LEMMA OrderStep == TypeOK /\ PhaseInv /\ [Next]_vars /\ Orderly' => Orderly
<1> SUFFICES ASSUME TypeOK, PhaseInv, [Next]_vars, Orderly' PROVE Orderly
  OBVIOUS
<1>1. ASSUME NEW i \in Runs, Step(i) \/ Kill(i) PROVE Orderly
  <2>1. ASSUME pc[i] # "start"
        PROVE  outcome[i] # "failed" /\ pc[i] # "dead" /\ command[i] # "install"
    <3>1. command' = command /\ pc'[i] # "start" /\ pc[i] # "dead" /\ outcome'[i] # "failed"
      BY <1>1, Moves DEF Orderly, const
    <3>2. outcome[i] # "failed"
      <4>1. CASE outcome'[i] = outcome[i]
        BY <3>1, <4>1
      <4>2. CASE ~closing[i] /\ pc[i] \notin {"close", "unlink", "exit", "gone", "dead"}
        BY <4>2 DEF PhaseInv
      <4>3. CASE closing[i] /\ outcome'[i] # outcome[i]
        BY <1>1, <2>1, <3>1, <4>3
        DEF Step, Kill, Check, Stop, PollStopped, PollTimeout, Remove, Create, StartService, Open,
            SetMode, Image, Close, Unlink, Exit, WriteDriver, Stay, GiveUp, Leave, Uninstalled,
            UninstallFailed, PhaseInv, Opened, TypeOK
      <4>4. CASE Close(i)
        BY <3>1, <4>4 DEF Close, TypeOK
      <4>5. CASE pc[i] \in {"close", "unlink", "exit", "gone", "dead"} /\ ~Close(i)
        BY <1>1, <3>1, <4>5
        DEF Step, Kill, Check, Stop, PollStopped, PollTimeout, Remove, Create, StartService, Open,
            SetMode, Image, Unlink, Exit, WriteDriver, Stay
      <4> QED BY <4>1, <4>2, <4>3, <4>4, <4>5
    <3> QED BY <2>1, <3>1, <3>2 DEF Orderly
  <2> QED BY <1>1, <2>1, Moves DEF Orderly, const
<1>2. CASE Other \/ UNCHANGED vars
  BY <1>2 DEF Other, vars, process, const, Orderly
<1> QED BY <1>1, <1>2 DEF Next

-----------------------------------------------------------------------------
(* Commands that are not disturbed clean up.                                 *)

\* A process that will mark the entry does so before it is past it; so for the driver.
LEMMA CareStep == IInv /\ [Next]_vars => CareInv'
<1> SUFFICES ASSUME IInv, [Next]_vars, Orderly' PROVE CareInv'
  BY DEF CareInv
<1>a. TypeOK /\ ScmTypeOK /\ ScmInv /\ PhaseInv /\ HandleInv /\ Orderly /\ ~trouble /\ ~trouble'
  BY OrderStep DEF IInv, TypeOK, Orderly
<1>b. /\ service # NoService /\ ~service.marked => \E i \in Runs : Marker(i)
      /\ driver = "running" => \E i \in Runs : Stopper(i)
  BY <1>a DEF IInv, CareInv
<1>1. ASSUME NEW i \in Runs, Step(i) \/ Kill(i) PROVE CareInv'
  <2>1. \A j \in Runs : j # i => pc'[j] = pc[j]
    BY <1>1, <1>a, Moves
  <2>2. CASE Marker(i)' /\ Stopper(i)'
    BY <2>2 DEF CareInv
  <2>3. ASSUME UNCHANGED scm, Marker(i) => Marker(i)' \/ service = NoService \/ service.marked,
               Stopper(i) => Stopper(i)' \/ driver # "running"
        PROVE  CareInv'
    BY <2>1, <2>3, <1>b DEF CareInv, Marker, Stopper, scm
  <2>4. CASE Kill(i)
    BY <2>4, <1>a DEF Kill, Goto, Orderly, TypeOK
  <2>5. CASE WriteDriver(i)
    BY <2>2, <2>5, <1>a DEF WriteDriver, Goto, Marker, Stopper, TypeOK
  <2>6. CASE Check(i)
    BY <2>3, <2>6, <1>a
    DEF Check, Goto, Marker, Stopper, TypeOK, Uninstalled, Leave, ScmInv, Opened
  <2>7. CASE Stop(i)
    <3>1. CASE driver # "running"
      BY <2>3, <2>7, <3>1, <1>a DEF Stop, Goto, Marker, Stopper, TypeOK, Opened, ScmInv
    <3>2. CASE driver = "running"
      <4>1. AskToStop /\ pc'[i] = "poll"
        BY <2>7, <3>2, <1>a DEF Stop, Goto, TypeOK, ScmInv
      <4> QED BY <4>1, <1>a, Stops DEF Marker, CareInv
    <3> QED BY <3>1, <3>2
  <2>8. CASE PollStopped(i) \/ PollTimeout(i)
    BY <2>3, <2>8, <1>a DEF PollStopped, PollTimeout, Goto, Marker, Stopper, TypeOK, Opened
  <2>9. CASE Remove(i)
    <3>1. CASE MarkDeleted
      BY <2>1, <2>9, <3>1, <1>a, <1>b, Marks DEF Remove, CareInv, Stopper, Opened
    <3>2. CASE ~MarkDeleted
      BY <2>3, <2>9, <3>2, <1>a DEF Remove, Marker, Stopper, TypeOK, Opened
    <3> QED BY <3>1, <3>2
  <2>10. CASE Create(i)
    BY <2>10, <1>a, NoServiceFacts
    DEF Create, GiveUp, Leave, Goto, Orderly, TypeOK, CareInv, Marker, ScmInv
  <2>11. CASE StartService(i)
    <3>1. pc'[i] = "open"
      BY <2>11, <1>a
      DEF StartService, GiveUp, Leave, Goto, Orderly, TypeOK, Commands, PhaseInv, const
    <3> QED BY <2>2, <3>1 DEF Marker, Stopper
  <2>12. CASE Open(i)
    BY <2>2, <2>12, <1>a DEF Open, Goto, Orderly, TypeOK, Marker, Stopper, Opened
  <2>13. CASE SetMode(i)
    BY <2>2, <2>13, <1>a DEF SetMode, Goto, TypeOK, Marker, Stopper, Opened
  <2>14. CASE Image(i) \/ Close(i)
    BY <2>2, <2>14, <1>a DEF Image, Close, Goto, TypeOK, Marker, Stopper, Opened
  <2>15. CASE Unlink(i)
    BY <2>3, <2>15 DEF Unlink, Marker, Stopper, Opened
  <2>16. CASE Exit(i)
    BY <2>1, <2>16, <1>a, <1>b, Closes, NoServiceFacts DEF Exit, Marker, Stopper, Opened, CareInv
  <2> QED
    BY <1>1, <2>4, <2>5, <2>6, <2>7, <2>8, <2>9, <2>10, <2>11, <2>12, <2>13, <2>14, <2>15, <2>16
    DEF Step
<1>2. CASE Other \/ UNCHANGED vars
  BY <1>2, <1>a, <1>b DEF Other, vars, process, scm, CareInv, Marker, Stopper
<1> QED BY <1>1, <1>2 DEF Next

\* When nobody is left to stop the driver it is gone: a driver that runs has its stopper, one
\* that is stopping somebody's handle.
LEMMA Idle ==
    ASSUME IInv, Orderly, \A i \in Runs : ~Stopper(i)
    PROVE  driver = "absent"
BY DEF IInv, TypeOK, ScmTypeOK, ScmInv, HandleInv, CareInv, Orderly, Stopper, Opened

LEMMA FilesStep == IInv /\ [Next]_vars => FilesInv'
<1> SUFFICES ASSUME IInv, [Next]_vars, sequential', Orderly' PROVE FilesInv'
  BY DEF FilesInv
<1>a. TypeOK /\ ScmTypeOK /\ ScmInv /\ PhaseInv /\ HandleInv /\ Orderly /\ ~trouble
  BY OrderStep DEF IInv, TypeOK, Orderly
<1>1. ASSUME NEW i \in Runs, Step(i) \/ Kill(i) PROVE FilesInv'
  <2>1. /\ sequential
        /\ \A j \in Runs : j # i => pc'[j] = pc[j] /\ ~Active(j)
    BY <1>1, <1>a, Moves DEF const, IInv, SeqInv, Active
  <2>2. \A j \in Runs :
          /\ pc[j] = "unlink" => driver = "absent"
          /\ j \in files \ named => /\ command[j] # "uninstall"
                                   /\ pc[j] \notin {"start", "exit", "gone"}
    BY <1>a, <2>1 DEF IInv, FilesInv
  <2>3. files' \subseteq files \cup {i}
    BY <1>1 DEF Step, Kill, WriteDriver, Check, Stop, PollStopped, PollTimeout, Remove, Create,
                StartService, Open, SetMode, Image, Close, Unlink, DeleteFile, Exit
  <2>4. pc'[i] = "unlink" => driver' = "absent"
    <3> SUFFICES ASSUME pc'[i] = "unlink" PROVE driver' = "absent"
      OBVIOUS
    <3>1. CASE Check(i)
      BY <1>a, <3>1 DEF Check, Goto, Uninstalled, UninstallFailed, Leave, ScmInv, TypeOK, scm
    <3>2. CASE Remove(i)
      <4>1. driver = "absent"
        BY <2>1, <3>2, <1>a, Idle DEF Remove, Stopper, Active, Opened
      <4> QED BY <3>2, <4>1, <1>a, Marks DEF Remove, scm
    <3>3. CASE Create(i) \/ StartService(i)
      BY <3>3, <1>a DEF Create, StartService, GiveUp, Leave, Goto, Orderly, TypeOK
    <3>4. CASE Stop(i) \/ PollStopped(i) \/ PollTimeout(i) \/ WriteDriver(i)
      BY <3>4, <1>a DEF Stop, PollStopped, PollTimeout, WriteDriver, Goto, TypeOK
    <3>5. CASE Open(i) \/ SetMode(i) \/ Image(i) \/ Close(i)
      BY <3>5, <1>a DEF Open, SetMode, Image, Close, Goto, TypeOK
    <3>6. CASE Unlink(i) \/ Exit(i) \/ Kill(i)
      BY <3>6, <1>a DEF Unlink, Exit, Kill, Goto, TypeOK
    <3> QED BY <1>1, <3>1, <3>2, <3>3, <3>4, <3>5, <3>6 DEF Step
  <2>5. i \in files' \ named => pc'[i] \notin {"start", "exit", "gone"}
    <3>1. CASE Unlink(i)
      BY <2>2, <3>1, <1>a, OthersAssumption
      DEF Unlink, DeleteFile, ScmInv, TypeOK, Goto, OthersAssumption
    <3>2. CASE Exit(i)
      BY <2>2, <3>2 DEF Exit
    <3>3. CASE Create(i) \/ StartService(i)
      BY <3>3, <1>a
      DEF Create, StartService, GiveUp, Leave, Goto, Orderly, TypeOK, Commands, PhaseInv, const
    <3>4. CASE Check(i) \/ Remove(i)
      <4>1. /\ files' = files /\ pc[i] \in {"check", "remove"}
            /\ command[i] \in Commands /\ command[i] # "install"
        BY <3>4, <1>a DEF Check, Remove, Orderly, TypeOK
      <4>2. pc'[i] \in {"stop", "create"} \/ Leave(i)
        BY <3>4, <1>a
        DEF Check, Remove, Uninstalled, UninstallFailed, GiveUp, Goto, Orderly, TypeOK
      <4> QED BY <2>2, <4>1, <4>2, <1>a DEF Leave, Goto, Commands, TypeOK
    <3>5. CASE WriteDriver(i) \/ Stop(i) \/ PollStopped(i) \/ PollTimeout(i)
      BY <3>5, <1>a DEF Stop, PollStopped, PollTimeout, WriteDriver, Goto, TypeOK
    <3>6. CASE Open(i) \/ SetMode(i) \/ Image(i) \/ Close(i) \/ Kill(i)
      BY <3>6, <1>a DEF Open, SetMode, Image, Close, Kill, Goto, TypeOK
    <3> QED BY <1>1, <3>1, <3>2, <3>3, <3>4, <3>5, <3>6 DEF Step
  <2>6. i \in files' => command[i] # "uninstall" \/ i \in files
    BY <1>1 DEF Step, Kill, WriteDriver, Check, Stop, PollStopped, PollTimeout, Remove, Create,
                StartService, Open, SetMode, Image, Close, Unlink, DeleteFile, Exit
  <2>7. UNCHANGED <<command, named>>
    BY <1>1, <1>a, Moves DEF const
  <2> QED BY <2>1, <2>2, <2>3, <2>4, <2>5, <2>6, <2>7 DEF FilesInv, Active
<1>2. CASE Other \/ UNCHANGED vars
  BY <1>2, <1>a DEF Other, vars, process, const, scm, IInv, FilesInv
<1> QED BY <1>1, <1>2 DEF Next

-----------------------------------------------------------------------------
(* One after the other they succeed, whatever the last one left.             *)

LEMMA HealStep == IInv /\ [Next]_vars => HealInv'
<1> SUFFICES ASSUME IInv, [Next]_vars, sequential', ~trouble' PROVE HealInv'
  BY DEF HealInv
<1>a. TypeOK /\ ScmTypeOK /\ ScmInv /\ PhaseInv /\ HandleInv /\ ~trouble /\ sequential
  <2>1. UNCHANGED const
    BY Moves DEF IInv, Next, Other, const, vars
  <2> QED BY <2>1 DEF IInv, TypeOK, const
<1>b. ~service.marked /\ driver # "stopping" /\ \A i \in Runs : Finds(i)
  BY <1>a DEF IInv, HealInv
<1>1. ASSUME NEW i \in Runs, Step(i) \/ Kill(i) PROVE HealInv'
  <2>1. \A j \in Runs : j # i => ~Active(j) /\ UNCHANGED <<pc[j], outcome[j], closing[j]>>
    BY <1>1, <1>a, Moves DEF IInv, SeqInv, Active
  <2>2. handles \subseteq {i} /\ (handles # {} => pc[i] \in Opened)
    BY <1>a, <2>1 DEF HandleInv, Active, Opened, TypeOK, ScmTypeOK
  <2>3. SUFFICES ~service'.marked /\ driver' # "stopping" /\ Finds(i)'
    <3>1. \A j \in Runs : j # i => Finds(j)'
      BY <1>b, <2>1 DEF Finds, Active, Opened
    <3> QED BY <2>3, <3>1 DEF HealInv
  <2>4. CASE WriteDriver(i)
    BY <2>4, <1>a, <1>b DEF WriteDriver, Goto, TypeOK, Finds, Active, Opened, scm
  <2>5. CASE Check(i)
    BY <2>5, <1>a, <1>b
    DEF Check, Goto, Stay, Uninstalled, Leave, TypeOK, ScmInv, Finds, Active, Opened, scm
  <2>6. CASE Stop(i)
    BY <2>6, <2>2, <1>a, <1>b, Stops
    DEF Stop, Goto, Stay, TypeOK, ScmInv, ScmTypeOK, Finds, Active, Opened, scm
  <2>7. CASE PollStopped(i) \/ PollTimeout(i)
    BY <2>7, <1>a, <1>b
    DEF PollStopped, PollTimeout, Goto, Stay, TypeOK, Finds, Active, Opened, scm
  <2>8. CASE Remove(i)
    BY <2>8, <1>a, <1>b, Marks, NoServiceFacts
    DEF Remove, Goto, Stay, Uninstalled, Leave, TypeOK, Finds, Active, Opened
  <2>9. CASE Create(i)
    BY <2>9, <1>a, <1>b, NoServiceFacts, OthersAssumption
    DEF Create, Goto, Stay, TypeOK, Finds, Active, Opened, OthersAssumption
  <2>10. CASE StartService(i)
    BY <2>10, <1>a, <1>b, Loads
    DEF StartService, Startable, Goto, Stay, TypeOK, PhaseInv, Finds, Active, Opened
  <2>11. CASE Open(i) \/ SetMode(i) \/ Image(i)
    BY <2>11, <1>a, <1>b
    DEF Open, SetMode, Image, Goto, Stay, TypeOK, Finds, Active, Opened, scm
  <2>12. CASE Close(i) \/ Exit(i) \/ Kill(i)
    BY <2>12, <1>a, <1>b, Closes
    DEF Close, Exit, Kill, Goto, Stay, TypeOK, Finds, Active, Opened, const
  <2>13. CASE Unlink(i)
    BY <2>13, <1>a, <1>b DEF Unlink, Goto, Stay, TypeOK, PhaseInv, Finds, Active, Opened, scm
  <2> QED
    BY <1>1, <2>4, <2>5, <2>6, <2>7, <2>8, <2>9, <2>10, <2>11, <2>12, <2>13 DEF Step
<1>2. CASE Other \/ UNCHANGED vars
  BY <1>2, <1>a DEF Other, vars, process, const, scm, IInv, HealInv, Finds, Active
<1> QED BY <1>1, <1>2 DEF Next

\* The invariant holds in every behaviour of the commands.
THEOREM Invariance == Spec => []IInv
<1>1. IInv /\ [Next]_vars => IInv'
  BY TypeStep, ScmStep, HandleStep, PhaseStep, SeqStep, CareStep, FilesStep, HealStep DEF IInv
<1> QED BY <1>1, InitInv, PTL DEF Spec

-----------------------------------------------------------------------------
\* The types of the service database, the driver and the processes.
THEOREM TypeCorrect == Spec => []TypeOK
<1>1. IInv => TypeOK
  BY DEF IInv
<1> QED BY <1>1, Invariance, PTL

\* Commands that end undisturbed and did not install leave neither service nor driver,
\* however many ran at once; one after the other, they leave no file but those the user named.
THEOREM CommandsCleanUp == Spec => []CleanExit
<1>1. IInv => CleanExit
  <2> SUFFICES ASSUME IInv, ~trouble,
                      \A i \in Runs : \/ pc[i] = "start"
                                       \/ /\ pc[i] = "gone" /\ outcome[i] = "ok"
                                          /\ command[i] # "install"
               PROVE  /\ service = NoService /\ driver = "absent"
                      /\ sequential => files \subseteq named
    BY DEF CleanExit
  <2>1. Orderly /\ \A i \in Runs : ~Stopper(i) /\ ~Marker(i)
    BY DEF Orderly, Stopper, Marker, Opened
  <2>2. driver = "absent"
    BY <2>1, Idle
  <2>3. service = NoService
    BY <2>1, <2>2 DEF IInv, ScmInv, CareInv
  <2>4. sequential => files \subseteq named
    BY <2>1 DEF IInv, FilesInv, TypeOK, ScmTypeOK
  <2> QED BY <2>2, <2>3, <2>4
<1> QED BY <1>1, Invariance, PTL

\* One after the other commands do not fail, at whatever point earlier ones were killed.
THEOREM NextCommandHeals == Spec => []KillsHeal
<1>1. IInv => KillsHeal
  BY DEF IInv, HealInv, Finds, KillsHeal
<1> QED BY <1>1, Invariance, PTL

-----------------------------------------------------------------------------
(* The mode an image is read in.                                             *)

\* Whoever images without the tool's PTE mode found the method unusable or another program's
\* mode: not that of another command, however many run at once.
OwnMode == ~trouble => \A i \in Runs : pc[i] = "image" /\ ready => mode = PTE

\* A process that has the device open keeps the driver, and so the mode, from being replaced.
ModeInv ==
    /\ \A i \in Runs : pc[i] \in Opened => i \in handles
    /\ ~trouble => mode \in {0, PTE}
    /\ OwnMode

LEMMA ModeStep == IInv /\ ModeInv /\ [Next]_vars => ModeInv'
<1> SUFFICES ASSUME IInv, ModeInv, [Next]_vars PROVE ModeInv'
  OBVIOUS
<1>a. TypeOK /\ ScmTypeOK /\ ScmInv
  BY DEF IInv, TypeOK
<1> USE DEF ModeInv, OwnMode, Opened
<1>1. ASSUME NEW i \in Runs, Step(i) \/ Kill(i) PROVE ModeInv'
  <2>1. (trouble' <=> trouble) /\ \A j \in Runs : j # i => pc'[j] = pc[j]
    BY <1>1, <1>a, Moves DEF const
  <2>2. CASE Open(i)
    BY <2>1, <2>2, <1>a DEF Open, Goto, TypeOK, scm
  <2>3. CASE SetMode(i)
    BY <2>1, <2>3, <1>a DEF SetMode, Goto, TypeOK
  <2>4. CASE Image(i)
    BY <2>1, <2>4, <1>a DEF Image, Goto, TypeOK, scm
  <2>5. CASE Close(i) \/ Exit(i) \/ Kill(i)
    BY <2>1, <2>5, <1>a, Closes DEF Close, Exit, Kill, Goto, TypeOK
  <2>6. CASE StartService(i)
    <3>1. CASE LoadDriver /\ Startable
      BY <2>1, <2>6, <3>1, <1>a, Loads DEF StartService, Goto, TypeOK
    <3> QED BY <2>1, <2>6, <3>1, <1>a DEF StartService, GiveUp, Leave, Goto, TypeOK
  <2>7. ASSUME handles' = handles, UNCHANGED <<ready, mode>>, pc'[i] \notin Opened PROVE ModeInv'
    BY <2>1, <2>7
  <2>8. CASE WriteDriver(i) \/ Check(i) \/ PollStopped(i) \/ PollTimeout(i)
    BY <2>7, <2>8, <1>a
    DEF WriteDriver, Check, PollStopped, PollTimeout, Uninstalled, UninstallFailed, GiveUp,
        Leave, Goto, TypeOK, scm
  <2>9. CASE Stop(i)
    BY <2>7, <2>9, <1>a, Stops DEF Stop, Goto, TypeOK, scm
  <2>10. CASE Remove(i)
    BY <2>7, <2>10, <1>a, Marks
    DEF Remove, Uninstalled, UninstallFailed, GiveUp, Leave, Goto, TypeOK, scm
  <2>11. CASE Create(i) \/ Unlink(i)
    BY <2>7, <2>11, <1>a DEF Create, Unlink, GiveUp, Leave, Goto, TypeOK, scm
  <2> QED BY <1>1, <2>2, <2>3, <2>4, <2>5, <2>6, <2>8, <2>9, <2>10, <2>11 DEF Step
<1>2. CASE Other
  BY <1>2, <1>a, Closes, OthersAssumption
  DEF Other, OutsiderOpens, OutsiderSetsMode, OutsiderCloses, process, const, scm, OthersAssumption
<1>3. CASE UNCHANGED vars
  BY <1>3 DEF vars, process, scm
<1> QED BY <1>1, <1>2, <1>3 DEF Next

\* Without another program at the device, a command images through the PTE mode whenever the
\* driver offers it, although SetMode's error is dropped and other commands share the driver:
\* what the run session_mode finds needs a driver that does not, or that program.
THEOREM ModeIsOwn == Spec => []OwnMode
<1>1. Init => ModeInv
  BY DEF Init, NothingInstalled, ModeInv, OwnMode, Opened
<1>2. ModeInv => OwnMode
  BY DEF ModeInv
<1> QED BY <1>1, <1>2, ModeStep, Invariance, PTL DEF Spec
=============================================================================

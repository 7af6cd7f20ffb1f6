--------------------------- MODULE CppSessionProofs --------------------------
(***************************************************************************)
(* Theorems about the runs of the C++ tool, for any number of runs, each   *)
(* of which may be killed anywhere: they clean up although they stop the   *)
(* driver under their own handle, heal what earlier ones left, and say of  *)
(* an image only what is true.                                             *)
(***************************************************************************)
EXTENDS CppSession, TLAPS

-----------------------------------------------------------------------------
(* The inductive invariant.                                                  *)

\* i has begun and not ended.
Active(i) == pc[i] \notin {"start", "gone", "dead"}

\* The command lines.
LineInv ==
    /\ command \in [Runs -> Commands]
    /\ asked \in [Runs -> {PHYSICAL, PTE}]
    /\ trouble \in BOOLEAN

\* The driver and the service's entry: a loaded driver has an entry, a marked entry has a
\* loaded driver, a stopped one waits for somebody's handle.
ScmInv ==
    /\ driver = "absent" <=> image = Nobody
    /\ driver # "absent" => service # NoService
    /\ service.marked => driver # "absent"
    /\ driver = "stopping" => handles # {}
    /\ service # NoService => service.path \in Runs

\* Who has the device open.
HandleInv ==
    /\ \A i \in Runs : i \in handles =>
          pc[i] \in {"cleanup", "mode", "image", "stop", "delete", "exit"}
    /\ ~trouble => Outsider \notin handles

\* The runs come one after the other.
SeqInv == \A i, j \in Runs : i # j => ~Active(i) \/ ~Active(j)

\* Where a run that images has the handle and the mode it asked for, and what the status 1
\* says of it once it is past that.
Told(i) ==
    /\ pc[i] = "image" => i \in handles /\ mode = asked[i]
    /\ pc[i] \in {"stop", "delete", "exit", "gone"} /\ status[i] = 1 => imaged[i] /\ output[i]
ToldInv == \A i \in Runs : command[i] = "image" => Told(i)

\* The commands, by where they are.
PathInv == \A i \in Runs :
    /\ pc[i] \in {"restop", "redelete", "create", "load", "open", "cleanup", "mode"} =>
          command[i] \in {"image", "load"}
    /\ pc[i] = "extract" => command[i] # "unload"
    /\ pc[i] = "image" => command[i] = "image"
    /\ pc[i] \in {"stop", "delete"} => command[i] \in {"image", "unload"}

\* What a run finds where it is, while nothing goes wrong but kills: between runs the driver
\* is not stopping and the entry not marked.
Still == ~service.marked /\ driver # "stopping"
Finds(i) ==
    /\ pc[i] \notin {"delete", "exit"} => Still
    /\ pc[i] \in {"restop", "redelete", "create", "load"} => i \in files
    /\ pc[i] \in {"redelete", "create", "load"} => driver = "absent"
    /\ pc[i] = "create" => service = NoService
    /\ pc[i] = "load" => service.path = i /\ service # NoService
    /\ pc[i] \in {"open", "cleanup", "mode", "image"} => driver = "running"
    /\ pc[i] \in {"open", "cleanup", "mode"} => mode = 0
    /\ pc[i] \in {"cleanup", "mode"} => i \in handles /\ status[i] = 1
    /\ pc[i] = "delete" => ~service.marked /\ driver # "running"
    /\ pc[i] = "exit" => ~service.marked \/ driver = "stopping"
\* A run that images has its file, and success once it has the mode.
Served(i) ==
    /\ pc[i] # "start" => output[i]
    /\ asked[i] = PHYSICAL /\ pc[i] \in {"image", "stop", "delete", "exit", "gone"} => status[i] = 1
HealInv == ~trouble =>
    /\ (\A i \in Runs : ~Active(i)) => Still
    /\ \A i \in Runs : Active(i) => Finds(i)
    /\ \A i \in Runs : command[i] = "image" => Served(i)

\* Without kills and -l, runs find and leave the machine clean.
Clean == service = NoService /\ driver = "absent"
Orderly == ~trouble /\ \A i \in Runs : pc[i] # "start" => pc[i] # "dead" /\ command[i] # "load"
CleanInv == Orderly =>
    /\ (\A i \in Runs : ~Active(i)) => Clean
    /\ \A i \in Runs :
          /\ pc[i] \in {"extract", "restop", "redelete", "create"} => Clean
          /\ pc[i] = "stop" /\ command[i] = "unload" => Clean
          /\ pc[i] = "exit" => Clean \/ (driver = "stopping" /\ service.marked)

IInv == /\ TypeOK /\ LineInv /\ ScmInv /\ HandleInv /\ SeqInv /\ ToldInv
        /\ PathInv /\ HealInv /\ CleanInv

-----------------------------------------------------------------------------
(* What the service manager and the kernel do.                               *)

Entries == [path : Runs \cup {Nobody}, marked : BOOLEAN]

LEMMA NoServiceFacts ==
    NoService \in Entries /\ NoService.marked = FALSE /\ NoService.path = Nobody
BY DEF NoService, Entries

\* An entry and a driver change; a marked entry goes with its driver.
LEMMA Settles ==
    ASSUME ScmTypeOK, NEW s \in Entries, NEW d \in {"absent", "running", "stopping"}, Settle(s, d)
    PROVE  /\ service' = (IF s.marked /\ d = "absent" THEN NoService ELSE s)
           /\ service' \in Entries
           /\ driver' = d
           /\ image' = (IF d = "absent" THEN Nobody ELSE image)
           /\ image' \in Runs \cup {Nobody}
           /\ ready' = ready /\ mode' = mode
BY NoServiceFacts DEF Settle, ScmTypeOK

\* A handle is closed; the last one lets a stopped driver go.
LEMMA Closes ==
    ASSUME ScmTypeOK, ScmInv, NEW c, CloseHandle(c)
    PROVE  /\ handles' = handles \ {c}
           /\ UNCHANGED <<ready, mode>>
           /\ \/ /\ UNCHANGED <<service, driver, image>>
                 /\ driver = "stopping" => handles' # {}
              \/ /\ driver = "stopping" /\ driver' = "absent" /\ image' = Nobody
                 /\ handles' = {}
                 /\ service' = IF service.marked THEN NoService ELSE service
<1>1. service \in Entries /\ driver \in {"absent", "running", "stopping"}
  BY DEF ScmTypeOK, Entries
<1>2. CASE driver = "stopping" /\ handles \subseteq {c}
  BY <1>1, <1>2, Settles DEF CloseHandle
<1>3. CASE ~(driver = "stopping" /\ handles \subseteq {c})
  BY <1>1, <1>3, Settles DEF CloseHandle, ScmInv
<1> QED BY <1>2, <1>3

\* A driver that runs is asked to stop.
LEMMA Stops ==
    ASSUME ScmTypeOK, AskToStop
    PROVE  /\ UNCHANGED <<ready, mode>>
           /\ \/ /\ handles = {} /\ driver' = "absent" /\ image' = Nobody
                 /\ service' = IF service.marked THEN NoService ELSE service
              \/ handles # {} /\ driver' = "stopping" /\ UNCHANGED <<service, image>>
<1>1. service \in Entries
  BY DEF ScmTypeOK, Entries
<1> QED BY <1>1, Settles DEF AskToStop

\* An entry is marked; without a driver it is gone.
LEMMA Marks ==
    ASSUME ScmTypeOK, ScmInv, MarkDeleted
    PROVE  /\ UNCHANGED <<driver, image, ready, mode>>
           /\ service' \in Entries
           /\ IF driver = "absent" THEN service' = NoService
                                   ELSE service'.marked /\ service'.path = service.path
<1>1. service \in Entries /\ driver \in {"absent", "running", "stopping"}
  BY DEF ScmTypeOK, Entries
<1> DEFINE marked == [service EXCEPT !.marked = TRUE]
<1>2. marked \in Entries /\ marked.marked /\ marked.path = service.path
  BY <1>1 DEF Entries
<1> HIDE DEF marked
<1> QED BY <1>1, <1>2, Settles DEF MarkDeleted, marked, ScmInv

\* A driver is loaded.
LEMMA Loads ==
    ASSUME ScmTypeOK, Startable, LoadDriver
    PROVE  /\ driver = "absent" /\ handles = {} /\ driver' = "running"
           /\ service # NoService /\ ~service.marked
           /\ image' = service.path /\ image' \in files /\ image' \in Runs
           /\ ready' \in BOOLEAN /\ mode' = 0
BY DEF Startable, LoadDriver, ScmTypeOK

-----------------------------------------------------------------------------
(* What holds whatever the runs do.                                          *)

LEMMA InitInv == Init => IInv
<1> SUFFICES ASSUME Init PROVE IInv
  OBVIOUS
<1> USE NoServiceFacts DEF Init, NothingInstalled
<1>1. TypeOK /\ LineInv
  BY DEF TypeOK, LineInv, ScmTypeOK, Entries
<1>2. ScmInv /\ HandleInv /\ SeqInv /\ ToldInv /\ PathInv
  BY DEF ScmInv, HandleInv, SeqInv, ToldInv, Told, PathInv, Active
<1>3. HealInv /\ CleanInv
  BY DEF HealInv, CleanInv, Still, Served, Clean, Active
<1> QED BY <1>1, <1>2, <1>3 DEF IInv

LEMMA TypeStep == TypeOK /\ LineInv /\ ScmInv /\ [Next]_vars => TypeOK' /\ LineInv'
<1> SUFFICES ASSUME TypeOK, LineInv, ScmInv, [Next]_vars PROVE TypeOK' /\ LineInv'
  OBVIOUS
<1>a. ScmTypeOK /\ service \in Entries
  BY DEF TypeOK, ScmTypeOK, Entries
<1> USE NoServiceFacts DEF TypeOK, LineInv, ScmTypeOK, Goto, Result, World, const, scm, local
<1>1. ASSUME NEW i \in Runs, Start(i) \/ Extract(i) PROVE TypeOK' /\ LineInv'
  BY <1>1 DEF Start, Extract
<1>2. ASSUME NEW i \in Runs, Stop(i) PROVE TypeOK' /\ LineInv'
  BY <1>2, <1>a, Stops DEF Stop, Entries
<1>3. ASSUME NEW i \in Runs, Delete(i) PROVE TypeOK' /\ LineInv'
  BY <1>3, <1>a, Marks DEF Delete, Entries
<1>4. ASSUME NEW i \in Runs, Create(i) PROVE TypeOK' /\ LineInv'
  <2>1. [path |-> i, marked |-> FALSE] \in Entries
    BY DEF Entries
  <2>2. service' \in Entries
    BY <1>4, <1>a, <2>1 DEF Create
  <2> QED BY <1>4, <2>2 DEF Create, Entries
<1>5. ASSUME NEW i \in Runs, Load(i) PROVE TypeOK' /\ LineInv'
  BY <1>5, <1>a, Loads DEF Load
<1>6. ASSUME NEW i \in Runs, Open(i) PROVE TypeOK' /\ LineInv'
  BY <1>6 DEF Open
<1>7. ASSUME NEW i \in Runs, Cleanup(i) PROVE TypeOK' /\ LineInv'
  BY <1>7 DEF Cleanup, DeleteFile
<1>8. ASSUME NEW i \in Runs, SetMode(i) \/ Image(i) PROVE TypeOK' /\ LineInv'
  BY <1>8 DEF SetMode, Image
<1>9. ASSUME NEW i \in Runs, Exit(i) \/ Kill(i) PROVE TypeOK' /\ LineInv'
  BY <1>9, <1>a, Closes DEF Exit, Kill, Entries
<1>10. CASE Other
  <2>1. CASE OutsiderOpens \/ OutsiderSetsMode
    BY <1>10, <2>1 DEF Other, OutsiderOpens, OutsiderSetsMode
  <2>2. CASE OutsiderCloses
    BY <1>10, <2>2, <1>a, Closes DEF Other, OutsiderCloses, Entries
  <2> QED BY <1>10, <2>1, <2>2 DEF Other
<1>11. CASE UNCHANGED vars
  BY <1>11 DEF vars
<1> QED
  BY <1>1, <1>2, <1>3, <1>4, <1>5, <1>6, <1>7, <1>8, <1>9, <1>10, <1>11 DEF Next, Step

LEMMA ScmStep == TypeOK /\ ScmInv /\ [Next]_vars => ScmInv'
<1> SUFFICES ASSUME TypeOK, ScmInv, [Next]_vars PROVE ScmInv'
  OBVIOUS
<1>a. ScmTypeOK
  BY DEF TypeOK
<1> USE NoServiceFacts, OthersAssumption DEF ScmTypeOK, const, scm, World
<1>1. CASE UNCHANGED <<scm, handles>>
  BY <1>1 DEF ScmInv
<1>2. ASSUME NEW i \in Runs, Stop(i), ~UNCHANGED scm PROVE ScmInv'
  BY <1>2, <1>a, Stops DEF Stop, ScmInv
<1>3. ASSUME NEW i \in Runs, Delete(i), ~UNCHANGED scm PROVE ScmInv'
  BY <1>3, <1>a, Marks DEF Delete, ScmInv
<1>4. ASSUME NEW i \in Runs, Create(i) PROVE ScmInv'
  <2>1. CASE service' = service
    BY <1>4, <2>1 DEF Create, ScmInv
  <2>2. CASE service = NoService /\ service' = [path |-> i, marked |-> FALSE]
    <3>1. service'.path = i /\ ~service'.marked /\ driver = "absent"
      BY <2>2 DEF ScmInv
    <3> QED BY <1>4, <3>1 DEF Create, ScmInv
  <2> QED BY <1>4, <2>1, <2>2 DEF Create
<1>5. ASSUME NEW i \in Runs, Load(i) PROVE ScmInv'
  BY <1>5, <1>a, Loads DEF Load, ScmInv, OthersAssumption
<1>6. ASSUME NEW i \in Runs, Open(i) PROVE ScmInv'
  BY <1>6 DEF Open, ScmInv
<1>7. ASSUME NEW c, CloseHandle(c) PROVE ScmInv'
  BY <1>7, <1>a, Closes DEF ScmInv
<1>8. ASSUME OutsiderOpens \/ OutsiderSetsMode PROVE ScmInv'
  BY <1>8 DEF OutsiderOpens, OutsiderSetsMode, ScmInv
<1>9. ASSUME NEW i \in Runs, SetMode(i) PROVE ScmInv'
  BY <1>9 DEF SetMode, ScmInv
<1> QED
  BY <1>1, <1>2, <1>3, <1>4, <1>5, <1>6, <1>7, <1>8, <1>9
  DEF Next, Step, Other, Start, Extract, Stop, Delete, Cleanup, Image, Exit, Kill,
      OutsiderCloses, vars

\* A run moves alone, and begins only when no other is active.
LEMMA Moves ==
    ASSUME TypeOK, NEW i \in Runs, Step(i) \/ Kill(i)
    PROVE  /\ UNCHANGED const
           /\ pc[i] \notin {"gone", "dead"} /\ pc'[i] # "start"
           /\ \A j \in Runs : j # i => UNCHANGED <<pc[j], output[j], status[j], imaged[j]>>
           /\ pc[i] = "start" => \A j \in Runs : ~Active(j)
<1> USE DEF TypeOK, Goto, Result, Active, local
<1>1. CASE Start(i) \/ Extract(i) \/ Stop(i) \/ Delete(i)
  BY <1>1 DEF Start, Extract, Stop, Delete
<1>2. CASE Create(i) \/ Load(i) \/ Open(i) \/ Cleanup(i)
  BY <1>2 DEF Create, Load, Open, Cleanup
<1>3. CASE SetMode(i) \/ Image(i) \/ Exit(i) \/ Kill(i)
  BY <1>3 DEF SetMode, Image, Exit, Kill
<1> QED BY <1>1, <1>2, <1>3 DEF Step

LEMMA SeqStep == TypeOK /\ SeqInv /\ [Next]_vars => SeqInv'
<1> SUFFICES ASSUME TypeOK, SeqInv, [Next]_vars PROVE SeqInv'
  OBVIOUS
<1>1. ASSUME NEW i \in Runs, Step(i) \/ Kill(i) PROVE SeqInv'
  BY <1>1, Moves DEF SeqInv, Active
<1>2. CASE Other \/ UNCHANGED vars
  BY <1>2 DEF Other, vars, SeqInv, Active
<1> QED BY <1>1, <1>2 DEF Next

\* A run has the device open between its opening and its end.
LEMMA HandleStep == TypeOK /\ ScmInv /\ HandleInv /\ [Next]_vars => HandleInv'
<1> SUFFICES ASSUME TypeOK, ScmInv, HandleInv, [Next]_vars PROVE HandleInv'
  OBVIOUS
<1>a. ScmTypeOK
  BY DEF TypeOK
<1> USE OthersAssumption DEF HandleInv, Goto, const, OthersAssumption
<1>1. ASSUME NEW i \in Runs, Exit(i) \/ Kill(i) PROVE HandleInv'
  BY <1>1, <1>a, Closes DEF Exit, Kill, TypeOK
<1>2. ASSUME NEW i \in Runs, Open(i) PROVE HandleInv'
  BY <1>2 DEF Open, TypeOK
<1>3. ASSUME NEW i \in Runs, Step(i), ~Exit(i), ~Open(i) PROVE HandleInv'
  <2> DEFINE Behind == {"cleanup", "mode", "image", "stop", "delete", "exit"}
  <2>1. handles' = handles /\ trouble' = trouble
    BY <1>3 DEF Step, Start, Extract, Stop, Delete, Create, Load, Cleanup, SetMode, Image, World
  <2>2. \A j \in Runs : j # i => pc'[j] = pc[j]
    BY <1>3, Moves
  <2>3. pc[i] \in Behind => pc'[i] \in Behind
    BY <1>3 DEF Step, Start, Extract, Stop, Delete, Create, Load, Cleanup, SetMode, Image, TypeOK
  <2> QED BY <2>1, <2>2, <2>3
<1>4. CASE Other
  <2>1. CASE OutsiderCloses
    BY <1>4, <2>1, <1>a, Closes DEF Other, OutsiderCloses
  <2> QED BY <1>4, <2>1 DEF Other, OutsiderOpens, OutsiderSetsMode
<1>5. CASE UNCHANGED vars
  BY <1>5 DEF vars
<1> QED BY <1>1, <1>2, <1>3, <1>4, <1>5 DEF Next, Step

LEMMA PathStep == TypeOK /\ LineInv /\ PathInv /\ [Next]_vars => PathInv'
<1> SUFFICES ASSUME TypeOK, LineInv, PathInv, [Next]_vars PROVE PathInv'
  OBVIOUS
<1>1. ASSUME NEW i \in Runs, Step(i) \/ Kill(i) PROVE PathInv'
  <2>1. UNCHANGED const /\ \A j \in Runs : j # i => pc'[j] = pc[j]
    BY <1>1, Moves
  <2> USE <2>1 DEF PathInv, LineInv, TypeOK, Commands, Goto, const
  <2>2. CASE Start(i) \/ Extract(i)
    BY <2>2 DEF Start, Extract
  <2>3. CASE Stop(i) \/ Delete(i)
    BY <2>3 DEF Stop, Delete
  <2>4. CASE Create(i) \/ Load(i) \/ Open(i)
    BY <2>4 DEF Create, Load, Open
  <2>5. CASE Cleanup(i) \/ SetMode(i) \/ Image(i)
    BY <2>5 DEF Cleanup, SetMode, Image
  <2>6. CASE Exit(i) \/ Kill(i)
    BY <2>6 DEF Exit, Kill
  <2> QED BY <1>1, <2>2, <2>3, <2>4, <2>5, <2>6 DEF Step
<1>2. CASE Other \/ UNCHANGED vars
  BY <1>2 DEF Other, vars, const, PathInv
<1> QED BY <1>1, <1>2 DEF Next

-----------------------------------------------------------------------------
(* What the status says.                                                     *)

\* The status 1 of a run that images is set by a written image only, or before.
LEMMA ToldStep == IInv /\ [Next]_vars => ToldInv'
<1> SUFFICES ASSUME IInv, [Next]_vars PROVE ToldInv'
  OBVIOUS
<1>a. TypeOK /\ ScmTypeOK /\ ScmInv /\ LineInv /\ HandleInv /\ PathInv
  BY DEF IInv, TypeOK
<1>b. \A i \in Runs : command[i] = "image" => Told(i)
  BY DEF IInv, ToldInv
<1>1. ASSUME NEW i \in Runs, Step(i) \/ Kill(i) PROVE ToldInv'
  <2>1. /\ UNCHANGED const
        /\ \A j \in Runs : j # i =>
              ~Active(j) /\ UNCHANGED <<pc[j], output[j], status[j], imaged[j]>>
    BY <1>1, <1>a, Moves DEF IInv, SeqInv, Active
  <2>2. SUFFICES ASSUME command[i] = "image" PROVE Told(i)'
    BY <1>b, <2>1, <2>2 DEF ToldInv, Told, Active, const
  <2>3. Told(i)
    BY <1>b, <2>2
  <2> USE <1>a, <2>1, <2>2, <2>3 DEF Told, TypeOK, LineInv, Goto, Result, const
  <2>4. CASE Start(i) \/ Extract(i)
    BY <2>4 DEF Start, Extract, PathInv
  <2>5. CASE Stop(i) \/ Delete(i)
    BY <2>5 DEF Stop, Delete, PathInv, local
  <2>6. CASE Create(i) \/ Load(i) \/ Open(i)
    BY <2>6 DEF Create, Load, Open
  <2>7. CASE Cleanup(i)
    BY <2>7 DEF Cleanup, local
  <2>8. CASE SetMode(i)
    BY <2>8 DEF SetMode, Accepted
  <2>9. CASE Image(i)
    BY <2>9 DEF Image
  <2>10. CASE Exit(i) \/ Kill(i)
    BY <2>10 DEF Exit, Kill, local
  <2> QED BY <1>1, <2>4, <2>5, <2>6, <2>7, <2>8, <2>9, <2>10 DEF Step
<1>2. CASE Other
  <2>1. ASSUME NEW i \in Runs, command[i] = "image", pc[i] = "image"
        PROVE  mode' = mode /\ (i \in handles => i \in handles')
    <3>1. mode # 0
      BY <1>a, <1>b, <2>1 DEF Told, LineInv, PHYSICAL, PTE
    <3> QED BY <1>2, <1>a, <3>1, Closes, OthersAssumption
            DEF Other, OutsiderOpens, OutsiderSetsMode, OutsiderCloses, OthersAssumption, scm
  <2> QED BY <1>2, <1>b, <2>1 DEF Other, ToldInv, Told, const, local
<1>3. CASE UNCHANGED vars
  BY <1>b, <1>3 DEF vars, scm, const, local, ToldInv, Told
<1> QED BY <1>1, <1>2, <1>3 DEF Next

-----------------------------------------------------------------------------
(* Whatever the last run left, the next one succeeds.                        *)

LEMMA HealStep == IInv /\ [Next]_vars => HealInv'
<1> SUFFICES ASSUME IInv, [Next]_vars, ~trouble' PROVE HealInv'
  BY DEF HealInv
<1>a. TypeOK /\ ScmTypeOK /\ ScmInv /\ LineInv /\ HandleInv /\ PathInv /\ ~trouble
  <2>1. trouble' = trouble
    BY Moves DEF IInv, Next, Other, const, vars
  <2> QED BY <2>1 DEF IInv, TypeOK
<1>b. /\ (\A i \in Runs : ~Active(i)) => Still
      /\ \A i \in Runs : Active(i) => Finds(i)
      /\ \A i \in Runs : command[i] = "image" => Served(i)
  BY <1>a DEF IInv, HealInv
<1>1. ASSUME NEW i \in Runs, Step(i) \/ Kill(i) PROVE HealInv'
  <2>1. /\ UNCHANGED const
        /\ \A j \in Runs : j # i =>
              ~Active(j) /\ UNCHANGED <<pc[j], output[j], status[j], imaged[j]>>
    BY <1>1, <1>a, Moves DEF IInv, SeqInv, Active
  <2>2. handles \subseteq {i} /\ (handles # {} => Active(i))
    BY <1>a, <2>1 DEF HandleInv, Active, TypeOK, ScmTypeOK
  <2>3. (Active(i) => Finds(i)) /\ (pc[i] = "start" => Still)
    BY <1>1, <1>a, <1>b, <2>1, Moves DEF Active
  <2>4. SUFFICES /\ IF Active(i)' THEN Finds(i)' ELSE Still'
                 /\ command[i] = "image" => Served(i)'
    <3>1. \A j \in Runs : command[j] = "image" => Served(j)'
      BY <1>b, <2>1, <2>4 DEF Served, const
    <3>2. \A j \in Runs : Active(j)' => Finds(j)'
      BY <2>1, <2>4 DEF Active
    <3> QED BY <2>1, <2>4, <3>1, <3>2 DEF HealInv, const
  <2>5. command[i] = "image" => Served(i)
    BY <1>b
  <2> USE <1>a, <2>1, <2>3, <2>5
      DEF Active, Still, Finds, Served, TypeOK, LineInv, PathInv, Goto, Result, const
  <2>6. CASE Start(i)
    BY <2>6 DEF Start, World, scm
  <2>7. CASE Extract(i)
    BY <2>7 DEF Extract, scm
  <2>8. CASE Stop(i)
    <3>1. /\ UNCHANGED <<files, status, output>>
          /\ IF pc[i] = "restop" THEN pc'[i] = "redelete" ELSE pc[i] = "stop" /\ pc'[i] = "delete"
      BY <2>8 DEF Stop, local
    <3>2. CASE driver = "running"
      <4>1. AskToStop
        BY <2>8, <3>2 DEF Stop, ScmInv
      <4>2. ~service'.marked /\ driver' # "running" /\ (handles = {} => driver' = "absent")
        <5>1. ~service.marked
          BY <3>1
        <5> QED BY <4>1, <5>1, Stops
      <4>3. pc[i] = "restop" => handles = {}
        BY <2>2 DEF HandleInv
      <4> QED BY <3>1, <4>2, <4>3
    <3>3. CASE driver = "absent"
      BY <2>8, <3>1, <3>3 DEF Stop, scm
    <3> QED BY <3>1, <3>2, <3>3 DEF ScmTypeOK
  <2>9. CASE Delete(i)
    BY <2>9, <2>2, Marks, NoServiceFacts DEF Delete, ScmInv, ScmTypeOK, scm
  <2>10. CASE Create(i)
    <3>1. [path |-> i, marked |-> FALSE] # NoService
      BY OthersAssumption DEF NoService, OthersAssumption
    <3> QED BY <2>10, <3>1, NoServiceFacts DEF Create
  <2>11. CASE Load(i)
    BY <2>11, Loads DEF Load, Startable
  <2>12. CASE Open(i)
    BY <2>12 DEF Open, scm
  <2>13. CASE Cleanup(i)
    BY <2>13 DEF Cleanup, scm, local
  <2>14. CASE SetMode(i)
    BY <2>14 DEF SetMode, Accepted, PHYSICAL, PTE
  <2>15. CASE Image(i)
    BY <2>15 DEF Image, World, scm
  <2>16. CASE Exit(i) \/ Kill(i)
    BY <2>16, <2>2, Closes, NoServiceFacts DEF Exit, Kill, ScmInv, ScmTypeOK, local
  <2> QED
    BY <1>1, <2>6, <2>7, <2>8, <2>9, <2>10, <2>11, <2>12, <2>13, <2>14, <2>15, <2>16 DEF Step
<1>2. CASE Other \/ UNCHANGED vars
  BY <1>2, <1>a, <1>b
  DEF Other, vars, const, scm, local, HealInv, Still, Finds, Served, Active
<1> QED BY <1>1, <1>2 DEF Next

-----------------------------------------------------------------------------
(* Runs that are not disturbed clean up.                                     *)

LEMMA CleanStep == IInv /\ [Next]_vars => CleanInv'
<1> SUFFICES ASSUME IInv, [Next]_vars, Orderly' PROVE CleanInv'
  BY DEF CleanInv
<1>a. TypeOK /\ ScmTypeOK /\ ScmInv /\ LineInv /\ HandleInv /\ PathInv
  BY DEF IInv, TypeOK
<1>1. ASSUME NEW i \in Runs, Step(i) \/ Kill(i) PROVE CleanInv'
  <2>1. /\ UNCHANGED const /\ pc[i] # "dead" /\ pc'[i] # "start"
        /\ \A j \in Runs : j # i => ~Active(j) /\ pc'[j] = pc[j]
    BY <1>1, <1>a, Moves DEF IInv, SeqInv, Active
  <2>2. Orderly
    BY <1>a, <2>1 DEF Orderly, const
  <2>3. /\ (\A j \in Runs : ~Active(j)) => Clean
        /\ pc[i] \in {"extract", "restop", "redelete", "create"} => Clean
        /\ pc[i] = "stop" /\ command[i] = "unload" => Clean
        /\ pc[i] = "exit" => Clean \/ (driver = "stopping" /\ service.marked)
        /\ Active(i) => Finds(i)
    BY <2>2 DEF IInv, CleanInv, HealInv, Orderly
  <2>4. handles \subseteq {i} /\ ~trouble /\ pc'[i] # "dead" /\ command[i] # "load"
    BY <1>a, <2>1, <2>2 DEF Orderly, HandleInv, Active, TypeOK, ScmTypeOK, const
  <2>5. SUFFICES /\ ~Active(i)' => Clean'
                 /\ pc'[i] \in {"extract", "restop", "redelete", "create"} => Clean'
                 /\ pc'[i] = "stop" /\ command[i] = "unload" => Clean'
                 /\ pc'[i] = "exit" => Clean' \/ (driver' = "stopping" /\ service'.marked)
    BY <2>1, <2>5 DEF CleanInv, Active, const
  <2> USE <1>a, <2>1, <2>3, <2>4 DEF Active, Clean, TypeOK, LineInv, PathInv, Goto, const
  <2>6. CASE Start(i)
    BY <2>6 DEF Start, World, scm, Active
  <2>7. CASE Extract(i)
    BY <2>7 DEF Extract, scm, Commands
  <2>8. CASE Stop(i)
    BY <2>8 DEF Stop, scm
  <2>9. CASE Delete(i)
    BY <2>9, Marks DEF Delete, Finds, ScmInv, ScmTypeOK, scm
  <2>10. CASE Create(i) \/ Load(i) \/ Open(i)
    BY <2>10 DEF Create, Load, Open
  <2>11. CASE Cleanup(i)
    BY <2>11 DEF Cleanup, Commands
  <2>12. CASE SetMode(i) \/ Image(i)
    BY <2>12 DEF SetMode, Image, Commands
  <2>13. CASE Exit(i)
    BY <2>13, Closes, NoServiceFacts DEF Exit
  <2>14. CASE Kill(i)
    BY <2>14 DEF Kill
  <2> QED BY <1>1, <2>6, <2>7, <2>8, <2>9, <2>10, <2>11, <2>12, <2>13, <2>14 DEF Step
<1>2. CASE Other \/ UNCHANGED vars
  <2>1. UNCHANGED const /\ pc' = pc
    BY <1>2 DEF Other, vars
  <2>2. Orderly
    BY <2>1 DEF Orderly, const
  <2>3. UNCHANGED scm
    BY <1>2, <2>2 DEF Orderly, Other, vars
  <2> QED BY <2>1, <2>2, <2>3 DEF IInv, CleanInv, Clean, Active, const, scm
<1> QED BY <1>1, <1>2 DEF Next

\* The invariant holds in every behaviour of the runs.
THEOREM Invariance == Spec => []IInv
<1>1. IInv /\ [Next]_vars => IInv'
  BY TypeStep, ScmStep, HandleStep, PathStep, SeqStep, ToldStep, HealStep, CleanStep DEF IInv
<1> QED BY <1>1, InitInv, PTL DEF Spec

-----------------------------------------------------------------------------
\* The types of the service database, the driver and the runs.
THEOREM TypeCorrect == Spec => []TypeOK
<1>1. IInv => TypeOK
  BY DEF IInv
<1> QED BY <1>1, Invariance, PTL

\* Runs that end undisturbed and did not load for good leave neither service nor driver,
\* although they stop the driver while they have it open.
THEOREM RunsCleanUp == Spec => []CleanExit
<1>1. IInv => CleanExit
  BY DEF IInv, CleanInv, Clean, Orderly, Active, CleanExit
<1> QED BY <1>1, Invariance, PTL

\* A run that images in the mode PHYSICAL succeeds, whatever earlier ones left.
THEOREM NextRunHeals == Spec => []KillsHeal
<1>1. IInv => KillsHeal
  BY DEF IInv, HealInv, Served, KillsHeal
<1> QED BY <1>1, Invariance, PTL

\* Whatever fails and whoever interferes, a run that returns 1 has written an image that it
\* read through the mode asked for.
THEOREM ImagesAreHonest == Spec => []ImageHonest
<1>1. IInv => ImageHonest
  BY DEF IInv, ToldInv, Told, ImageHonest
<1> QED BY <1>1, Invariance, PTL
=============================================================================

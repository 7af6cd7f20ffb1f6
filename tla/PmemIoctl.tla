----------------------------- MODULE PmemIoctl ------------------------------
(***************************************************************************)
(* wddDispatchDeviceControl (src/winpmem.c): one control request, from the *)
(* nailing of its two user buffers to the release of their MDLs, while the *)
(* machine it reports on keeps changing.  IOCTL_GET_INFO copies the kernel's*)
(* list of memory ranges; IOCTL_REVERSE_SEARCH_QUERY walks the page tables *)
(* and then reads the entry it found, field by field.  (IOCTL_SET_MODE acts*)
(* on shared state and is in PmemDriver.)  The Go client then decodes the  *)
(* information, into a structure with an array of its own length           *)
(* (go-winpmem/api.go).                                                    *)
(*                                                                         *)
(* A behaviour may begin in DriverEntry, with the lookup of the kernel's   *)
(* base; GET_INFO ends with GetKPCR (KernelFacts has both).                *)
(*                                                                         *)
(* Abstracted: a range of memory is a model value; the fields of the       *)
(* information block that are constants of the running system are left out.*)
(***************************************************************************)
EXTENDS PageWalk, KernelFacts, FiniteSets

CONSTANTS
    Memories,    \* sequences of ranges: what MmGetPhysicalMemoryRanges may return
    LeafEntries, \* what the memory manager may write into a level-1 entry
    Scenarios,   \* a request and the machine it arrives at: records [call, memory,
                 \* machine, loaded], call = [code, in, out, va]; loaded: DriverEntry is over
    NUMBER_OF_RUNS,  \* ranges the driver's structure has room for
    GoRuns           \* ranges the Go client's structure has room for

ASSUME RunsAssumption == NUMBER_OF_RUNS \in Nat /\ GoRuns \in Nat
ASSUME MemoriesAssumption ==
    Memories \subseteq Seq(UNION {{m[n] : n \in DOMAIN m} : m \in Memories})

Codes == {"GET_INFO", "REVERSE_SEARCH_QUERY", "unknown"}
\* A buffer: not there, smaller than a word, a word, or room for the structure.
Buffers == {"none", "short", "word", "info"}
Requests == [code : Codes, in : Buffers, out : Buffers, va : Address]

ASSUME ScenariosAssumption == \A s \in Scenarios : s.call \in Requests /\ s.memory \in Memories
\* The page tables are in order, whatever they map.
ASSUME MachinesAssumption == \A s \in Scenarios : WellFormed(s.machine, s.call.va)
ASSUME LeafEntriesAssumption == LeafEntries \subseteq Entry

VARIABLES
    memory,     \* the kernel's memory ranges
    machine,    \* the kernel's page tables
    ready,      \* ext->pte_data.pte_method_is_ready_to_use
    pc,         \* where the request is; "idle" once it is completed
    call,       \* its parameters
    held,       \* of "in", "out": MDLs allocated, pages locked
    mapped,     \* mdl_inbuffer, mdl_outbuffer: which are not NULL
    pool,       \* the pool block of AddMemoryRanges: a list of ranges, or NoBlock
    pte,        \* the entry virt_find_pte found
    output,     \* the client's output buffer
    io,         \* IoStatus
    decoded,    \* what the Go client made of it
    seenMemory, seenPages,  \* history: ranges, and translations of call.va, that
                            \* have been in force since the call arrived
    readPages               \* history: the latter, while the entry was being read

world == <<memory, machine>>
kernel == <<facts, processors>>
history == <<seenMemory, seenPages, readPages>>
request == <<world, ready, pc, call, held, mapped, pool, pte, output, io, decoded, history>>
vars == <<kernel, request>>

\* Between the first and the last look at the entry.
Reading == {"size", "normal", "large"}

NoBlock == [block |-> FALSE, runs |-> <<>>]
Block(rs) == [block |-> TRUE, runs |-> rs]
Unwritten == [kind |-> "untouched", runs |-> <<>>, page |-> 0]
InfoOf(rs) == [kind |-> "info", runs |-> rs, page |-> 0]
Word(p) == [kind |-> "word", runs |-> <<>>, page |-> p]
Pending == [status |-> "PENDING", info |-> 0]
Done(s, n) == [status |-> s, info |-> n]
Nothing == [what |-> "nothing", runs |-> <<>>]
Panic == [what |-> "panic", runs |-> <<>>]
Ranges(rs) == [what |-> "ranges", runs |-> rs]

\* A request leaves nothing behind in the driver (NothingHeld), so a behaviour is that
\* of one request.
Init ==
    /\ \E s \in Scenarios :
          /\ call = s.call /\ memory = s.memory /\ machine = s.machine
          /\ pc = IF s.loaded THEN "nail_in" ELSE "load"
          /\ IF s.loaded THEN InitKnown ELSE InitLookup
    /\ InitProcessors
    /\ ready \in BOOLEAN
    /\ held = {} /\ mapped = {}
    /\ pool = NoBlock
    /\ pte = NotFound
    /\ output = Unwritten
    /\ io = Pending
    /\ decoded = Nothing
    /\ seenMemory = {memory}
    /\ seenPages = {Translation(machine, call.va)}
    /\ readPages = {}

-----------------------------------------------------------------------------
(* The machine.  Of its changes, those are made that the request could notice.*)

\* Memory is added or removed.
Hotplug ==
    /\ call.code = "GET_INFO" /\ pc \in {"dispatch", "copy"}
    /\ memory' \in Memories
    /\ seenMemory' = seenMemory \cup {memory'}
    /\ UNCHANGED <<machine, kernel, ready, pc, call, held, mapped, pool, pte, output, io, decoded,
                   seenPages, readPages>>

\* A level-1 entry is written: a page is mapped, trimmed or freed (or a reader of the
\* PTE mode moves the rogue page).  The tables themselves stay.
Repage ==
    /\ call.code = "REVERSE_SEARCH_QUERY" /\ pc \in {"dispatch", "answer"} \cup Reading
    /\ \E i \in Index, e \in LeafEntries :
          machine' = [machine EXCEPT !.tables[machine.leaf][i] = e]
    /\ seenPages' = seenPages \cup {Translation(machine', call.va)}
    /\ readPages' = readPages \cup
                       IF pc \in Reading THEN {Translation(machine', call.va)} ELSE {}
    /\ UNCHANGED <<memory, kernel, ready, pc, call, held, mapped, pool, pte, output, io, decoded,
                   seenMemory>>

Scheduler == (Migrate \/ AddProcessor) /\ UNCHANGED <<facts, request>>

-----------------------------------------------------------------------------
(* DriverEntry.                                                              *)

Load ==
    /\ LookUp
    /\ UNCHANGED <<processors, request>>

LoadRace ==
    /\ ModulesChange
    /\ UNCHANGED <<processors, request>>

\* The driver is loaded and the request arrives.
Arrive ==
    /\ pc = "load" /\ lookup.pc = "done"
    /\ pc' = "nail_in"
    /\ UNCHANGED <<world, kernel, ready, call, held, mapped, pool, pte, output, io, decoded,
                   history>>

-----------------------------------------------------------------------------
(* The request.                                                              *)

\* The MDL is allocated, its pages are locked and mapped ...
Nailed(b) ==
    /\ held' = held \cup {b}
    /\ mapped' = mapped \cup {b}
    /\ io' = io

\* Mutant: a failure frees the MDL of the other buffer too, which exit will free.
NailFailedFreesAll ==
    /\ io' \in {Done("INSUFFICIENT_RESOURCES", 0), Done("ACCESS_VIOLATION", 0)}
    /\ held' = {}
    /\ UNCHANGED mapped

\* ... or the allocation fails, or the locking, or the mapping: whichever it was,
\* the MDL is undone on the spot.
NailFailed ==
    /\ io' \in {Done("INSUFFICIENT_RESOURCES", 0), Done("ACCESS_VIOLATION", 0)}
    /\ UNCHANGED <<held, mapped>>

NailIn ==
    /\ pc = "nail_in"
    /\ \/ /\ call.in = "none" /\ pc' = "nail_out"
          /\ UNCHANGED <<held, mapped, io>>
       \/ call.in # "none" /\ Nailed("in") /\ pc' = "nail_out"
       \/ call.in # "none" /\ NailFailed /\ pc' = "exit"
    /\ UNCHANGED <<world, kernel, ready, call, pool, pte, output, decoded, history>>

\* Mutant: the locked MDL of the output buffer is kept when mapping it fails.
NailOutLeaks ==
    /\ pc = "nail_out"
    /\ \/ /\ call.out = "none" /\ pc' = "dispatch"
          /\ UNCHANGED <<held, mapped, io>>
       \/ call.out # "none" /\ Nailed("out") /\ pc' = "dispatch"
       \/ /\ call.out # "none" /\ pc' = "exit"
          /\ io' = Done("INSUFFICIENT_RESOURCES", 0)
          /\ held' = held \cup {"out"}
          /\ UNCHANGED mapped
    /\ UNCHANGED <<world, kernel, ready, call, pool, pte, output, decoded, history>>

NailOut ==
    /\ pc = "nail_out"
    /\ \/ /\ call.out = "none" /\ pc' = "dispatch"
          /\ UNCHANGED <<held, mapped, io>>
       \/ call.out # "none" /\ Nailed("out") /\ pc' = "dispatch"
       \/ call.out # "none" /\ NailFailed /\ pc' = "exit"
    /\ UNCHANGED <<world, kernel, ready, call, pool, pte, output, decoded, history>>

-----------------------------------------------------------------------------
(* The switch.  A step ends with "exit" once it has set the status.          *)

Exit(s, n) == io' = Done(s, n) /\ pc' = "exit"

Unknown ==
    /\ pc = "dispatch"
    /\ call.code = "unknown"
    /\ Exit("INVALID_PARAMETER", 0)
    /\ UNCHANGED <<world, kernel, ready, call, held, mapped, pool, pte, output, decoded, history>>

\* The output buffer is checked, cleared, and the list of ranges asked for; there may
\* be none.
GetInfo ==
    /\ pc = "dispatch"
    /\ call.code = "GET_INFO"
    /\ \/ /\ "out" \notin mapped
          /\ Exit("INVALID_PARAMETER", 0)
          /\ UNCHANGED <<output, pool>>
       \/ /\ "out" \in mapped /\ call.out # "info"
          /\ Exit("INFO_LENGTH_MISMATCH", 0)
          /\ UNCHANGED <<output, pool>>
       \/ /\ call.out = "info"
          /\ output' = InfoOf(<<>>)
          /\ \/ Exit("ACCESS_DENIED", 0) /\ UNCHANGED pool
             \/ pool' = Block(memory) /\ pc' = "copy" /\ UNCHANGED io
    /\ UNCHANGED <<world, kernel, ready, call, held, mapped, pte, decoded, history>>

\* Mutant: a list that is too long is cut.
CopyRangesCut ==
    /\ pc = "copy"
    /\ output' = InfoOf(SubSeq(pool.runs, 1,
                               IF Len(pool.runs) > NUMBER_OF_RUNS THEN NUMBER_OF_RUNS
                                                                  ELSE Len(pool.runs)))
    /\ pc' = "kpcr" /\ CallGetKPCR
    /\ pool' = NoBlock
    /\ UNCHANGED <<world, facts, ready, call, held, mapped, pte, io, decoded, history>>

\* The rest of AddMemoryRanges: the block is counted, copied and freed.
CopyRanges ==
    /\ pc = "copy"
    /\ IF Len(pool.runs) > NUMBER_OF_RUNS
       THEN Exit("INFO_LENGTH_MISMATCH", 0) /\ UNCHANGED <<output, processors>>
       ELSE output' = InfoOf(pool.runs) /\ pc' = "kpcr" /\ CallGetKPCR /\ UNCHANGED io
    /\ pool' = NoBlock
    /\ UNCHANGED <<world, facts, ready, call, held, mapped, pte, decoded, history>>

Survey ==
    /\ pc = "kpcr"
    /\ QueryActive \/ Pin \/ ReadSelf
    /\ UNCHANGED <<facts, request>>

\* The end of GetKPCR, and of IOCTL_GET_INFO.
Surveyed ==
    /\ pc = "kpcr"
    /\ Revert
    /\ Exit("SUCCESS", 1)
    /\ UNCHANGED <<world, facts, ready, call, held, mapped, pool, pte, output, decoded, history>>

Adequate(b) == b \in {"word", "info"}

ReverseSearch ==
    /\ pc = "dispatch"
    /\ call.code = "REVERSE_SEARCH_QUERY"
    /\ \/ ~ready /\ Exit("NOT_SUPPORTED", 0) /\ UNCHANGED pte
       \/ /\ ready
          /\ ~Adequate(call.in) \/ ~Adequate(call.out)
          /\ Exit("INFO_LENGTH_MISMATCH", 0) /\ UNCHANGED pte
       \/ /\ ready /\ Adequate(call.in) /\ Adequate(call.out)
          /\ IF call.va = Null
             THEN Exit("ACCESS_DENIED", 0) /\ UNCHANGED pte
             ELSE pte' = VirtFindPte(machine, call.va) /\ pc' = "answer" /\ UNCHANGED io
    /\ UNCHANGED <<world, kernel, ready, call, held, mapped, pool, output, decoded, history>>

\* The entry where it was found; by now it may have another content.
TheEntry == machine.tables[pte.table][pte.index]

\* Mutant: what the walk found present is taken to be so still.
ReadPresentNot ==
    /\ pc = "answer"
    /\ IF pte.found
       THEN /\ pc' = "size"
            /\ readPages' = {Translation(machine, call.va)}
            /\ UNCHANGED <<output, io>>
       ELSE output' = Word(0) /\ Exit("SUCCESS", 1) /\ UNCHANGED readPages
    /\ UNCHANGED <<world, kernel, ready, call, held, mapped, pool, pte, decoded, seenMemory,
                   seenPages>>

\* It is read three times: whether it is present,
ReadPresent ==
    /\ pc = "answer"
    /\ IF pte.found /\ TheEntry.present
       THEN /\ pc' = "size"
            /\ readPages' = {Translation(machine, call.va)}
            /\ UNCHANGED <<output, io>>
       ELSE output' = Word(0) /\ Exit("SUCCESS", 1) /\ UNCHANGED readPages
    /\ UNCHANGED <<world, kernel, ready, call, held, mapped, pool, pte, decoded, seenMemory,
                   seenPages>>

\* whether it is a large page's,
ReadSize ==
    /\ pc = "size"
    /\ pc' = IF TheEntry.large THEN "large" ELSE "normal"
    /\ UNCHANGED <<world, kernel, ready, call, held, mapped, pool, pte, output, io, decoded,
                   history>>

\* and its page frame, from which the answer is computed.
ReadFrame ==
    /\ pc \in {"normal", "large"}
    /\ output' = Word(PageOf(TheEntry.frame, pc = "large", call.va))
    /\ Exit("SUCCESS", 1)
    /\ UNCHANGED <<world, kernel, ready, call, held, mapped, pool, pte, decoded, history>>

Answer == ReadPresent \/ ReadSize \/ ReadFrame

\* exit: the MDLs that are mapped are unlocked and freed, the IRP is completed.
Release ==
    /\ pc = "exit"
    /\ held' = held \ mapped
    /\ mapped' = {}
    /\ pc' = "idle"
    /\ UNCHANGED <<world, kernel, ready, call, pool, pte, output, io, decoded, history>>

-----------------------------------------------------------------------------
(* The Go client.                                                            *)

\* Mutant: ranges the array has no room for are left out.
InfoRunsCut(rs) ==
    Ranges(SubSeq(rs, 1, IF Len(rs) > GoRuns THEN GoRuns ELSE Len(rs)))

\* Info's loop over NumberOfRuns indexes into an array of GoRuns: it stops beyond the
\* array, where the test for its end (i > len) holds, and at an index that is not in it.
InfoRuns(rs) ==
    LET out == {i \in 0 .. Len(rs) - 1 : i > GoRuns}      \* break
        bad == {i \in 0 .. Len(rs) - 1 : i = GoRuns}      \* self.Run[i] is out of range
    IN  IF \E i \in bad : \A j \in out : i < j THEN Panic
        ELSE Ranges(SubSeq(rs, 1, Len(rs) - Cardinality(out)))

GetStats ==
    /\ pc = "idle"
    /\ call.code = "GET_INFO"
    /\ io.status = "SUCCESS"
    /\ decoded = Nothing
    /\ decoded' = InfoRuns(output.runs)
    /\ UNCHANGED <<world, kernel, ready, pc, call, held, mapped, pool, pte, output, io, history>>

-----------------------------------------------------------------------------
Serve ==
    \/ Load \/ Arrive \/ NailIn \/ NailOut \/ Unknown
    \/ GetInfo \/ CopyRanges \/ Survey \/ Surveyed
    \/ ReverseSearch \/ Answer \/ Release

\* There is nothing to do any more.
Completed == pc = "idle" /\ UNCHANGED vars

Next == Hotplug \/ Repage \/ LoadRace \/ Scheduler \/ Serve \/ GetStats \/ Completed

Spec == Init /\ [][Next]_vars

-----------------------------------------------------------------------------
(* Properties.                                                               *)

\* The types of the request's state.
TypeOK ==
    /\ memory \in Memories
    /\ WellFormed(machine, call.va)
    /\ ready \in BOOLEAN
    /\ pc \in {"load", "nail_in", "nail_out", "dispatch", "copy", "kpcr", "answer", "exit",
              "idle"} \cup Reading
    /\ call \in Requests
    /\ held \subseteq {"in", "out"}
    /\ mapped \subseteq held
    /\ pool \in {NoBlock} \cup {Block(rs) : rs \in Memories}
    /\ pte.found => pte.table \in DOMAIN machine.tables /\ pte.index \in Index
    /\ io.status # "PENDING" => pc \in {"idle", "exit"}
    /\ decoded \in {Nothing, Panic} \cup {Ranges(rs) : rs \in Memories}
    /\ FactsTypeOK

\* Whichever of its exits a request takes, and whichever of the two buffers failed,
\* it ends without an MDL of a client's pages or the pool block of the kernel; and the
\* lookup of DriverEntry ends without its buffer.
NothingHeld ==
    /\ pc = "idle" => held = {} /\ pool = NoBlock
    /\ lookup.pc = "done" => ~lookup.allocated

\* IOCTL_GET_INFO that succeeds reports all ranges of one moment of the call - no
\* mixture and no part of a list, however memory changed meanwhile; one that does not
\* succeed reports no range.  The Go client, built with its own length of the list,
\* gets the whole list out of it or dies: it never works on a part.
InfoIsSnapshot ==
    /\ (pc = "idle" /\ call.code = "GET_INFO") =>
          IF io.status = "SUCCESS" THEN output.kind = "info" /\ output.runs \in seenMemory
                                   ELSE output.runs = <<>>
    /\ decoded.what = "ranges" => decoded.runs \in seenMemory

\* The driver does not resolve the pages of level 3, nor tables that have no virtual
\* address; it need not find these.
Resolvable(m, va) ==
    /\ DOMAIN m.tables = m.virtual
    /\ ~(Entry4(m, va).present /\ Entry3(m, va).present /\ Entry3(m, va).large)

\* What the driver adds to the page of an entry that has its PAT bit set, which it takes
\* for a large page (level 1) or for a part of the frame (level 2).
Astray(t, va) == IF ~t.pat THEN 0 ELSE IF t.level = 1 THEN va[1] ELSE 1

\* A reverse search that finds a page names one the address was mapped to while the entry
\* was being read - but for the PAT bit, see Astray, which may be an earlier entry's.  (If it
\* was mapped first and unmapped under the reads there is no telling what is named.)  It
\* finds a page if the address was mapped throughout the call, to a page other than page 0,
\* which is its answer for "not mapped" too.
ReverseIsTranslation ==
    (pc = "idle" /\ call.code = "REVERSE_SEARCH_QUERY" /\ io.status = "SUCCESS") =>
        /\ \/ output.page = 0
           \/ Unmapped \in readPages /\ readPages # {Unmapped}
           \/ \E t, u \in readPages : output.page = t.page + Astray(u, call.va)
        /\ ((\A t \in seenPages : t.page # 0) /\ Resolvable(machine, call.va)) => output.page # 0
=============================================================================

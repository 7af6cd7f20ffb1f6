-------------------------- MODULE PmemIoctlProofs ---------------------------
(***************************************************************************)
(* Theorems about a control request and what the driver finds out about    *)
(* the kernel, for all memories, module lists and processors, and whatever *)
(* they do meanwhile.                                                      *)
(***************************************************************************)
EXTENDS PmemIoctl, FiniteSetTheorems, SequenceTheorems, TLAPS

-----------------------------------------------------------------------------
(* The inductive invariants.                                                 *)

\* KernelGetModuleBaseByPtr: a list it searches is one that was loaded; unless something
\* disturbed it, the list fits into the size it remembers.
LookupInv ==
    /\ lookup \in [pc : {"allocate", "query", "reallocate", "requery", "search", "done"},
                   size : Nat, allocated : BOOLEAN, list : ModuleLists \cup {NoList}]
    /\ disturbed \in BOOLEAN /\ kernelbase \in Nat
    /\ lookup.pc # "done" => modules \in ModuleLists
    /\ lookup.pc \in {"allocate", "reallocate", "done"} => ~lookup.allocated
    /\ lookup.pc = "search" => lookup.list \in ModuleLists
    /\ lookup.pc \in {"reallocate", "requery"} /\ ~disturbed => Len(modules) <= lookup.size
    /\ lookup.pc = "done" => kernelbase \in {0, NtBase} /\ (~disturbed => kernelbase = NtBase)

\* GetKPCR: while the thread is to read its KPCR it can be nowhere but where it should.
SurveyInv ==
    /\ survey \in [pc : {"no", "called", "pin", "self", "done"}, mask : SUBSET Processors,
                   kpcr : [Processors -> Nat]]
    /\ active \subseteq Processors
    /\ \A p \in Processors :
          survey.kpcr[p] = 0 \/ (p \in survey.mask /\ survey.kpcr[p] = Kpcr(p))
    /\ survey.mask \subseteq active /\ cpu \in active /\ affinity \subseteq Processors
    /\ survey.pc \in {"no", "called"} => survey.mask = {}
    /\ survey.pc = "self" => Due # {} /\ affinity = {Turn} /\ cpu = Turn
    /\ survey.pc = "done" => Due = {}
    /\ survey.pc \in {"no", "called"} => affinity = Processors
    /\ pc \in {"load", "nail_in", "nail_out", "dispatch", "copy"} => survey.pc = "no"

\* Where a request can be; it has no status before its exit.
RequestInv ==
    /\ pc \in {"load", "nail_in", "nail_out", "dispatch", "copy", "kpcr", "answer", "exit",
              "idle"} \cup Reading
    /\ call \in Requests /\ ready \in BOOLEAN
    /\ io.status # "PENDING" => pc \in {"exit", "idle"}

\* What is held, and for how long.
HeldInv ==
    /\ held = mapped /\ held \subseteq {"in", "out"}
    /\ pc = "idle" => held = {}
    /\ pc # "copy" => pool = NoBlock

\* Where the ranges are on their way to the client.
RangesInv ==
    /\ memory \in seenMemory /\ seenMemory \subseteq Memories
    /\ pc \in {"copy", "kpcr"} => call.code = "GET_INFO"
    /\ pc \in {"answer"} \cup Reading => call.code # "GET_INFO"
    /\ pc = "copy" => pool.runs \in seenMemory
    /\ call.code = "GET_INFO" =>
          /\ pc \in {"load", "nail_in", "nail_out", "dispatch", "copy"} => output.runs = <<>>
          /\ pc = "kpcr" => output.kind = "info" /\ output.runs \in seenMemory
          /\ pc \in {"exit", "idle"} =>
                IF io.status = "SUCCESS" THEN output.kind = "info" /\ output.runs \in seenMemory
                                         ELSE output.runs = <<>>
    /\ pool \in {NoBlock} \cup {Block(rs) : rs \in Memories}
    /\ decoded \in {Nothing, Panic} \cup {Ranges(rs) : rs \in seenMemory}

\* The page tables above level 1 stay, so what virt_find_pte found still is the place of
\* the entry that maps the address when the entry is read.
Leads(p, m, va) ==
    LET e4 == Entry4(m, va)
        e3 == Entry3(m, va)
        e2 == Entry2(m, va)
    IN  /\ e4.present /\ e3.present /\ ~e3.large /\ e2.present
        /\ p.table = (IF e2.large THEN e3.frame ELSE e2.frame)
        /\ p.index = (IF e2.large THEN va[2] ELSE va[1])

\* What is said of a page the driver answers with, by the translations there were.
Accounted(page) ==
    /\ \/ page = 0
       \/ Unmapped \in readPages /\ readPages # {Unmapped}
       \/ \E t, u \in readPages : page = t.page + Astray(u, call.va)
    /\ ((\A t \in seenPages : t.page # 0) /\ Resolvable(machine, call.va)) => page # 0

\* Unless the page was unmapped under the reads, the size that was read is that of a
\* translation there was.
Sized ==
    \/ Unmapped \in readPages
    \/ IF Entry2(machine, call.va).large
       THEN pc = "large"
       ELSE \E u \in readPages : u.level = 1 /\ u.pat = (pc = "large")

SearchInv ==
    /\ WellFormed(machine, call.va)
    /\ Translation(machine, call.va) \in seenPages
    /\ pte.found => Leads(pte, machine, call.va)
    /\ pc = "answer" /\ ~pte.found => Accounted(0)
    /\ pc \in Reading =>
          /\ pte.found
          /\ Translation(machine, call.va) \in readPages /\ readPages \subseteq seenPages
          /\ readPages # {Unmapped}
    /\ pc \in {"normal", "large"} => Sized
    /\ pc \in {"exit", "idle"} /\ call.code = "REVERSE_SEARCH_QUERY" /\ io.status = "SUCCESS" =>
          Accounted(output.page)

IInv == LookupInv /\ SurveyInv /\ RequestInv /\ HeldInv /\ RangesInv /\ SearchInv

-----------------------------------------------------------------------------
(* The kernel's base.                                                        *)

LEMMA ListFacts ==
    ASSUME NEW list \in ModuleLists
    PROVE  Len(list) \in Nat \ {0} /\ DOMAIN list = 1 .. Len(list) /\ list[1] = "nt"
<1>1. list \in Seq(Names) /\ list # <<>> /\ list[1] = "nt"
  BY ListsAssumption DEF ListsAssumption
<1>2. Len(list) \in Nat /\ DOMAIN list = 1 .. Len(list) /\ Len(list) # 0
  BY <1>1
<1> QED BY <1>1, <1>2

LEMMA LookUpStep ==
    ASSUME LookupInv, LookUp
    PROVE  LookupInv'
<1>1. CASE Allocate
  <2>1. CASE Fails
    BY <2>1 DEF Fails, Found, NoLookup, LookupInv
  <2>2. CASE /\ lookup' = [lookup EXCEPT
                              !.pc = IF @ = "allocate" THEN "query" ELSE "requery",
                              !.size = IF lookup.pc = "allocate" THEN PreAllocated ELSE @,
                              !.allocated = TRUE]
             /\ UNCHANGED <<modules, kernelbase, disturbed>>
    BY <1>1, <2>2, PreAllocatedAssumption DEF Allocate, LookupInv, PreAllocatedAssumption
  <2> QED BY <1>1, <2>1, <2>2 DEF Allocate
<1>2. CASE Query
  <2>0. modules \in ModuleLists /\ Len(modules) \in Nat /\ lookup.pc \in {"query", "requery"}
    BY <1>2, ListFacts DEF Query, LookupInv
  <2>1. CASE /\ Fits
             /\ lookup' = [lookup EXCEPT !.pc = "search", !.list = modules]
             /\ UNCHANGED <<modules, kernelbase, disturbed>>
    BY <2>0, <2>1 DEF LookupInv
  <2>2. CASE /\ lookup' = [lookup EXCEPT !.pc = "reallocate", !.size = Len(modules),
                                         !.allocated = FALSE]
             /\ UNCHANGED <<modules, kernelbase, disturbed>>
    <3>1. Len(modules) \in Nat
      BY <2>0, ListFacts
    <3>2. /\ lookup'.pc = "reallocate" /\ lookup'.size = Len(modules) /\ ~lookup'.allocated
          /\ lookup' \in [pc : {"allocate", "query", "reallocate", "requery", "search", "done"},
                          size : Nat, allocated : BOOLEAN, list : ModuleLists \cup {NoList}]
      BY <2>2, <3>1 DEF LookupInv
    <3>3. Len(modules) <= Len(modules)
      BY <3>1
    <3> QED BY <2>0, <2>2, <3>2, <3>3 DEF LookupInv
  <2>3. CASE ~Fits /\ lookup.pc = "requery" /\ Found(0) /\ UNCHANGED <<modules, disturbed>>
    <3>1. disturbed
      BY <2>0, <2>3 DEF Fits, LookupInv
    <3> QED BY <2>3, <3>1 DEF Found, NoLookup, LookupInv
  <2>4. CASE Fails
    BY <2>4 DEF Fails, Found, NoLookup, LookupInv
  <2> QED BY <1>2, <2>1, <2>2, <2>3, <2>4 DEF Query
<1>3. CASE Search
  <2> DEFINE hits == {n \in DOMAIN lookup.list : LooksLikeKernel(lookup.list[n])}
  <2>1. lookup.list \in ModuleLists
    BY <1>3 DEF Search, LookupInv
  <2>2. 1 \in hits /\ \A h \in hits : h \in Nat /\ 1 <= h
    BY <2>1, ListFacts DEF LooksLikeKernel
  <2>3. (CHOOSE n \in hits : \A h \in hits : n <= h) = 1
    <3> HIDE DEF hits
    <3>1. \A n \in hits : (\A h \in hits : n <= h) => n = 1
      BY <2>2
    <3> QED BY <2>2, <3>1
  <2>4. Found(1) /\ UNCHANGED <<modules, disturbed>>
    <3> HIDE DEF hits
    <3>1. hits # {}
      BY <2>2
    <3>2. Found(IF hits = {} THEN 0 ELSE CHOOSE n \in hits : \A h \in hits : n <= h)
      BY <1>3 DEF Search, hits
    <3> QED BY <1>3, <2>3, <3>1, <3>2 DEF Search
  <2> QED BY <2>4 DEF Found, NoLookup, NtBase, LookupInv
<1> QED BY <1>1, <1>2, <1>3 DEF LookUp

LEMMA ModulesStep ==
    ASSUME LookupInv, ModulesChange
    PROVE  LookupInv'
<1>1. modules' \in ModuleLists /\ Len(modules') \in Nat /\ UNCHANGED <<lookup, kernelbase>>
  BY ListFacts DEF ModulesChange
<1> QED BY <1>1 DEF LookupInv, ModulesChange

-----------------------------------------------------------------------------
(* The processors.                                                           *)

\* The processor whose turn it is, is due.
LEMMA TurnIsDue ==
    ASSUME SurveyInv, Due # {}
    PROVE  Turn \in Due /\ Turn \in survey.mask /\ Turn \in Processors
<1> DEFINE R == {ss \in Nat \X Nat : ss[1] < ss[2]}
<1>1. Due \subseteq Nat /\ Due \subseteq Processors
  <2>1. survey.mask \in SUBSET Processors
    BY DEF SurveyInv
  <2>2. Processors \subseteq Nat
    BY ProcessorsAssumption DEF ProcessorsAssumption
  <2> QED BY <2>1, <2>2 DEF Due
<1>2. IsWellFoundedOn(R, Nat)
  BY NatLessThanWellFounded DEF OpToRel
<1>3. \A a, b \in Nat : a < b => <<a, b>> \in R
  OBVIOUS
<1> HIDE DEF R
<1>4. PICK x \in Due : \A y \in Due : ~(<<y, x>> \in R)
  BY <1>1, <1>2, WFMin
<1>5. ASSUME NEW y \in Due PROVE x <= y
  <2>1. x \in Nat /\ y \in Nat /\ ~(y < x)
    BY <1>1, <1>3, <1>4, <1>5
  <2> QED BY <2>1
<1>6. Turn \in Due
  BY <1>5 DEF Turn
<1> QED BY <1>1, <1>6 DEF Due

\* A step of GetKPCR, or of the scheduler.
LEMMA SurveyStep ==
    ASSUME SurveyInv,
           \/ pc' = pc /\ pc = "kpcr" /\ (QueryActive \/ Pin \/ ReadSelf)
           \/ pc' \notin {"load", "nail_in", "nail_out", "dispatch", "copy"} /\ Revert
           \/ pc' = pc /\ (Migrate \/ AddProcessor)
    PROVE  SurveyInv'
<1>1. Processors \subseteq Nat
  BY ProcessorsAssumption DEF ProcessorsAssumption
<1>2. survey' = [survey EXCEPT !.pc = survey'.pc] => Due' = Due /\ Turn' = Turn
  BY DEF SurveyInv, Due, Turn
<1>3. CASE pc' = pc /\ pc = "kpcr" /\ QueryActive
  BY <1>3 DEF QueryActive, SurveyInv
<1>4. CASE pc' = pc /\ pc = "kpcr" /\ Pin
  <2>1. survey' = [survey EXCEPT !.pc = "self"] /\ affinity' = {Turn} /\ cpu' = Turn
        /\ active' = active /\ Due # {}
    BY <1>4 DEF Pin
  <2>2. Due' = Due /\ Turn' = Turn
    BY <2>1, <1>2 DEF SurveyInv
  <2>3. Turn \in survey.mask /\ Turn \in Processors
    BY <2>1, TurnIsDue
  <2> QED BY <1>4, <2>1, <2>2, <2>3 DEF SurveyInv
<1>5. CASE pc' = pc /\ pc = "kpcr" /\ ReadSelf
  <2>1. Turn \in survey.mask /\ Turn \in Processors /\ cpu = Turn /\ Kpcr(cpu) \in Nat
    BY <1>1, <1>5, TurnIsDue DEF ReadSelf, SurveyInv, Kpcr
  <2>2. /\ survey' = [survey EXCEPT !.pc = "pin", !.kpcr[Turn] = Kpcr(cpu)]
        /\ UNCHANGED <<active, cpu, affinity>>
    BY <1>5 DEF ReadSelf
  <2>3. /\ survey'.pc = "pin" /\ survey'.mask = survey.mask
        /\ survey'.kpcr = [survey.kpcr EXCEPT ![Turn] = Kpcr(Turn)]
        /\ survey' \in [pc : {"no", "called", "pin", "self", "done"}, mask : SUBSET Processors,
                        kpcr : [Processors -> Nat]]
    BY <2>1, <2>2 DEF SurveyInv
  <2> QED BY <1>5, <2>1, <2>2, <2>3 DEF SurveyInv
<1>6. CASE pc' \notin {"load", "nail_in", "nail_out", "dispatch", "copy"} /\ Revert
  <2>1. survey' = [survey EXCEPT !.pc = "done"] /\ affinity' \in {Processors, affinity}
        /\ active' = active /\ cpu' = cpu /\ Due = {}
    BY <1>6 DEF Revert
  <2>2. Due' = {}
    BY <2>1 DEF SurveyInv, Due
  <2> QED BY <1>6, <2>1, <2>2 DEF SurveyInv
<1>7. CASE pc' = pc /\ Migrate
  <2>1. survey.pc # "self"
    BY <1>7 DEF Migrate, SurveyInv
  <2> QED BY <1>7, <2>1 DEF Migrate, SurveyInv, Due
<1>8. CASE pc' = pc /\ AddProcessor
  BY <1>8 DEF AddProcessor, SurveyInv, Due, Turn
<1> QED BY <1>3, <1>4, <1>5, <1>6, <1>7, <1>8

\* A step of the request that leaves the processors alone.
LEMMA SurveyStays ==
    ASSUME SurveyInv, UNCHANGED processors,
           pc' \in {"load", "nail_in", "nail_out", "dispatch", "copy"} =>
               pc \in {"load", "nail_in", "nail_out", "dispatch", "copy"}
    PROVE  SurveyInv'
  BY DEF processors, SurveyInv, Due, Turn

-----------------------------------------------------------------------------
(* The page walk.                                                            *)

LEMMA AddressFacts ==
    ASSUME NEW va \in Address
    PROVE  va[1] \in Index /\ va[2] \in Index /\ va[3] \in Index /\ va[4] \in Index
  BY DEF Address

\* The entries on the way are entries.
LEMMA EntryFacts ==
    ASSUME NEW m, NEW va \in Address, WellFormed(m, va)
    PROVE  LET e4 == Entry4(m, va)
               e3 == Entry3(m, va)
               e2 == Entry2(m, va)
           IN  /\ e4 \in Entry
               /\ e4.present => e3 \in Entry
               /\ e4.present /\ e3.present /\ ~e3.large =>
                     e2 \in Entry /\ (e2.present /\ ~e2.large => Entry1(m, va) \in Entry)
  BY AddressFacts DEF WellFormed, Entry4, Entry3, Entry2, Entry1

\* Writing a level-1 entry leaves the way to it as it was.
LEMMA RepageKeeps ==
    ASSUME NEW m, NEW va \in Address, WellFormed(m, va), NEW i \in Index, NEW e \in Entry,
           NEW n, n = [m EXCEPT !.tables[m.leaf][i] = e]
    PROVE  /\ WellFormed(n, va)
           /\ Resolvable(n, va) => Resolvable(m, va)
           /\ \A p : Leads(p, m, va) => /\ Leads(p, n, va)
                                        /\ Entry2(n, va) = Entry2(m, va)
<1> DEFINE T == [m.tables EXCEPT ![m.leaf] = [@ EXCEPT ![i] = e]]
<1>1. n = [root |-> m.root, leaf |-> m.leaf, virtual |-> m.virtual, tables |-> T]
  BY DEF WellFormed
<1>2. n.root = m.root /\ n.leaf = m.leaf /\ n.virtual = m.virtual /\ n.tables = T
  BY <1>1
<1>3. m.tables \in [DOMAIN m.tables -> [Index -> Entry]] /\ m.leaf \in DOMAIN m.tables
  BY DEF WellFormed
<1>4. T \in [DOMAIN m.tables -> [Index -> Entry]] /\ DOMAIN T = DOMAIN m.tables
  BY <1>3
<1>5. \A t \in DOMAIN m.tables \ {m.leaf} : T[t] = m.tables[t]
  BY <1>3
<1> HIDE DEF T
<1>6. Entry4(n, va) = Entry4(m, va)
  BY <1>2, <1>5 DEF WellFormed, Entry4
<1>7. Entry4(m, va).present => Entry3(n, va) = Entry3(m, va)
  BY <1>2, <1>5, <1>6 DEF WellFormed, Entry3
<1>8. Entry4(m, va).present /\ Entry3(m, va).present /\ ~Entry3(m, va).large
        => Entry2(n, va) = Entry2(m, va)
  BY <1>2, <1>5, <1>6, <1>7 DEF WellFormed, Entry2
<1>9. WellFormed(n, va)
  BY <1>1, <1>2, <1>4, <1>6, <1>7, <1>8 DEF WellFormed
<1>10. Resolvable(n, va) => Resolvable(m, va)
  BY <1>2, <1>4, <1>6, <1>7 DEF Resolvable
<1> QED BY <1>6, <1>7, <1>8, <1>9, <1>10 DEF Leads

\* What virt_find_pte finds is the entry the processor uses; it finds nothing only where
\* nothing is mapped, or where it does not resolve the mapping.
LEMMA WalkFinds ==
    ASSUME NEW m, NEW va \in Address, WellFormed(m, va)
    PROVE  /\ VirtFindPte(m, va).found => Leads(VirtFindPte(m, va), m, va)
           /\ ~VirtFindPte(m, va).found /\ Resolvable(m, va) => Translation(m, va).page = 0
<1> DEFINE e4 == Entry4(m, va)
           e3 == Entry3(m, va)
           e2 == Entry2(m, va)
<1>1. ASSUME VirtFindPte(m, va).found PROVE Leads(VirtFindPte(m, va), m, va)
  <2> DEFINE stuck == \/ m.root \notin m.virtual \/ ~e4.present
                      \/ e4.frame \notin m.virtual \/ ~e3.present \/ e3.large
                      \/ e3.frame \notin m.virtual \/ ~e2.present
  <2>1. VirtFindPte(m, va) =
          IF stuck THEN NotFound
          ELSE IF e2.large THEN [found |-> TRUE, table |-> e3.frame, index |-> va[2]]
          ELSE IF e2.frame \notin m.virtual \/ ~Entry1(m, va).present THEN NotFound
          ELSE [found |-> TRUE, table |-> e2.frame, index |-> va[1]]
    BY DEF VirtFindPte
  <2>2. ~stuck
    BY <1>1, <2>1 DEF NotFound
  <2>3. VirtFindPte(m, va) =
          IF e2.large THEN [found |-> TRUE, table |-> e3.frame, index |-> va[2]]
                      ELSE [found |-> TRUE, table |-> e2.frame, index |-> va[1]]
    <3> HIDE DEF stuck
    <3> QED BY <1>1, <2>1, <2>2 DEF NotFound
  <2> QED BY <2>2, <2>3 DEF Leads
<1>2. ASSUME ~VirtFindPte(m, va).found, Resolvable(m, va) PROVE Translation(m, va).page = 0
  <2>1. m.root \in m.virtual /\ (e4.present => e4.frame \in m.virtual)
    BY <1>2 DEF Resolvable, WellFormed
  <2>2. e4.present /\ e3.present => ~e3.large /\ e3.frame \in m.virtual
    BY <1>2 DEF Resolvable, WellFormed
  <2>3. e4.present /\ e3.present /\ e2.present /\ ~e2.large => e2.frame \in m.virtual
    BY <1>2, <2>2 DEF Resolvable, WellFormed
  <2>4. \/ ~e4.present \/ ~e3.present \/ ~e2.present
        \/ ~e2.large /\ ~Entry1(m, va).present
    BY <1>2, <2>1, <2>2, <2>3 DEF VirtFindPte
  <2>5. Translation(m, va) = Unmapped
    BY <2>2, <2>4 DEF Translation
  <2> QED BY <2>5 DEF Unmapped
<1> QED BY <1>1, <1>2

\* What the entry is to the driver, and to the processor.  An entry of level 2 is always
\* present and large.
LEMMA EntryIsTranslation ==
    ASSUME NEW m, NEW va \in Address, WellFormed(m, va), NEW p, Leads(p, m, va)
    PROVE  LET e == m.tables[p.table][p.index]
               t == Translation(m, va)
           IN  IF Entry2(m, va).large
               THEN /\ e.present /\ e.large
                    /\ e.frame + va[1] = t.page + Astray(t, va)
                    /\ t.page # 0 => e.frame + va[1] # 0
                    /\ t # Unmapped
               ELSE IF e.present
                    THEN e \in Entry /\ t = [page |-> e.frame, level |-> 1, pat |-> e.large]
                    ELSE t = Unmapped
<1> DEFINE e3 == Entry3(m, va)
           e2 == Entry2(m, va)
           e1 == Entry1(m, va)
           t == Translation(m, va)
           e == m.tables[p.table][p.index]
<1>1. Entry4(m, va).present /\ e3.present /\ ~e3.large /\ e2.present /\ e2 \in Entry
  BY EntryFacts DEF Leads
<1>2. va[1] \in Nat
  BY AddressFacts, FanoutAssumption DEF Index, FanoutAssumption
<1>3. CASE e2.large
  <2>1. e = e2
    BY <1>1, <1>3 DEF Leads, Entry2
  <2>2. t = [page |-> e2.frame - (e2.frame % Fanout) + va[1], level |-> 2,
             pat |-> (e2.frame % Fanout # 0)]
    BY <1>1, <1>3 DEF Translation
  <2>3. e2.frame % Fanout \in {0, 1} /\ e2.frame \in Nat
    BY <1>1, <1>3 DEF WellFormed, Entry
  <2>4. Astray(t, va) = e2.frame % Fanout
    <3> HIDE DEF t, e2
    <3>1. t.pat <=> e2.frame % Fanout # 0
      BY <2>2
    <3> QED BY <2>2, <2>3, <3>1 DEF Astray
  <2>5. e2.frame + va[1] = t.page + Astray(t, va) /\ t # Unmapped
    <3> HIDE DEF t, e2
    <3> QED BY <1>2, <2>2, <2>3, <2>4 DEF Unmapped
  <2>6. ASSUME e2.frame + va[1] = 0 PROVE t.page = 0
    <3>1. e2.frame = 0 /\ va[1] = 0
      <4> HIDE DEF e2
      <4> QED BY <1>2, <2>3, <2>6
    <3>2. 0 % Fanout = 0
      BY FanoutAssumption DEF FanoutAssumption
    <3> HIDE DEF t, e2
    <3> QED BY <2>2, <3>1, <3>2
  <2> QED BY <1>1, <1>3, <2>1, <2>5, <2>6
<1>4. CASE ~e2.large
  <2>1. e1 \in Entry /\ e = e1
    BY <1>1, <1>4, EntryFacts DEF Leads, Entry1
  <2>2. t = IF ~e1.present THEN Unmapped
            ELSE [page |-> e1.frame, level |-> 1, pat |-> e1.large]
    BY <1>1, <1>4 DEF Translation
  <2>3. IF e.present THEN e \in Entry /\ t = [page |-> e.frame, level |-> 1, pat |-> e.large]
                     ELSE t = Unmapped
    <3> HIDE DEF e, e1, t
    <3> QED BY <2>1, <2>2
  <2> QED BY <1>4, <2>3
<1> QED BY <1>3, <1>4

-----------------------------------------------------------------------------
(* The request.                                                              *)

LEMMA InitInv == Init => IInv
<1> SUFFICES ASSUME Init PROVE IInv
  OBVIOUS
<1>1. PICK s \in Scenarios :
        /\ call = s.call /\ memory = s.memory /\ machine = s.machine
        /\ pc = IF s.loaded THEN "nail_in" ELSE "load"
        /\ IF s.loaded THEN InitKnown ELSE InitLookup
  BY DEF Init
<1>2. pc \in {"nail_in", "load"}
  BY <1>1
<1>3. LookupInv
  <2>1. CASE InitKnown
    BY <2>1 DEF InitKnown, NoLookup, NtBase, LookupInv
  <2>2. CASE InitLookup
    BY <2>2 DEF InitLookup, NoLookup, LookupInv
  <2> QED BY <1>1, <2>1, <2>2
<1>4. SurveyInv
  BY <1>2, ProcessorsAssumption
  DEF Init, InitProcessors, NoSurvey, SurveyInv, Due, ProcessorsAssumption
<1>5. RequestInv
  BY <1>1, <1>2, ScenariosAssumption DEF Init, Pending, ScenariosAssumption, RequestInv
<1>6. HeldInv
  BY <1>2 DEF Init, HeldInv
<1>7. RangesInv
  <2>1. memory \in Memories
    BY <1>1, ScenariosAssumption DEF ScenariosAssumption
  <2> QED BY <1>2, <2>1 DEF Init, Unwritten, Nothing, Reading, RangesInv
<1>8. SearchInv
  <2>1. WellFormed(machine, call.va)
    BY <1>1, MachinesAssumption DEF MachinesAssumption
  <2> QED BY <1>2, <2>1 DEF Init, NotFound, Reading, SearchInv
<1> QED BY <1>3, <1>4, <1>5, <1>6, <1>7, <1>8 DEF IInv

LEMMA RequestStep ==
    ASSUME RequestInv, [Next]_vars
    PROVE  RequestInv'
<1> USE DEF Reading
<1>1. CASE Load \/ LoadRace \/ Scheduler \/ Survey \/ Completed \/ UNCHANGED vars
  BY <1>1 DEF Load, LoadRace, Scheduler, Survey, Completed, vars, request, RequestInv
<1>2. CASE Hotplug \/ Repage \/ Arrive \/ Unknown \/ GetStats
  BY <1>2 DEF Hotplug, Repage, Arrive, Unknown, GetStats, Exit, RequestInv
<1>3. CASE NailIn \/ NailOut
  BY <1>3 DEF NailIn, NailOut, Nailed, NailFailed, RequestInv
<1>4. CASE GetInfo \/ CopyRanges
  BY <1>4 DEF GetInfo, CopyRanges, Exit, RequestInv
<1>5. CASE Surveyed \/ ReverseSearch \/ Answer \/ Release
  BY <1>5
  DEF Surveyed, ReverseSearch, Answer, ReadPresent, ReadSize, ReadFrame, Release, Exit, RequestInv
<1> QED BY <1>1, <1>2, <1>3, <1>4, <1>5 DEF Next, Serve

\* Every exit undoes what was done on the way to it.
LEMMA HeldStep ==
    ASSUME HeldInv, [Next]_vars
    PROVE  HeldInv'
<1>1. CASE Load \/ LoadRace \/ Scheduler \/ Survey \/ Completed \/ UNCHANGED vars
  BY <1>1 DEF Load, LoadRace, Scheduler, Survey, Completed, vars, request, HeldInv
<1>2. CASE Hotplug \/ Repage \/ Arrive \/ Unknown \/ GetStats
  BY <1>2 DEF Hotplug, Repage, Arrive, Unknown, GetStats, Exit, HeldInv
<1>3. CASE NailIn \/ NailOut
  BY <1>3 DEF NailIn, NailOut, Nailed, NailFailed, HeldInv
<1>4. CASE GetInfo \/ CopyRanges
  BY <1>4 DEF GetInfo, CopyRanges, Exit, HeldInv
<1>5. CASE Surveyed \/ ReverseSearch \/ Answer
  BY <1>5 DEF Surveyed, ReverseSearch, Answer, ReadPresent, ReadSize, ReadFrame, Exit, HeldInv
<1>6. CASE Release
  BY <1>6 DEF Release, HeldInv
<1> QED BY <1>1, <1>2, <1>3, <1>4, <1>5, <1>6 DEF Next, Serve

\* What the Go client decodes is the whole list, or it panics.
LEMMA InfoRunsWhole ==
    ASSUME NEW rs \in Memories
    PROVE  InfoRuns(rs) \in {Panic, Ranges(rs)}
<1> DEFINE out == {n \in 0 .. Len(rs) - 1 : n > GoRuns}
           bad == {n \in 0 .. Len(rs) - 1 : n = GoRuns}
<1>1. rs \in Seq(UNION {{m[n] : n \in DOMAIN m} : m \in Memories})
  BY MemoriesAssumption DEF MemoriesAssumption
<1>2. Len(rs) \in Nat /\ GoRuns \in Nat
  BY <1>1, RunsAssumption DEF RunsAssumption
<1>3. InfoRuns(rs) = IF \E n \in bad : \A m \in out : n < m THEN Panic
                     ELSE Ranges(SubSeq(rs, 1, Len(rs) - Cardinality(out)))
  BY DEF InfoRuns
<1>4. out # {} => \E n \in bad : \A m \in out : n < m
  BY <1>2
<1> HIDE DEF out, bad
<1>5. CASE \E n \in bad : \A m \in out : n < m
  BY <1>3, <1>5
<1>6. CASE ~(\E n \in bad : \A m \in out : n < m)
  <2>1. Cardinality(out) = 0
    BY <1>4, <1>6, FS_EmptySet
  <2>2. Len(rs) - Cardinality(out) = Len(rs) /\ SubSeq(rs, 1, Len(rs)) = rs
    BY <1>1, <1>2, <2>1
  <2> QED BY <1>3, <1>6, <2>2
<1> QED BY <1>5, <1>6

LEMMA RangesStep ==
    ASSUME RangesInv, [Next]_vars
    PROVE  RangesInv'
<1> USE DEF Reading
<1>1. CASE Load \/ LoadRace \/ Scheduler \/ Survey \/ Completed \/ UNCHANGED vars
  BY <1>1
  DEF Load, LoadRace, Scheduler, Survey, Completed, vars, request, world, history, RangesInv
<1>2. CASE Hotplug \/ Repage
  BY <1>2 DEF Hotplug, Repage, RangesInv
<1>3. CASE Arrive \/ Unknown
  BY <1>3 DEF Arrive, Unknown, Exit, Done, world, history, RangesInv
<1>4. CASE NailIn \/ NailOut
  BY <1>4 DEF NailIn, NailOut, Nailed, NailFailed, Done, world, history, RangesInv
<1>5. CASE GetInfo
  <2>1. /\ UNCHANGED <<memory, seenMemory, call, decoded>>
        /\ call.code = "GET_INFO" /\ pc = "dispatch"
    BY <1>5 DEF GetInfo, world, history
  <2>2. CASE /\ UNCHANGED <<output, pool>>
             /\ (Exit("INVALID_PARAMETER", 0) \/ Exit("INFO_LENGTH_MISMATCH", 0))
    BY <2>1, <2>2 DEF Exit, Done, RangesInv
  <2>3. CASE output' = InfoOf(<<>>) /\ pool' = pool /\ Exit("ACCESS_DENIED", 0)
    BY <2>1, <2>3 DEF InfoOf, Exit, Done, RangesInv
  <2>4. CASE output' = InfoOf(<<>>) /\ pool' = Block(memory) /\ pc' = "copy"
    BY <2>1, <2>4 DEF InfoOf, Block, RangesInv
  <2> QED BY <1>5, <2>2, <2>3, <2>4 DEF GetInfo
<1>6. CASE CopyRanges
  <2>1. /\ UNCHANGED <<memory, seenMemory, call, decoded>> /\ pool' = NoBlock
        /\ call.code = "GET_INFO" /\ pc = "copy"
    BY <1>6 DEF CopyRanges, world, history, RangesInv
  <2>2. CASE Exit("INFO_LENGTH_MISMATCH", 0) /\ output' = output
    BY <2>1, <2>2 DEF Exit, Done, RangesInv
  <2>3. CASE output' = InfoOf(pool.runs) /\ pc' = "kpcr"
    BY <2>1, <2>3 DEF InfoOf, RangesInv
  <2> QED BY <1>6, <2>2, <2>3 DEF CopyRanges
<1>7. CASE Surveyed \/ ReverseSearch \/ Answer \/ Release
  BY <1>7
  DEF Surveyed, ReverseSearch, Answer, ReadPresent, ReadSize, ReadFrame, Release, Exit,
      Done, world, history, RangesInv
<1>8. CASE GetStats
  <2>1. /\ UNCHANGED <<memory, seenMemory, call, pc, pool, output, io>>
        /\ call.code = "GET_INFO" /\ decoded' = InfoRuns(output.runs)
        /\ output.runs \in seenMemory /\ output.runs \in Memories
    BY <1>8 DEF GetStats, world, history, RangesInv
  <2>2. decoded' \in {Panic, Ranges(output.runs)}
    BY <2>1, InfoRunsWhole
  <2> QED BY <2>1, <2>2 DEF RangesInv
<1> QED BY <1>1, <1>2, <1>3, <1>4, <1>5, <1>6, <1>7, <1>8 DEF Next, Serve

\* What was said of a page stays true when there are more translations.
LEMMA AccountedStays ==
    ASSUME NEW page, Accounted(page), call' = call, seenPages \subseteq seenPages',
           readPages' = readPages \/ page = 0,
           Resolvable(machine', call.va) => Resolvable(machine, call.va)
    PROVE  Accounted(page)'
  BY DEF Accounted

LEMMA SearchStep ==
    ASSUME RequestInv, RangesInv, SearchInv, [Next]_vars
    PROVE  SearchInv'
<1>0. call.va \in Address
  BY DEF RequestInv, Requests
<1>1. CASE Repage
  <2>1. PICK i \in Index, e \in LeafEntries :
          machine' = [machine EXCEPT !.tables[machine.leaf][i] = e]
    BY <1>1 DEF Repage
  <2>2. /\ WellFormed(machine', call.va)
        /\ Resolvable(machine', call.va) => Resolvable(machine, call.va)
        /\ \A p : Leads(p, machine, call.va) => Leads(p, machine', call.va)
    BY <1>0, <2>1, RepageKeeps, LeafEntriesAssumption DEF SearchInv, LeafEntriesAssumption
  <2>3. /\ call' = call /\ pte' = pte /\ pc' = pc /\ pc \in {"dispatch", "answer"} \cup Reading
        /\ seenPages' = seenPages \cup {Translation(machine', call.va)}
        /\ readPages' = readPages \cup
                           IF pc \in Reading THEN {Translation(machine', call.va)} ELSE {}
    BY <1>1 DEF Repage
  <2>4. Accounted(0) => Accounted(0)'
    BY <2>2, <2>3, AccountedStays
  <2>5. pc \in Reading => Entry2(machine', call.va) = Entry2(machine, call.va)
    BY <1>0, <2>1, RepageKeeps, LeafEntriesAssumption DEF SearchInv, LeafEntriesAssumption
  <2>6. pc \in {"normal", "large"} => Sized'
    BY <2>3, <2>5 DEF SearchInv, Sized, Reading
  <2>7. pc \notin {"exit", "idle"} /\ Translation(machine', call.va) \in seenPages'
    BY <2>3 DEF Reading
  <2>8. pc \in Reading => /\ pte.found /\ Translation(machine', call.va) \in readPages'
                          /\ readPages' \subseteq seenPages' /\ readPages' # {Unmapped}
    BY <2>3 DEF SearchInv
  <2>9. /\ pte.found => Leads(pte, machine', call.va)
        /\ pc = "answer" /\ ~pte.found => Accounted(0)'
    BY <2>2, <2>4 DEF SearchInv
  <2> QED BY <2>2, <2>3, <2>6, <2>7, <2>8, <2>9 DEF SearchInv
<1>2. CASE ReverseSearch
  <2>1. /\ UNCHANGED <<machine, call, seenPages, readPages>> /\ pc = "dispatch"
        /\ call.code = "REVERSE_SEARCH_QUERY"
    BY <1>2 DEF ReverseSearch, world, history
  <2>2. CASE pc' = "exit" /\ io'.status # "SUCCESS" /\ pte' = pte
    BY <2>1, <2>2 DEF SearchInv, Reading
  <2>3. CASE pte' = VirtFindPte(machine, call.va) /\ pc' = "answer"
    <3>1. pte'.found => Leads(pte', machine, call.va)
      BY <1>0, <2>3, WalkFinds DEF SearchInv
    <3>2. ~pte'.found => Accounted(0)
      BY <1>0, <2>3, WalkFinds DEF SearchInv, Accounted
    <3>3. Accounted(0) => Accounted(0)'
      BY <2>1, AccountedStays
    <3> QED BY <2>1, <2>3, <3>1, <3>2, <3>3 DEF SearchInv, Reading
  <2> QED BY <1>2, <2>2, <2>3 DEF ReverseSearch, Exit, Done
<1> DEFINE e == machine.tables[pte.table][pte.index]
           t == Translation(machine, call.va)
           e2 == Entry2(machine, call.va)
<1>3. CASE ReadPresent
  <2>1. UNCHANGED <<machine, call, seenPages, pte>> /\ pc = "answer"
    BY <1>3 DEF ReadPresent, world
  <2>2. CASE pte.found /\ e.present
    <3>1. pc' = "size" /\ readPages' = {t}
      BY <1>3, <2>2 DEF ReadPresent, TheEntry
    <3>2. t # Unmapped /\ t \in seenPages
      <4>1. IF e2.large THEN t # Unmapped
                        ELSE t = [page |-> e.frame, level |-> 1, pat |-> e.large]
        BY <1>0, <2>2, EntryIsTranslation DEF SearchInv
      <4> HIDE DEF e, t, e2
      <4> QED BY <4>1 DEF Unmapped, SearchInv, t
    <3> QED BY <2>1, <2>2, <3>1, <3>2 DEF SearchInv
  <2>3. CASE ~(pte.found /\ e.present)
    <3>1. pc' = "exit" /\ readPages' = readPages /\ output'.page = 0
      BY <1>3, <2>3 DEF ReadPresent, TheEntry, Exit, Word
    <3>2. Accounted(0)
      <4>1. CASE ~pte.found
        BY <2>1, <4>1 DEF SearchInv
      <4>2. CASE pte.found
        <5>1. t = Unmapped
          BY <1>0, <2>3, <4>2, EntryIsTranslation DEF SearchInv
        <5> QED BY <5>1 DEF SearchInv, Accounted, Unmapped
      <4> QED BY <4>1, <4>2
    <3>3. Accounted(output.page)'
      BY <2>1, <3>1, <3>2 DEF Accounted
    <3> QED BY <2>1, <3>1, <3>3 DEF SearchInv, Reading
  <2> QED BY <2>2, <2>3
<1>4. CASE ReadSize
  <2>1. /\ UNCHANGED <<machine, call, seenPages, readPages, pte>> /\ pc = "size"
        /\ pc' = IF e.large THEN "large" ELSE "normal"
    BY <1>4 DEF ReadSize, TheEntry, world, history
  <2>2. pte.found /\ t \in readPages
    BY <2>1 DEF SearchInv, Reading
  <2>3. Sized'
    <3>1. CASE e2.large
      BY <1>0, <2>1, <2>2, <3>1, EntryIsTranslation DEF SearchInv, Sized
    <3>2. CASE ~e2.large /\ t # Unmapped
      <4>1. e \in Entry /\ t = [page |-> e.frame, level |-> 1, pat |-> e.large]
        BY <1>0, <2>2, <3>2, EntryIsTranslation DEF SearchInv
      <4>2. e.large = (pc' = "large") /\ t.level = 1 /\ t.pat = e.large
        <5> HIDE DEF e, t
        <5> QED BY <2>1, <4>1 DEF Entry
      <4> QED BY <2>1, <2>2, <3>2, <4>2 DEF Sized
    <3>3. CASE t = Unmapped
      BY <2>1, <2>2, <3>3 DEF Sized
    <3> QED BY <3>1, <3>2, <3>3
  <2>4. pc' \in {"normal", "large"}
    BY <2>1
  <2> QED BY <2>1, <2>3, <2>4 DEF SearchInv, Reading
<1>5. CASE ReadFrame
  <2>1. /\ UNCHANGED <<machine, call, seenPages, readPages, pte>> /\ pc' = "exit"
        /\ pc \in {"normal", "large"}
        /\ output'.page = PageOf(e.frame, pc = "large", call.va)
    BY <1>5 DEF ReadFrame, TheEntry, Word, Exit, world, history
  <2>2. pte.found /\ t \in readPages /\ readPages \subseteq seenPages /\ Sized
        /\ readPages # {Unmapped} /\ Leads(pte, machine, call.va)
        /\ WellFormed(machine, call.va)
    BY <2>1 DEF SearchInv, Reading
  <2>3. call.va[1] \in Nat
    BY <1>0, AddressFacts, FanoutAssumption DEF Index, FanoutAssumption
  <2>4. Accounted(output'.page)
    <3>1. CASE Unmapped \in readPages
      BY <2>2, <3>1 DEF Accounted, Unmapped
    <3>2. CASE Unmapped \notin readPages /\ e2.large
      <4>1. /\ e.frame + call.va[1] = t.page + Astray(t, call.va)
            /\ t.page # 0 => e.frame + call.va[1] # 0
        BY <1>0, <2>2, <3>2, EntryIsTranslation
      <4>2. output'.page = e.frame + call.va[1]
        BY <2>1, <2>2, <3>2 DEF Sized, PageOf
      <4> HIDE DEF e, t
      <4> QED BY <2>2, <4>1, <4>2 DEF Accounted
    <3>3. CASE Unmapped \notin readPages /\ ~e2.large
      <4>1. PICK u \in readPages : u.level = 1 /\ u.pat = (pc = "large")
        BY <2>2, <3>3 DEF Sized
      <4>2. e \in Entry /\ t = [page |-> e.frame, level |-> 1, pat |-> e.large]
        BY <1>0, <2>2, <3>3, EntryIsTranslation
      <4>3. e.frame \in Nat /\ t.page = e.frame
        BY <4>2 DEF Entry
      <4> HIDE DEF e, t
      <4>4. output'.page = t.page + (IF pc = "large" THEN call.va[1] ELSE 0)
        BY <2>1, <2>3, <4>3 DEF PageOf
      <4>5. Astray(u, call.va) = IF pc = "large" THEN call.va[1] ELSE 0
        BY <4>1 DEF Astray
      <4> QED BY <2>2, <2>3, <4>1, <4>3, <4>4, <4>5 DEF Accounted
    <3> QED BY <3>1, <3>2, <3>3
  <2>5. Accounted(output.page)'
    BY <2>1, <2>4 DEF Accounted
  <2> QED BY <2>1, <2>5 DEF SearchInv, Reading
<1>6. CASE UNCHANGED <<machine, call, seenPages, readPages, pte, output, io>> /\ pc' = pc
  BY <1>6 DEF SearchInv, Accounted, Sized
<1>7. CASE \/ Load \/ LoadRace \/ Scheduler \/ Survey \/ Hotplug
           \/ GetStats \/ Completed \/ UNCHANGED vars
  <2>1. UNCHANGED <<machine, call, seenPages, readPages, pte, output, io, pc>>
    BY <1>7 DEF Load, LoadRace, Scheduler, Survey, Hotplug, GetStats, Completed, vars, request,
                world, history
  <2> QED BY <1>6, <2>1
<1>8. CASE Arrive \/ NailIn \/ NailOut \/ Unknown
  <2>1. /\ UNCHANGED <<machine, call, seenPages, readPages, pte>>
        /\ pc' \in {"nail_in", "nail_out", "dispatch"}
           \/ (pc' = "exit" /\ io'.status # "SUCCESS")
    <3>1. UNCHANGED <<machine, call, seenPages, readPages, pte>>
      BY <1>8 DEF Arrive, NailIn, NailOut, Unknown, world, history
    <3>2. Exit("INVALID_PARAMETER", 0) \/ NailFailed => io'.status # "SUCCESS"
      BY DEF Exit, NailFailed, Done
    <3>3. /\ Arrive => pc' = "nail_in"
          /\ NailIn \/ NailOut =>
                pc' \in {"nail_out", "dispatch"} \/ (pc' = "exit" /\ NailFailed)
          /\ Unknown => pc' = "exit" /\ Exit("INVALID_PARAMETER", 0)
      BY DEF Arrive, NailIn, NailOut, Unknown, Exit
    <3> QED BY <1>8, <3>1, <3>2, <3>3
  <2> QED BY <2>1 DEF SearchInv, Reading
<1>9. CASE GetInfo \/ CopyRanges \/ Surveyed
  <2>1. /\ UNCHANGED <<machine, call, seenPages, readPages, pte>> /\ call.code = "GET_INFO"
        /\ pc' \in {"copy", "kpcr", "exit"}
    BY <1>9 DEF GetInfo, CopyRanges, Surveyed, Exit, RangesInv, world, history
  <2> QED BY <2>1 DEF SearchInv, Reading
<1>10. CASE Release
  <2>1. /\ UNCHANGED <<machine, call, seenPages, readPages, pte, output, io>>
        /\ pc' = "idle" /\ pc = "exit"
    BY <1>10 DEF Release, world, history
  <2> QED BY <2>1 DEF SearchInv, Reading, Accounted
<1> QED BY <1>1, <1>2, <1>3, <1>4, <1>5, <1>7, <1>8, <1>9, <1>10 DEF Next, Serve, Answer

LEMMA SurveyNext ==
    ASSUME SurveyInv, [Next]_vars
    PROVE  SurveyInv'
<1>1. CASE Survey
  BY <1>1, SurveyStep DEF Survey, request
<1>2. CASE Scheduler
  BY <1>2, SurveyStep DEF Scheduler, request
<1>3. CASE Surveyed
  BY <1>3, SurveyStep DEF Surveyed, Exit
<1>4. CASE CopyRanges
  <2>1. CASE processors' = processors /\ pc' = "exit"
    BY <2>1, SurveyStays
  <2>2. CASE pc' = "kpcr" /\ CallGetKPCR
    <3>1. /\ survey' = [NoSurvey EXCEPT !.pc = "called"]
          /\ active' = active /\ cpu' = cpu /\ affinity' = affinity /\ affinity = Processors
      BY <1>4, <2>2 DEF CopyRanges, CallGetKPCR, SurveyInv
    <3> QED BY <2>2, <3>1 DEF NoSurvey, SurveyInv
  <2> QED BY <1>4, <2>1, <2>2 DEF CopyRanges, Exit
<1>5. CASE Load \/ LoadRace \/ Completed \/ UNCHANGED vars
  BY <1>5, SurveyStays DEF Load, LoadRace, Completed, vars, kernel, request
<1>6. CASE Hotplug \/ Repage \/ Arrive \/ NailIn \/ NailOut \/ Unknown
  BY <1>6, SurveyStays DEF Hotplug, Repage, Arrive, NailIn, NailOut, Unknown, Exit, kernel
<1>7. CASE GetInfo \/ ReverseSearch \/ Answer \/ Release \/ GetStats
  BY <1>7, SurveyStays
  DEF GetInfo, ReverseSearch, Answer, ReadPresent, ReadSize, ReadFrame, Release, GetStats,
      Exit, kernel
<1> QED BY <1>1, <1>2, <1>3, <1>4, <1>5, <1>6, <1>7 DEF Next, Serve

LEMMA LookupNext ==
    ASSUME LookupInv, [Next]_vars
    PROVE  LookupInv'
<1>1. CASE Load
  BY <1>1, LookUpStep DEF Load
<1>2. CASE LoadRace
  BY <1>2, ModulesStep DEF LoadRace
<1>3. CASE UNCHANGED facts
  BY <1>3 DEF facts, LookupInv
<1>4. CASE Completed \/ UNCHANGED vars
  BY <1>3, <1>4 DEF Completed, vars, kernel
<1> QED
  BY <1>1, <1>2, <1>3, <1>4
  DEF Next, Serve, Hotplug, Repage, Scheduler, Arrive, NailIn, NailOut, Unknown, GetInfo,
      CopyRanges, Survey, Surveyed, ReverseSearch, Answer, ReadPresent, ReadSize, ReadFrame,
      Release, GetStats, kernel

\* The invariants hold in every behaviour of a request, and of the loading before it.
THEOREM Invariance == Spec => []IInv
<1>1. IInv /\ [Next]_vars => IInv'
  BY RequestStep, HeldStep, RangesStep, SearchStep, SurveyNext, LookupNext DEF IInv
<1> QED BY <1>1, InitInv, PTL DEF Spec

-----------------------------------------------------------------------------
\* Every variable has its type.
THEOREM TypeCorrect == Spec => []TypeOK
<1>1. IInv => FactsTypeOK
  BY DEF IInv, LookupInv, SurveyInv, NtBase, FactsTypeOK
<1>2. ASSUME IInv PROVE pte.found => pte.table \in DOMAIN machine.tables /\ pte.index \in Index
  <2>1. call.va \in Address
    BY <1>2 DEF IInv, RequestInv, Requests
  <2> QED BY <1>2, <2>1, AddressFacts DEF IInv, SearchInv, Leads, WellFormed
<1>3. IInv => TypeOK
  BY <1>1, <1>2 DEF IInv, RequestInv, HeldInv, RangesInv, SearchInv, TypeOK
<1> QED BY <1>3, Invariance, PTL

\* A request that is completed holds neither an MDL nor the list's block, a lookup that
\* is over not its buffer, whatever failed.
THEOREM NothingIsHeld == Spec => []NothingHeld
<1>1. IInv => NothingHeld
  BY DEF IInv, HeldInv, LookupInv, NothingHeld
<1> QED BY <1>1, Invariance, PTL

\* The information of a call is of one moment, and the Go client works on all of it.
THEOREM InfoIsOfOneMoment == Spec => []InfoIsSnapshot
<1>1. IInv => InfoIsSnapshot
  BY DEF IInv, RangesInv, Ranges, Nothing, Panic, InfoIsSnapshot
<1> QED BY <1>1, Invariance, PTL

\* The kernel's base is the kernel's, and known if nothing disturbed the lookup.
THEOREM BaseIsKernels == Spec => []KernelBaseIsKernels
<1>1. IInv => KernelBaseIsKernels
  BY DEF IInv, LookupInv, KernelBaseIsKernels
<1> QED BY <1>1, Invariance, PTL

\* Wherever the scheduler has the thread, each processor's slot gets its own KPCR.
THEOREM KpcrsAreTheirOwn == Spec => []KpcrsAreOwn
<1>1. ASSUME IInv PROVE KpcrsAreOwn
  <2> SUFFICES ASSUME survey.pc = "done"
               PROVE  survey.kpcr = [p \in Processors |->
                                       IF p \in survey.mask THEN Kpcr(p) ELSE 0]
    BY DEF KpcrsAreOwn
  <2>1. survey.kpcr \in [Processors -> Nat] /\ survey.mask \in SUBSET Processors /\ Due = {}
    BY <1>1 DEF IInv, SurveyInv
  <2>2. \A p \in Processors : survey.kpcr[p] = IF p \in survey.mask THEN Kpcr(p) ELSE 0
    BY <1>1, <2>1 DEF IInv, SurveyInv, Due
  <2> QED BY <2>1, <2>2
<1> QED BY <1>1, Invariance, PTL

\* Whatever becomes of the page between the walk and the reads of its entry, and between
\* these, a reverse search that names a page names one the address was mapped to while the
\* entry was read, or the page was unmapped under the reads; and it names one if it always
\* was mapped.
THEOREM ReverseSearchIsRight == Spec => []ReverseIsTranslation
<1>1. IInv => ReverseIsTranslation
  BY DEF IInv, SearchInv, Accounted, ReverseIsTranslation
<1> QED BY <1>1, Invariance, PTL
=============================================================================

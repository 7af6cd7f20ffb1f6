--------------------------- MODULE GoReadAtProofs ---------------------------
(***************************************************************************)
(* Theorems about ReadAt, for any number of goroutines, every list of      *)
(* ranges, every set of hidden pages, any requests and any page size: what *)
(* the run that getRun remembers may change of its answers (in ranges      *)
(* nothing, in gaps where the answer begins), and that a reader that seeks *)
(* reads where it has sought, unless callers run ReadAt and WriteTo        *)
(* together.                                                               *)
(***************************************************************************)
EXTENDS GoReadAt, SequenceTheorems, WellFoundedInduction, TLAPS

\* Where a reader is when it has the mutex.
Inside == {"read", "seek", "bulk", "pageseek", "pageread"}

\* The shape of the state.
ShapeInv ==
    /\ layout \in Layouts
    /\ fp \in Nat
    /\ pc \in [Readers -> Inside \cup {"idle", "lock"}]
    /\ req \in [Readers -> [offset : Nat, len : Nat]]
    /\ i \in [Readers -> Nat]
    /\ k \in [Readers -> Nat]
    /\ to_read \in [Readers -> Nat]
    /\ result \in [Readers -> [n : Nat, err : {"none", "nil", "error", "panic"}]]
    /\ writer \in [pc : {"idle", "read"}, offset : Nat]

\* The reader that is inside has the mutex, and no other is; a WriteTo that reads is alone.
MutexInv ==
    /\ mu \in Readers \cup {Nobody}
    /\ \A g \in Readers : pc[g] \in Inside <=> mu = g
    /\ ~Together => (writer.pc = "read" => \A g \in Readers : pc[g] = "idle")

\* The loops stay in the buffer.
RoomInv == \A g \in Readers :
    /\ i[g] <= req[g].len
    /\ pc[g] \in {"seek", "bulk", "pageseek", "pageread"} => i[g] + to_read[g] <= req[g].len
    /\ result[g].n <= req[g].len

\* The run that is remembered is one of the ranges, or the end of the gap before one.
Genuine(run) ==
    /\ run \in [Address : Nat, Size : Nat, Sparse : BOOLEAN]
    /\ \/ run.Size = 0
       \/ \E n \in DOMAIN layout.runs :
             LET r == layout.runs[n]
             IN  IF run.Sparse
                 THEN /\ run.Address + run.Size = r.base
                      /\ \A m \in DOMAIN layout.runs :
                            m < n => layout.runs[m].base + layout.runs[m].len <= run.Address
                 ELSE run.Address = r.base /\ run.Size = r.len

MemoryInv == Genuine(last_run)

IInv == ShapeInv /\ MutexInv /\ RoomInv /\ MemoryInv

-----------------------------------------------------------------------------
(* Facts about ranges.                                                       *)

\* A set of numbers that is not empty has a least one.
LEMMA Least ==
    ASSUME NEW S, S \subseteq Nat, S # {}
    PROVE  Min(S) \in S /\ \A y \in S : Min(S) <= y
<1> DEFINE R == {ss \in Nat \X Nat : ss[1] < ss[2]}
<1>1. IsWellFoundedOn(R, Nat)
  BY NatLessThanWellFounded DEF OpToRel
<1>2. \A a, b \in Nat : a < b => <<a, b>> \in R
  OBVIOUS
<1> HIDE DEF R
<1>3. PICK x \in S : \A y \in S : ~(<<y, x>> \in R)
  BY <1>1, WFMin
<1>4. \A y \in S : x <= y
  <2> SUFFICES ASSUME NEW y \in S PROVE x <= y
    OBVIOUS
  <2>1. x \in Nat /\ y \in Nat /\ ~(y < x)
    BY <1>2, <1>3
  <2> QED BY <2>1
<1> QED BY <1>4 DEF Min

\* The end of a range.
EndOf(n) == layout.runs[n].base + layout.runs[n].len

\* The ranges of the memory, and their order.
LEMMA RunFacts ==
    ASSUME layout \in Layouts
    PROVE  /\ DOMAIN layout.runs \subseteq Nat
           /\ \A n \in DOMAIN layout.runs :
                 /\ layout.runs[n].base \in Nat /\ layout.runs[n].len \in Nat \ {0}
                 /\ EndOf(n) \in Nat /\ layout.runs[n].base < EndOf(n)
           /\ \A a, b \in DOMAIN layout.runs : a < b => EndOf(a) <= layout.runs[b].base
<1>1. layout.runs \in Seq([base : Nat, len : Nat \ {0}])
  BY LayoutsAssumption DEF LayoutsAssumption
<1>2. DOMAIN layout.runs = 1 .. Len(layout.runs) /\ Len(layout.runs) \in Nat
  BY <1>1
<1>3. ASSUME NEW n \in DOMAIN layout.runs
      PROVE  layout.runs[n] \in [base : Nat, len : Nat \ {0}]
  BY <1>1, <1>2, ElementOfSeq
<1>4. \A a, b \in DOMAIN layout.runs : a < b => EndOf(a) <= layout.runs[b].base
  BY LayoutsAssumption DEF LayoutsAssumption, EndOf
<1> QED BY <1>2, <1>3, <1>4 DEF EndOf

\* The first range that ends behind an offset, if there is one.
LEMMA SearchFacts ==
    ASSUME layout \in Layouts, NEW o \in Nat
    PROVE  \/ /\ \A n \in DOMAIN layout.runs : ~(o < EndOf(n))
              /\ FoundRun(o) = NoRun
           \/ \E n \in DOMAIN layout.runs :
                 /\ o < EndOf(n)
                 /\ \A m \in DOMAIN layout.runs : m < n => EndOf(m) <= o
                 /\ FoundRun(o) =
                      IF o < layout.runs[n].base
                      THEN [Address |-> o, Size |-> layout.runs[n].base - o, Sparse |-> TRUE]
                      ELSE [Address |-> layout.runs[n].base, Size |-> layout.runs[n].len,
                            Sparse |-> FALSE]
<1> DEFINE found == {n \in DOMAIN layout.runs : o < EndOf(n)}
<1>1. found = {n \in DOMAIN layout.runs : o < layout.runs[n].base + layout.runs[n].len}
  BY DEF EndOf
<1>2. found \subseteq Nat /\ \A n \in DOMAIN layout.runs : n \in Nat /\ EndOf(n) \in Nat
  BY RunFacts
<1>3. CASE found = {}
  BY <1>1, <1>3 DEF FoundRun
<1>4. CASE found # {}
  <2>1. Min(found) \in found /\ \A m \in found : Min(found) <= m
    BY <1>2, <1>4, Least
  <2>2. \A m \in DOMAIN layout.runs : m < Min(found) => EndOf(m) <= o
    BY <1>2, <2>1
  <2>3. FoundRun(o) =
          IF o < layout.runs[Min(found)].base
          THEN [Address |-> o, Size |-> layout.runs[Min(found)].base - o, Sparse |-> TRUE]
          ELSE [Address |-> layout.runs[Min(found)].base, Size |-> layout.runs[Min(found)].len,
                Sparse |-> FALSE]
    BY <1>1, <1>4 DEF FoundRun
  <2> QED BY <2>1, <2>2, <2>3
<1> QED BY <1>3, <1>4

\* What a search finds may be remembered.
LEMMA FoundIsGenuine ==
    ASSUME layout \in Layouts, NEW o \in Nat
    PROVE  Genuine(FoundRun(o))
<1>1. CASE FoundRun(o) = NoRun
  BY <1>1 DEF Genuine, NoRun
<1>2. ASSUME NEW n \in DOMAIN layout.runs,
             o < EndOf(n), \A m \in DOMAIN layout.runs : m < n => EndOf(m) <= o,
             FoundRun(o) =
               IF o < layout.runs[n].base
               THEN [Address |-> o, Size |-> layout.runs[n].base - o, Sparse |-> TRUE]
               ELSE [Address |-> layout.runs[n].base, Size |-> layout.runs[n].len,
                     Sparse |-> FALSE]
      PROVE  Genuine(FoundRun(o))
  <2>1. layout.runs[n].base \in Nat /\ layout.runs[n].len \in Nat
    BY <1>2, RunFacts
  <2>2. CASE o < layout.runs[n].base
    BY <1>2, <2>1, <2>2 DEF Genuine, EndOf
  <2>3. CASE ~(o < layout.runs[n].base)
    BY <1>2, <2>1, <2>3 DEF Genuine
  <2> QED BY <2>2, <2>3
<1> QED BY <1>1, <1>2, SearchFacts

\* An offset before the end of range n, and not before the end of any range before it.
LEMMA SearchFinds ==
    ASSUME layout \in Layouts, NEW o \in Nat, NEW n \in DOMAIN layout.runs,
           o < EndOf(n), \A m \in DOMAIN layout.runs : m < n => EndOf(m) <= o
    PROVE  FoundRun(o) =
             IF o < layout.runs[n].base
             THEN [Address |-> o, Size |-> layout.runs[n].base - o, Sparse |-> TRUE]
             ELSE [Address |-> layout.runs[n].base, Size |-> layout.runs[n].len,
                   Sparse |-> FALSE]
<1>1. \A m \in DOMAIN layout.runs : m \in Nat /\ EndOf(m) \in Nat
  BY RunFacts
<1>2. PICK l \in DOMAIN layout.runs :
        /\ o < EndOf(l)
        /\ \A m \in DOMAIN layout.runs : m < l => EndOf(m) <= o
        /\ FoundRun(o) =
             IF o < layout.runs[l].base
             THEN [Address |-> o, Size |-> layout.runs[l].base - o, Sparse |-> TRUE]
             ELSE [Address |-> layout.runs[l].base, Size |-> layout.runs[l].len, Sparse |-> FALSE]
  BY SearchFacts
<1>3. l = n
  BY <1>1, <1>2
<1> QED BY <1>2, <1>3

\* What getRun may say of an offset, compared with what a search finds.
Agrees(run, o) ==
    IF InGap(o)
    THEN /\ run.Sparse /\ run.Address <= o
         /\ run.Address + run.Size = FoundRun(o).Address + FoundRun(o).Size
         /\ \A b \in run.Address .. o : InGap(b)
    ELSE run = FoundRun(o)

\* A remembered run that may answer: the range of the offset, or the end of its gap.
LEMMA RememberedAgrees ==
    ASSUME layout \in Layouts, Genuine(last_run), NEW o \in Nat, Remembered(o)
    PROVE  Agrees(last_run, o)
<1>1. /\ last_run \in [Address : Nat, Size : Nat, Sparse : BOOLEAN]
      /\ last_run.Address \in Nat /\ last_run.Size \in Nat /\ last_run.Sparse \in BOOLEAN
      /\ last_run.Address <= o /\ o < last_run.Address + last_run.Size
  BY DEF Genuine, Remembered, Contains
<1>2. PICK n \in DOMAIN layout.runs :
        IF last_run.Sparse
        THEN /\ last_run.Address + last_run.Size = layout.runs[n].base
             /\ \A m \in DOMAIN layout.runs :
                   m < n => layout.runs[m].base + layout.runs[m].len <= last_run.Address
        ELSE last_run.Address = layout.runs[n].base /\ last_run.Size = layout.runs[n].len
  BY <1>1 DEF Genuine
<1>3. \A m \in DOMAIN layout.runs :
        /\ m \in Nat /\ layout.runs[m].base \in Nat /\ layout.runs[m].len \in Nat \ {0}
        /\ EndOf(m) \in Nat /\ EndOf(m) = layout.runs[m].base + layout.runs[m].len
        /\ layout.runs[m].base < EndOf(m)
  BY RunFacts DEF EndOf
<1>4. CASE last_run.Sparse
  <2>1. ASSUME NEW b \in last_run.Address .. o
        PROVE  /\ FoundRun(b) = [Address |-> b, Size |-> layout.runs[n].base - b, Sparse |-> TRUE]
               /\ b \in Nat /\ b < layout.runs[n].base
    <3>1. b \in Nat /\ b < layout.runs[n].base
      BY <1>1, <1>2, <1>3, <1>4
    <3>2. b < EndOf(n)
      BY <1>3, <3>1
    <3>3. \A m \in DOMAIN layout.runs : m < n => EndOf(m) <= last_run.Address
      BY <1>2, <1>4 DEF EndOf
    <3>4. \A m \in DOMAIN layout.runs : m < n => EndOf(m) <= b
      BY <1>1, <1>3, <3>1, <3>3
    <3> QED BY <3>1, <3>2, <3>4, SearchFinds
  <2>2. ASSUME NEW b \in last_run.Address .. o PROVE InGap(b)
    <3>1. FoundRun(b).Size = layout.runs[n].base - b /\ FoundRun(b).Sparse
      BY <2>1
    <3>2. FoundRun(b).Size # 0
      BY <1>3, <2>1, <3>1
    <3> QED BY <3>1, <3>2 DEF InGap, NoRun
  <2>3. o \in last_run.Address .. o
    BY <1>1
  <2>4. FoundRun(o).Address = o /\ FoundRun(o).Size = layout.runs[n].base - o
    BY <2>1, <2>3
  <2>5. last_run.Address + last_run.Size = FoundRun(o).Address + FoundRun(o).Size
    BY <1>1, <1>2, <1>3, <1>4, <2>4
  <2> QED BY <1>1, <1>4, <2>2, <2>3, <2>5 DEF Agrees
<1>5. CASE ~last_run.Sparse
  <2>1. last_run.Address = layout.runs[n].base /\ last_run.Size = layout.runs[n].len
    BY <1>2, <1>5
  <2>2. o < EndOf(n) /\ ~(o < layout.runs[n].base)
    BY <1>1, <1>3, <2>1
  <2>3. \A m \in DOMAIN layout.runs : m < n => EndOf(m) <= layout.runs[n].base
    BY RunFacts
  <2>4. \A m \in DOMAIN layout.runs : m < n => EndOf(m) <= o
    BY <1>3, <2>2, <2>3
  <2>5. FoundRun(o) = [Address |-> layout.runs[n].base, Size |-> layout.runs[n].len,
                       Sparse |-> FALSE]
    BY <2>2, <2>4, SearchFinds
  <2>6. last_run = [Address |-> layout.runs[n].base, Size |-> layout.runs[n].len,
                    Sparse |-> FALSE]
    BY <1>1, <1>5, <2>1
  <2>7. ~InGap(o)
    BY <2>5 DEF InGap
  <2> QED BY <2>5, <2>6, <2>7 DEF Agrees
<1> QED BY <1>4, <1>5

\* What a search finds agrees with itself.
LEMMA FoundAgrees ==
    ASSUME layout \in Layouts, NEW o \in Nat
    PROVE  Agrees(FoundRun(o), o)
<1>1. CASE ~InGap(o)
  BY <1>1 DEF Agrees
<1>2. CASE InGap(o)
  <2>1. PICK n \in DOMAIN layout.runs :
          FoundRun(o) =
            IF o < layout.runs[n].base
            THEN [Address |-> o, Size |-> layout.runs[n].base - o, Sparse |-> TRUE]
            ELSE [Address |-> layout.runs[n].base, Size |-> layout.runs[n].len, Sparse |-> FALSE]
    BY <1>2, SearchFacts DEF InGap
  <2>2. FoundRun(o).Address = o /\ FoundRun(o).Sparse
    BY <1>2, <2>1 DEF InGap
  <2>3. \A b \in o .. o : b = o
    OBVIOUS
  <2> QED BY <1>2, <2>2, <2>3 DEF Agrees
<1> QED BY <1>1, <1>2

\* So getRun tells of every offset what it may.
LEMMA GetRunAgrees ==
    ASSUME layout \in Layouts, MemoryInv, NEW o \in Nat
    PROVE  Genuine(GetRun(o)) /\ Agrees(GetRun(o), o)
<1>1. CASE Remembered(o)
  BY <1>1, RememberedAgrees DEF GetRun, MemoryInv
<1>2. CASE ~Remembered(o)
  BY <1>2, FoundIsGenuine, FoundAgrees DEF GetRun
<1> QED BY <1>1, <1>2

-----------------------------------------------------------------------------
(* The invariant.                                                            *)

LEMMA InitInv == Init => IInv
<1> SUFFICES ASSUME Init PROVE IInv
  OBVIOUS
<1>1. ShapeInv
  BY DEF Init, ShapeInv, NoResult
<1>2. MutexInv
  BY NobodyAssumption DEF Init, MutexInv, Inside, NobodyAssumption
<1>3. RoomInv
  BY DEF Init, RoomInv, NoResult
<1>4. MemoryInv
  BY DEF Init, MemoryInv, Genuine, NoRun
<1> QED BY <1>1, <1>2, <1>3, <1>4 DEF IInv

\* A step of a reader that has the mutex, and keeps it or gives it back.
LEMMA InsideKeeps ==
    ASSUME IInv, NEW g \in Readers, pc[g] \in Inside,
           pc' \in [Readers -> Inside \cup {"idle", "lock"}],
           layout' = layout, writer' = writer,
           \A h \in Readers \ {g} : pc'[h] = pc[h],
           \/ pc'[g] \in Inside /\ mu' = mu
           \/ pc'[g] = "idle" /\ mu' = Nobody
    PROVE  MutexInv'
<1>1. mu = g /\ \A h \in Readers \ {g} : pc[h] \notin Inside
  BY DEF IInv, MutexInv
<1>2. pc[g] # "idle" /\ g # Nobody
  BY NobodyAssumption DEF Inside, NobodyAssumption
<1>3. "idle" \notin Inside
  BY DEF Inside
<1> QED BY <1>1, <1>2, <1>3, NobodyAssumption DEF IInv, MutexInv, NobodyAssumption

\* What getRun finds is remembered.
LEMMA RememberKeeps ==
    ASSUME layout \in Layouts, MemoryInv, NEW o \in Nat, Remember(GetRun(o)), layout' = layout
    PROVE  MemoryInv'
<1>1. Genuine(last_run')
  BY GetRunAgrees DEF Remember, MemoryInv
<1> QED BY <1>1 DEF MemoryInv, Genuine

\* Got, for n bytes that fit into what is left of the buffer.
LEMMA GotKeeps ==
    ASSUME IInv, NEW g \in Readers, pc[g] \in Inside, NEW n \in Nat, n <= Room(g), Got(g, n),
           UNCHANGED <<layout, fp, req, writer>>
    PROVE  ShapeInv' /\ RoomInv' /\ MutexInv'
<1>1. /\ i[g] \in Nat /\ req[g].len \in Nat /\ i[g] + n <= req[g].len
      /\ k[g] \in Nat /\ to_read[g] \in Nat
  BY DEF IInv, ShapeInv, Room
<1>2. CASE Return(g, i[g] + n, "nil")
  <2>1. ShapeInv'
    BY <1>1, <1>2 DEF IInv, ShapeInv, Return
  <2>2. RoomInv'
    BY <1>1, <1>2 DEF IInv, ShapeInv, RoomInv, Return
  <2>3. MutexInv'
    BY <1>2, <2>1, InsideKeeps DEF IInv, ShapeInv, Return
  <2> QED BY <2>1, <2>2, <2>3
<1>3. CASE /\ i' = [i EXCEPT ![g] = @ + n]
           /\ pc' = [pc EXCEPT ![g] = "read"]
           /\ UNCHANGED <<mu, k, to_read, result>>
  <2>1. ShapeInv'
    BY <1>1, <1>3 DEF IInv, ShapeInv, Inside
  <2>2. RoomInv'
    BY <1>1, <1>3 DEF IInv, ShapeInv, RoomInv
  <2>3. pc'[g] \in Inside /\ \A h \in Readers \ {g} : pc'[h] = pc[h]
    BY <1>3 DEF IInv, ShapeInv, Inside
  <2>4. MutexInv'
    BY <1>3, <2>1, <2>3, InsideKeeps DEF ShapeInv
  <2> QED BY <2>1, <2>2, <2>4
<1> QED BY <1>2, <1>3 DEF Got

\* Return before anything more was read.
LEMMA ReturnKeeps ==
    ASSUME IInv, NEW g \in Readers, pc[g] \in Inside, NEW err \in {"error", "panic"},
           Return(g, i[g], err), UNCHANGED <<layout, fp, req, writer>>
    PROVE  ShapeInv' /\ RoomInv' /\ MutexInv'
<1>1. i[g] \in Nat /\ req[g].len \in Nat /\ i[g] <= req[g].len
  BY DEF IInv, ShapeInv, RoomInv
<1>2. ShapeInv'
  BY <1>1 DEF IInv, ShapeInv, Return
<1>3. RoomInv'
  BY <1>1 DEF IInv, ShapeInv, RoomInv, Return
<1>4. MutexInv'
  BY <1>2, InsideKeeps DEF IInv, ShapeInv, Return
<1> QED BY <1>2, <1>3, <1>4

\* A step of a reader inside, that neither gives the mutex back nor changes its place in
\* the buffer.
LEMMA WithinKeeps ==
    ASSUME IInv, NEW g \in Readers, pc[g] \in Inside, NEW q \in Inside,
           pc' = [pc EXCEPT ![g] = q],
           fp' \in Nat, k' \in [Readers -> Nat], to_read' \in [Readers -> Nat],
           \A h \in Readers \ {g} : to_read'[h] = to_read[h],
           i[g] + to_read'[g] <= req[g].len,
           UNCHANGED <<layout, mu, req, i, result, writer>>
    PROVE  ShapeInv' /\ RoomInv' /\ MutexInv'
<1>1. ShapeInv'
  BY DEF IInv, ShapeInv
<1>2. RoomInv'
  BY DEF IInv, ShapeInv, RoomInv
<1>3. pc'[g] \in Inside /\ \A h \in Readers \ {g} : pc'[h] = pc[h]
  BY DEF IInv, ShapeInv
<1>4. MutexInv'
  BY <1>1, <1>3, InsideKeeps DEF ShapeInv
<1> QED BY <1>1, <1>2, <1>4

LEMMA AdvanceInv ==
    ASSUME IInv, NEW g \in Readers, Advance(g)
    PROVE  IInv'
<1>1. /\ layout \in Layouts /\ MemoryInv /\ fp \in Nat
      /\ i[g] \in Nat /\ k[g] \in Nat /\ to_read[g] \in Nat
      /\ req[g].len \in Nat /\ req[g].offset \in Nat /\ i[g] <= req[g].len
      /\ k \in [Readers -> Nat] /\ to_read \in [Readers -> Nat]
  BY DEF IInv, ShapeInv, RoomInv
<1>2. At(g) \in Nat /\ Room(g) \in Nat
  BY <1>1 DEF At, Room
<1>3. pc[g] \in {"seek", "bulk", "pageseek", "pageread"} => i[g] + to_read[g] <= req[g].len
  BY DEF IInv, RoomInv
<1>4. UNCHANGED <<layout, last_run>> => MemoryInv'
  BY <1>1 DEF MemoryInv, Genuine
<1>5. CASE ReadNothing(g)
  BY <1>1, <1>2, <1>4, <1>5, GotKeeps DEF ReadNothing, GotNothing, Inside, IInv
<1>6. CASE ReadGap(g)
  <2> DEFINE n == Smaller(GetRun(At(g)).Size, Room(g))
  <2>1. GetRun(At(g)).Size \in Nat
    BY <1>1, <1>2, GetRunAgrees DEF Genuine
  <2>2. n \in Nat /\ n <= Room(g)
    BY <1>2, <2>1 DEF Smaller
  <2>3. /\ pc[g] = "read" /\ Remember(GetRun(At(g))) /\ Got(g, n)
        /\ UNCHANGED <<layout, fp, req, writer>>
    BY <1>6 DEF ReadGap
  <2> HIDE DEF n
  <2>4. MemoryInv'
    BY <1>1, <1>2, <2>3, RememberKeeps
  <2>5. ShapeInv' /\ RoomInv' /\ MutexInv'
    BY <2>2, <2>3, GotKeeps DEF Inside
  <2> QED BY <2>4, <2>5 DEF IInv
<1>7. CASE ReadRange(g)
  <2> DEFINE n == Smaller(GetRun(At(g)).Size, Room(g))
  <2>1. GetRun(At(g)).Size \in Nat
    BY <1>1, <1>2, GetRunAgrees DEF Genuine
  <2>2. n \in Nat /\ i[g] + n <= req[g].len
    BY <1>1, <1>2, <2>1 DEF Smaller, Room
  <2>3. /\ pc[g] = "read" /\ Remember(GetRun(At(g)))
        /\ to_read' = [to_read EXCEPT ![g] = n]
        /\ pc' = [pc EXCEPT ![g] = "seek"]
        /\ UNCHANGED <<layout, mu, fp, req, i, k, buf, result, writer>>
    BY <1>7 DEF ReadRange
  <2> HIDE DEF n
  <2>4. MemoryInv'
    BY <1>1, <1>2, <2>3, RememberKeeps
  <2>5. /\ to_read' \in [Readers -> Nat] /\ i[g] + to_read'[g] <= req[g].len
        /\ \A h \in Readers \ {g} : to_read'[h] = to_read[h]
    BY <1>1, <2>2, <2>3
  <2>6. ShapeInv' /\ RoomInv' /\ MutexInv'
    BY <1>1, <2>3, <2>5, WithinKeeps DEF Inside
  <2> QED BY <2>4, <2>6 DEF IInv
<1>8. CASE Seek(g)
  <2>1. ShapeInv' /\ RoomInv' /\ MutexInv'
    BY <1>1, <1>2, <1>3, <1>8, WithinKeeps DEF Seek, Inside
  <2> QED BY <1>4, <1>8, <2>1 DEF Seek, IInv
<1>9. CASE SeekFails(g)
  BY <1>1, <1>2, <1>4, <1>9, GotKeeps DEF SeekFails, GotNothing, Inside, IInv
<1>10. CASE Bulk(g)
  BY <1>4, <1>10, ReturnKeeps DEF Bulk, Inside, IInv
<1>11. CASE BulkFails(g)
  <2>1. ShapeInv' /\ RoomInv' /\ MutexInv'
    BY <1>1, <1>3, <1>11, WithinKeeps DEF BulkFails, Inside
  <2> QED BY <1>4, <1>11, <2>1 DEF BulkFails, IInv
<1>12. CASE PageSeek(g)
  <2>1. fp' \in Nat
    BY <1>1, <1>2, <1>12 DEF PageSeek
  <2>2. ShapeInv' /\ RoomInv' /\ MutexInv'
    BY <1>1, <1>3, <1>12, <2>1, WithinKeeps DEF PageSeek, Inside
  <2> QED BY <1>4, <1>12, <2>2 DEF PageSeek, IInv
<1>13. CASE PageRead(g)
  <2>1. k' = [k EXCEPT ![g] = @ + PAGE_SIZE] /\ PAGE_SIZE \in Nat
    BY <1>13, PageSizeAssumption DEF PageRead, PageSizeAssumption
  <2>2. k' \in [Readers -> Nat]
    BY <1>1, <2>1
  <2>3. ShapeInv' /\ RoomInv' /\ MutexInv'
    BY <1>1, <1>3, <1>13, <2>2, WithinKeeps DEF PageRead, Inside
  <2> QED BY <1>4, <1>13, <2>3 DEF PageRead, IInv
<1>14. CASE PageReadPanics(g)
  BY <1>4, <1>14, ReturnKeeps DEF PageReadPanics, Inside, IInv
<1>15. CASE PagesDone(g)
  <2>1. to_read[g] <= Room(g)
    BY <1>1, <1>3, <1>15 DEF PagesDone, Room
  <2>2. ShapeInv' /\ RoomInv' /\ MutexInv'
    BY <1>1, <1>15, <2>1, GotKeeps DEF PagesDone, Inside
  <2> QED BY <1>4, <1>15, <2>2 DEF PagesDone, IInv
<1> QED
  BY <1>5, <1>6, <1>7, <1>8, <1>9, <1>10, <1>11, <1>12, <1>13, <1>14, <1>15 DEF Advance

LEMMA CallInv ==
    ASSUME IInv, NEW g \in Readers, Call(g)
    PROVE  IInv'
<1>1. PICK r \in Requests : req' = [req EXCEPT ![g] = r]
  BY DEF Call
<1>2. r \in [offset : Nat, len : Nat]
  BY <1>1, RequestsAssumption DEF RequestsAssumption
<1>3. pc[g] = "idle" /\ mu # g
  BY DEF IInv, MutexInv, Call, Inside
<1>4. ShapeInv'
  BY <1>1, <1>2 DEF IInv, ShapeInv, Call, NoResult
<1>5. RoomInv'
  BY <1>1, <1>2 DEF IInv, ShapeInv, RoomInv, Call, NoResult
<1>6. MutexInv'
  BY <1>3 DEF IInv, ShapeInv, MutexInv, Call, Inside
<1>7. MemoryInv'
  BY DEF IInv, MemoryInv, Genuine, Call
<1> QED BY <1>4, <1>5, <1>6, <1>7 DEF IInv

LEMMA LockInv ==
    ASSUME IInv, NEW g \in Readers, Lock(g)
    PROVE  IInv'
<1>1. ShapeInv' /\ RoomInv'
  BY DEF IInv, ShapeInv, RoomInv, Lock, Inside
<1>2. MutexInv'
  BY NobodyAssumption DEF IInv, ShapeInv, MutexInv, Lock, Inside, NobodyAssumption
<1>3. MemoryInv'
  BY DEF IInv, MemoryInv, Genuine, Lock
<1> QED BY <1>1, <1>2, <1>3 DEF IInv

LEMMA WriterInv ==
    ASSUME IInv, CopySeek \/ CopyRead
    PROVE  IInv'
<1>1. CASE CopySeek
  <2>1. PICK n \in DOMAIN layout.runs : \E b \in 0 .. layout.runs[n].len - 1 :
          fp' = layout.runs[n].base + b
    BY <1>1 DEF CopySeek
  <2>2. fp' \in Nat
    BY <2>1, RunFacts DEF IInv, ShapeInv
  <2>3. /\ writer' = [pc |-> "read", offset |-> fp']
        /\ Together \/ \A g \in Readers : pc[g] = "idle"
        /\ UNCHANGED <<layout, last_run, mu, pc, req, i, k, to_read, result>>
    BY <1>1 DEF CopySeek, reader
  <2>4. ShapeInv' /\ RoomInv' /\ MutexInv' /\ MemoryInv'
    BY <2>2, <2>3 DEF IInv, ShapeInv, RoomInv, MutexInv, MemoryInv, Genuine
  <2> QED BY <2>4 DEF IInv
<1>2. CASE CopyRead
  <2>1. /\ writer' = [pc |-> "idle", offset |-> 0]
        /\ UNCHANGED <<layout, last_run, mu, fp, pc, req, i, k, to_read, result>>
    BY <1>2 DEF CopyRead, reader
  <2>2. ShapeInv' /\ RoomInv' /\ MutexInv' /\ MemoryInv'
    BY <2>1 DEF IInv, ShapeInv, RoomInv, MutexInv, MemoryInv, Genuine
  <2> QED BY <2>2 DEF IInv
<1> QED BY <1>1, <1>2

LEMMA StepInv == IInv /\ [Next]_vars => IInv'
<1> SUFFICES ASSUME IInv, [Next]_vars PROVE IInv'
  OBVIOUS
<1>1. CASE UNCHANGED vars
  BY <1>1 DEF vars, reader, IInv, ShapeInv, RoomInv, MutexInv, MemoryInv, Genuine
<1> QED BY <1>1, CallInv, LockInv, AdvanceInv, WriterInv DEF Next

\* The invariant holds in every behaviour of the Imager.
THEOREM Invariance == Spec => []IInv
BY InitInv, StepInv, PTL DEF Spec

-----------------------------------------------------------------------------
\* The types of the Imager's fields and of ReadAt's variables.
THEOREM TypeCorrect == Spec => []TypeOK
<1>1. IInv => TypeOK
  BY DEF IInv, ShapeInv, MutexInv, RoomInv, MemoryInv, Genuine, TypeOK, Inside
<1> QED BY <1>1, Invariance, PTL

\* Whatever was asked before and by whom, getRun tells of an offset in a range, and of one
\* beyond the last, exactly what a search of the ranges would; of one in a gap it tells
\* the gap's end, and a beginning in the same gap that may lie before the offset.
THEOREM MemoryAgrees == Spec => []RunMemoryAgrees
<1>1. ASSUME IInv PROVE RunMemoryAgrees
  <2>1. \A o \in Nat : Agrees(GetRun(o), o)
    BY <1>1, GetRunAgrees DEF IInv, ShapeInv
  <2>2. \A x : \A o \in 0 .. x : o \in Nat
    OBVIOUS
  <2> QED BY <2>1, <2>2 DEF RunMemoryAgrees, Agrees
<1> QED BY <1>1, Invariance, PTL

-----------------------------------------------------------------------------
(* The file pointer.                                                         *)

\* Nobody moves the pointer of a reader inside: not another reader, which would have the
\* mutex, and not a WriteTo, which would be alone.
LEMMA PointerStep ==
    ASSUME ~Together, IInv, IInv', PointerIsMine, [Next]_vars
    PROVE  PointerIsMine'
<1>1. ASSUME NEW g \in Readers, Advance(g)
      PROVE  PointerIsMine'
  <2>1. pc[g] \in Inside
    BY <1>1 DEF Advance, ReadNothing, ReadGap, ReadRange, Seek, SeekFails, Bulk, BulkFails,
                PageSeek, PageRead, PageReadPanics, PagesDone, Inside
  <2>2. /\ \A h \in Readers \ {g} : pc[h] \notin Inside
        /\ writer.pc # "read"
    BY <2>1 DEF IInv, MutexInv, Inside
  <2>3. /\ writer' = writer /\ req' = req
        /\ \A h \in Readers \ {g} : pc'[h] = pc[h]
    BY <1>1
    DEF Advance, ReadNothing, ReadGap, ReadRange, Seek, SeekFails, Bulk, BulkFails, PageSeek,
        PageRead, PageReadPanics, PagesDone, GotNothing, Got, Return, IInv, ShapeInv
  <2>4. /\ pc'[g] = "bulk" => fp' = req'[g].offset + i'[g]
        /\ pc'[g] = "pageread" => fp' = (req'[g].offset + i'[g]) + k'[g]
    BY <1>1
    DEF Advance, ReadNothing, ReadGap, ReadRange, Seek, SeekFails, Bulk, BulkFails, PageSeek,
        PageRead, PageReadPanics, PagesDone, GotNothing, Got, Return, IInv, ShapeInv, At
  <2>5. \A h \in Readers \ {g} : pc'[h] # "bulk" /\ pc'[h] # "pageread"
    BY <2>2, <2>3 DEF Inside
  <2> QED BY <2>2, <2>3, <2>4, <2>5 DEF PointerIsMine, At
<1>2. ASSUME NEW g \in Readers, Call(g)
      PROVE  PointerIsMine'
  <2>1. /\ pc' = [pc EXCEPT ![g] = "lock"] /\ fp' = fp /\ k' = k /\ writer' = writer
        /\ \A h \in Readers \ {g} : req'[h] = req[h] /\ i'[h] = i[h]
    BY <1>2 DEF Call, IInv, ShapeInv
  <2> QED BY <2>1 DEF PointerIsMine, At, IInv, ShapeInv
<1>3. ASSUME NEW g \in Readers, Lock(g)
      PROVE  PointerIsMine'
  BY <1>3 DEF Lock, PointerIsMine, At, IInv, ShapeInv
<1>4. CASE CopySeek
  <2>1. \A h \in Readers : pc'[h] = "idle"
    BY <1>4 DEF CopySeek, reader
  <2>2. writer'.offset = fp'
    BY <1>4 DEF CopySeek
  <2> QED BY <2>1, <2>2 DEF PointerIsMine
<1>5. CASE CopyRead
  BY <1>5 DEF CopyRead, reader, PointerIsMine, At
<1>6. CASE UNCHANGED vars
  BY <1>6 DEF vars, reader, PointerIsMine, At
<1> QED BY <1>1, <1>2, <1>3, <1>4, <1>5, <1>6 DEF Next

\* A ReadFile reads at the address its caller has sought, if callers keep ReadAt and
\* WriteTo apart.
THEOREM PointerIsKept == ASSUME ~Together PROVE Spec => []PointerIsMine
<1>1. Init => PointerIsMine
  BY DEF Init, PointerIsMine
<1>2. IInv /\ IInv' /\ PointerIsMine /\ [Next]_vars => PointerIsMine'
  BY PointerStep
<1> QED BY <1>1, <1>2, Invariance, PTL DEF Spec
=============================================================================

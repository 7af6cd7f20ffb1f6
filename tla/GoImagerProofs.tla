--------------------------- MODULE GoImagerProofs ---------------------------
(***************************************************************************)
(* Theorems about the Go tool's acquisition.  WriteTo, for every list of   *)
(* ranges, every set of hidden pages and every bulk size: it writes each   *)
(* page at its own address, and step by step it does what RawImage allows. *)
(* Then the compressed and sparse outputs, and extract: for every memory,  *)
(* every compressor, every failure of the disk and every amount that a     *)
(* compressor holds back.                                                  *)
(***************************************************************************)
EXTENDS GoAcquire, FiniteSetTheorems, SequenceTheorems, TLAPS

\* The range a of a memory, and the end of the ranges before the r-th.
StartOf(l, a) == l.runs[a].base
EndOf(l, a) == l.runs[a].base + l.runs[a].len
Before == IF r = 1 THEN 0 ELSE EndOf(layout, r - 1)

\* Which of the ranges is worked on, and how far.
CursorInv ==
    /\ layout \in Layouts
    /\ sparse \in BOOLEAN
    /\ pc \in {"range", "pad", "copy", "pages", "done", "failed"}
    /\ r \in 1 .. Len(layout.runs) + 1
    /\ padding \in Nat /\ offset \in Nat /\ page \in Nat /\ pos \in Nat
    /\ pc \in {"pad", "copy", "pages"} => r <= Len(layout.runs)
    /\ pc \in {"range", "done"} => offset = Before
    /\ pc = "done" => r = Len(layout.runs) + 1 /\ pos = offset
    /\ pc = "pad" => offset = Run.base /\ Before <= pos
    /\ pc \in {"copy", "pages"} => Run.base <= offset /\ offset <= RunEnd
    /\ pc = "pages" => offset < RunEnd /\ offset <= page /\ page <= BulkEnd

\* The output holds the raw image up to its position; only after a seek over a gap, and
\* before the first page behind it, does it end earlier.
Hole ==
    /\ Before <= pos
    /\ pc \in {"copy", "pages", "failed"}
    /\ pc = "copy" => offset = Run.base
    /\ pc = "pages" => page = Run.base
FileInv == \E n \in 0 .. pos :
    /\ file = RawImages!Image(layout, n)
    /\ n < pos => Hole /\ \A p \in n .. pos - 1 : RawImages!Expected(layout, p) = Zero

IInv == CursorInv /\ PositionIsAddress /\ FileInv

-----------------------------------------------------------------------------
(* Facts about ranges and images.                                            *)

\* The ranges of a memory, and their order.
LEMMA RunFacts ==
    ASSUME NEW l \in Layouts
    PROVE  /\ Len(l.runs) \in Nat
           /\ DOMAIN l.runs = 1 .. Len(l.runs)
           /\ l.runs = <<>> <=> Len(l.runs) = 0
           /\ \A a \in 1 .. Len(l.runs) :
                 StartOf(l, a) \in Nat /\ EndOf(l, a) \in Nat /\ StartOf(l, a) < EndOf(l, a)
           /\ \A a, b \in 1 .. Len(l.runs) : a < b => EndOf(l, a) <= StartOf(l, b)
           /\ \A a \in 1 .. Len(l.runs) :
                 RawImages!PagesOf(l.runs[a]) = StartOf(l, a) .. EndOf(l, a) - 1
<1>1. l.runs \in Seq([base : Nat, len : Nat \ {0}])
  BY LayoutsAssumption DEF LayoutsAssumption
<1>2. Len(l.runs) \in Nat /\ DOMAIN l.runs = 1 .. Len(l.runs)
  BY <1>1
<1>3. l.runs = <<>> <=> Len(l.runs) = 0
  BY <1>1
<1>4. ASSUME NEW a \in 1 .. Len(l.runs)
      PROVE  /\ StartOf(l, a) \in Nat /\ EndOf(l, a) \in Nat /\ StartOf(l, a) < EndOf(l, a)
             /\ RawImages!PagesOf(l.runs[a]) = StartOf(l, a) .. EndOf(l, a) - 1
  <2>1. l.runs[a] \in [base : Nat, len : Nat \ {0}]
    BY <1>1, ElementOfSeq
  <2>2. l.runs[a].base \in Nat /\ l.runs[a].len \in Nat \ {0}
    BY <2>1
  <2> QED BY <2>2 DEF StartOf, EndOf, RawImages!PagesOf
<1>5. \A a, b \in 1 .. Len(l.runs) : a < b => EndOf(l, a) <= StartOf(l, b)
  BY <1>2, LayoutsAssumption DEF LayoutsAssumption, StartOf, EndOf
<1> QED BY <1>2, <1>3, <1>4, <1>5

\* The length of an image.
LEMMA ImageSize ==
    ASSUME NEW l, NEW n \in Nat
    PROVE  Cardinality(DOMAIN RawImages!Image(l, n)) = n
  BY FS_Interval DEF RawImages!Image

\* Where the range worked on lies: behind those before it, within the memory.
LEMMA RangesEnd ==
    ASSUME CursorInv
    PROVE  /\ Before \in Nat /\ RawImages!End(layout) \in Nat
           /\ Before <= RawImages!End(layout)
           /\ r <= Len(layout.runs) =>
                /\ Run.base = StartOf(layout, r) /\ RunEnd = EndOf(layout, r)
                /\ Run.base \in Nat /\ RunEnd \in Nat
                /\ Before <= Run.base /\ Run.base < RunEnd /\ RunEnd <= RawImages!End(layout)
           /\ r = Len(layout.runs) + 1 => Before = RawImages!End(layout)
<1> DEFINE N == Len(layout.runs)
<1>1. layout \in Layouts /\ r \in 1 .. N + 1
  BY DEF CursorInv
<1>2. N \in Nat /\ (layout.runs = <<>> <=> N = 0)
  BY <1>1, RunFacts
<1>3. \A a \in 1 .. N : /\ StartOf(layout, a) \in Nat /\ EndOf(layout, a) \in Nat
                        /\ StartOf(layout, a) < EndOf(layout, a)
  BY <1>1, RunFacts
<1>4. \A a, b \in 1 .. N : a < b => EndOf(layout, a) <= StartOf(layout, b)
  BY <1>1, RunFacts
<1>5. RawImages!End(layout) = IF N = 0 THEN 0 ELSE EndOf(layout, N)
  BY <1>2 DEF RawImages!End, EndOf
<1>6. Run.base = StartOf(layout, r) /\ RunEnd = EndOf(layout, r)
  BY DEF Run, RunEnd, StartOf, EndOf
<1> HIDE DEF N
<1>7. \A a \in 1 .. N : EndOf(layout, a) <= EndOf(layout, N)
  BY <1>2, <1>3, <1>4
<1>8. CASE r = 1
  BY <1>1, <1>2, <1>3, <1>5, <1>6, <1>7, <1>8 DEF Before, N
<1>9. CASE r > 1
  <2>1. r - 1 \in 1 .. N /\ Before = EndOf(layout, r - 1)
    BY <1>1, <1>2, <1>9 DEF Before
  <2>2. r <= N => EndOf(layout, r - 1) <= StartOf(layout, r)
    BY <1>1, <1>2, <1>4, <2>1
  <2> QED BY <1>1, <1>2, <1>3, <1>5, <1>6, <1>7, <1>9, <2>1, <2>2 DEF N
<1> QED BY <1>1, <1>2, <1>8, <1>9

\* Pages between two ranges belong to none.
LEMMA GapIsZero ==
    ASSUME CursorInv, r <= Len(layout.runs),
           NEW p \in Int, Before <= p, p < Run.base
    PROVE  RawImages!Expected(layout, p) = Zero
<1> DEFINE N == Len(layout.runs)
<1>1. layout \in Layouts /\ r \in 1 .. N
  BY DEF CursorInv
<1>2. ASSUME NEW a \in 1 .. N PROVE p \notin StartOf(layout, a) .. EndOf(layout, a) - 1
  <2>1. Run.base = StartOf(layout, r)
    BY RangesEnd
  <2>2. CASE a >= r
    <3>1. a = r \/ EndOf(layout, r) <= StartOf(layout, a)
      BY <1>1, <2>2, RunFacts
    <3> QED BY <3>1, <2>1, <1>1, RunFacts
  <2>3. CASE a < r
    <3>1. Before = EndOf(layout, r - 1) /\ r - 1 \in 1 .. N
      BY <1>1, <2>3, RunFacts DEF Before
    <3>2. EndOf(layout, a) <= EndOf(layout, r - 1)
      BY <1>1, <3>1, <2>3, RunFacts
    <3>3. EndOf(layout, a) \in Nat /\ EndOf(layout, r - 1) \in Nat
      BY <1>1, <3>1, RunFacts
    <3> QED BY <3>1, <3>2, <3>3
  <2> QED BY <2>2, <2>3, <1>1
<1>3. DOMAIN layout.runs = 1 .. N
  BY <1>1, RunFacts
<1>4. \A a \in DOMAIN layout.runs : p \notin RawImages!PagesOf(layout.runs[a])
  BY <1>1, <1>2, <1>3, RunFacts
<1> QED BY <1>4 DEF RawImages!Expected, RawImages!Zero, Zero

\* A page of a range is itself in the image, unless it is hidden.
LEMMA InRange ==
    ASSUME CursorInv, r <= Len(layout.runs),
           NEW p \in Int, Run.base <= p, p < RunEnd
    PROVE  RawImages!Expected(layout, p) = IF p \in layout.hidden THEN Zero ELSE p
<1>1. layout \in Layouts /\ r \in 1 .. Len(layout.runs)
  BY RunFacts DEF CursorInv
<1>2. r \in DOMAIN layout.runs
  BY <1>1, RunFacts
<1>3. Run.base = StartOf(layout, r) /\ RunEnd = EndOf(layout, r)
  BY RangesEnd
<1>4. StartOf(layout, r) \in Nat /\ EndOf(layout, r) \in Nat
  BY <1>1, RunFacts
<1>5. p \in StartOf(layout, r) .. EndOf(layout, r) - 1
  BY <1>3, <1>4
<1>6. p \in RawImages!PagesOf(layout.runs[r])
  BY <1>1, <1>5, RunFacts
<1> QED BY <1>2, <1>6 DEF RawImages!Expected, RawImages!Zero, Zero

-----------------------------------------------------------------------------
(* Writing.                                                                  *)

\* The file, written on from its position with k of the right pages.
Appended(k) ==
    [p \in 0 .. Larger(Cardinality(DOMAIN file), pos + k) - 1 |->
        IF pos <= p /\ p < pos + k THEN RawImages!Expected(layout, p)
        ELSE IF p < Cardinality(DOMAIN file) THEN file[p] ELSE Zero]

\* ... is a longer raw image.
LEMMA AppendedIsImage ==
    ASSUME CursorInv, FileInv, NEW k \in Nat \ {0}
    PROVE  Appended(k) = RawImages!Image(layout, pos + k)
<1>1. PICK n \in 0 .. pos :
          /\ file = RawImages!Image(layout, n)
          /\ \A p \in n .. pos - 1 : RawImages!Expected(layout, p) = Zero
  BY DEF FileInv, CursorInv
<1>2. pos \in Nat /\ n \in Nat /\ n <= pos
  BY <1>1 DEF CursorInv
<1>3. Cardinality(DOMAIN file) = n
  BY <1>1, <1>2, ImageSize
<1>4. Larger(n, pos + k) = pos + k
  BY <1>2 DEF Larger
<1>5. \A p \in 0 .. n - 1 : file[p] = RawImages!Expected(layout, p)
  BY <1>1 DEF RawImages!Image
<1>6. \A p \in 0 .. (pos + k) - 1 :
        (IF pos <= p /\ p < pos + k THEN RawImages!Expected(layout, p)
         ELSE IF p < n THEN file[p] ELSE Zero) = RawImages!Expected(layout, p)
  BY <1>1, <1>2, <1>5
<1>7. Appended(k) = [p \in 0 .. (pos + k) - 1 |->
                       IF pos <= p /\ p < pos + k THEN RawImages!Expected(layout, p)
                       ELSE IF p < n THEN file[p] ELSE Zero]
  BY <1>3, <1>4 DEF Appended
<1> QED BY <1>6, <1>7 DEF RawImages!Image

\* A block of padding lies before the range.
LEMMA PadWrites ==
    ASSUME IInv, PadBlock
    PROVE  /\ Smaller(padding, BUFSIZE) \in Nat \ {0}
           /\ file' = Appended(Smaller(padding, BUFSIZE))
<1> DEFINE k == Smaller(padding, BUFSIZE)
<1>1. k \in Nat \ {0} /\ k <= padding
  BY BufsizeAssumption DEF IInv, CursorInv, PadBlock, Smaller
<1>2. pos \in Nat /\ r <= Len(layout.runs) /\ Before <= pos /\ pos + padding = Run.base
  BY DEF IInv, CursorInv, PositionIsAddress, PadBlock
<1>3. Before \in Nat /\ Run.base \in Nat /\ padding \in Nat
  BY <1>2, RangesEnd DEF IInv, CursorInv
<1>4. ASSUME NEW p \in Int, pos <= p, p < pos + k
      PROVE  Zero = RawImages!Expected(layout, p)
  BY <1>1, <1>2, <1>3, <1>4, GapIsZero DEF IInv
<1>5. file' = Written(file, pos, k, LAMBDA i : Zero)
  BY DEF PadBlock, Write
<1> HIDE DEF k
<1>6. file' = Appended(k)
  BY <1>4, <1>5 DEF Written, Appended
<1> QED BY <1>1, <1>6 DEF k

\* A bulk read writes the pages of the range it has read.
LEMMA BulkWrites ==
    ASSUME IInv, BulkRead
    PROVE  /\ BulkEnd - offset \in Nat \ {0} /\ BulkEnd <= RunEnd
           /\ file' = Appended(BulkEnd - offset)
<1> DEFINE k == BulkEnd - offset
<1>1. /\ offset \in Nat /\ pos = offset /\ r <= Len(layout.runs)
      /\ Run.base <= offset /\ offset < RunEnd
  BY DEF IInv, CursorInv, PositionIsAddress, BulkRead
<1>2. Run.base \in Nat /\ RunEnd \in Nat
  BY <1>1, RangesEnd DEF IInv
<1>3. BulkEnd \in Nat /\ k \in Nat \ {0} /\ BulkEnd <= RunEnd /\ offset + k = BulkEnd
  BY <1>1, <1>2, BufsizeAssumption DEF BulkEnd, Smaller
<1>4. ASSUME NEW p \in Int, pos <= p, p < pos + k
      PROVE  offset + (p - pos) = RawImages!Expected(layout, p)
  <2>0. p \in offset .. BulkEnd - 1
    BY <1>1, <1>3, <1>4
  <2>1. p \notin layout.hidden
    BY <2>0 DEF BulkRead, Readable
  <2>2. RawImages!Expected(layout, p) = p
    BY <1>1, <1>2, <1>3, <1>4, <2>1, InRange DEF IInv
  <2> QED BY <2>2, <1>1
<1>5. file' = Written(file, pos, k, LAMBDA i : offset + i)
  BY DEF BulkRead, Write
<1> HIDE DEF k
<1>6. file' = Appended(k)
  BY <1>4, <1>5 DEF Written, Appended
<1> QED BY <1>3, <1>6 DEF k

\* The fallback writes the page it has read, or zeros for a hidden one.
LEMMA PageWrites ==
    ASSUME IInv, PageRead
    PROVE  page < RunEnd /\ file' = Appended(1)
<1>1. /\ page \in Nat /\ pos = page /\ offset \in Nat /\ r <= Len(layout.runs)
      /\ Run.base <= offset /\ offset < RunEnd /\ offset <= page /\ page < BulkEnd
  BY DEF IInv, CursorInv, PositionIsAddress, PageRead
<1>2. Run.base \in Nat /\ RunEnd \in Nat
  BY <1>1, RangesEnd DEF IInv
<1>3. BulkEnd \in Nat /\ BulkEnd <= RunEnd
  BY <1>1, <1>2, BufsizeAssumption DEF BulkEnd, Smaller
<1>4. (IF Readable(page, page + 1) THEN page ELSE Zero) = RawImages!Expected(layout, page)
  <2>1. page .. (page + 1) - 1 = {page}
    BY <1>1
  <2>2. Readable(page, page + 1) <=> page \notin layout.hidden
    BY <1>1, <2>1 DEF Readable
  <2> QED BY <1>1, <1>2, <1>3, <2>2, InRange DEF IInv
<1>5. file' = Written(file, pos, 1, LAMBDA i : IF Readable(page, page + 1) THEN page ELSE Zero)
  BY DEF PageRead, Write
<1>6. \A p \in Int : pos <= p /\ p < pos + 1 => p = page
  BY <1>1
<1>7. file' = Appended(1)
  BY <1>4, <1>5, <1>6 DEF Written, Appended
<1> QED BY <1>1, <1>2, <1>3, <1>7

-----------------------------------------------------------------------------
(* The invariant.                                                            *)

LEMMA InitInv == Init => IInv
<1> SUFFICES ASSUME Init PROVE IInv
  OBVIOUS
<1>1. CursorInv
  BY RunFacts DEF Init, CursorInv, Before
<1>2. PositionIsAddress
  BY DEF Init, PositionIsAddress
<1>3. file = RawImages!Image(layout, 0)
  BY DEF Init, RawImages!Image
<1> QED BY <1>1, <1>2, <1>3 DEF Init, FileInv, IInv

\* The parts of the invariant that do not speak of the file.
LEMMA CursorStep ==
    ASSUME IInv, Next
    PROVE  CursorInv' /\ PositionIsAddress'
<1> USE DEF IInv
<1>1. /\ layout \in Layouts /\ r \in 1 .. Len(layout.runs) + 1 /\ Len(layout.runs) \in Nat
      /\ padding \in Nat /\ offset \in Nat /\ page \in Nat /\ pos \in Nat
  BY RunFacts DEF CursorInv
<1>2. /\ Before \in Nat
      /\ r <= Len(layout.runs) =>
           /\ Run.base \in Nat /\ RunEnd \in Nat
           /\ Before <= Run.base /\ Run.base < RunEnd /\ RunEnd = EndOf(layout, r)
  BY RangesEnd
<1>3. layout' = layout /\ sparse' = sparse
  BY DEF Next, Work, Stop, StartRange, Finish, PadSparse, PadBlock, PadDone, BulkRead,
         BulkFails, PageRead, PagesDone, EndRange
<1>4. r' = r => Run' = Run /\ RunEnd' = RunEnd /\ Before' = Before
  BY <1>3 DEF Run, RunEnd, Before, EndOf
<1>5. pc \in {"copy", "pages"} /\ offset < RunEnd =>
        BulkEnd \in Nat /\ offset < BulkEnd /\ BulkEnd <= RunEnd
  BY <1>1, <1>2, BufsizeAssumption DEF CursorInv, BulkEnd, Smaller
<1>6. CASE StartRange
  BY <1>1, <1>2, <1>3, <1>4, <1>6
  DEF StartRange, CursorInv, PositionIsAddress, Larger
<1>7. CASE Finish
  BY <1>1, <1>2, <1>3, <1>4, <1>7 DEF Finish, CursorInv, PositionIsAddress
<1>8. CASE PadSparse
  BY <1>1, <1>2, <1>3, <1>4, <1>8 DEF PadSparse, CursorInv, PositionIsAddress
<1>9. CASE PadBlock
  <2>1. LET k == Smaller(padding, BUFSIZE)
        IN  k \in Nat /\ k <= padding /\ padding' = padding - k /\ pos' = pos + k
    BY <1>1, <1>9, BufsizeAssumption DEF PadBlock, Write, Smaller
  <2> QED
    BY <1>1, <1>2, <1>3, <1>4, <1>9, <2>1 DEF PadBlock, CursorInv, PositionIsAddress
<1>10. CASE PadDone
  BY <1>1, <1>2, <1>3, <1>4, <1>10 DEF PadDone, CursorInv, PositionIsAddress
<1>11. CASE BulkRead
  <2>1. /\ pc = "copy" /\ pc' = pc /\ r' = r /\ padding' = padding /\ page' = page
        /\ offset' = BulkEnd /\ pos' = pos + (BulkEnd - offset) /\ offset < RunEnd
    BY <1>11 DEF BulkRead, Write
  <2>2. r <= Len(layout.runs) /\ pos = offset /\ Run.base <= offset
    BY <2>1 DEF CursorInv, PositionIsAddress
  <2>3. BulkEnd \in Nat /\ offset < BulkEnd /\ BulkEnd <= RunEnd
    BY <1>5, <2>1
  <2>4. pos' \in Nat /\ pos' = offset' /\ offset' \in Nat
    BY <1>1, <2>1, <2>2, <2>3
  <2>5. CursorInv'
    BY <1>1, <1>2, <1>3, <1>4, <2>1, <2>2, <2>3, <2>4 DEF CursorInv
  <2> QED
    BY <2>1, <2>4, <2>5 DEF PositionIsAddress
<1>12. CASE BulkFails
  <2>1. BulkEnd' = BulkEnd
    BY <1>3, <1>4, <1>12 DEF BulkFails, BulkEnd
  <2> QED
    BY <1>1, <1>2, <1>3, <1>4, <1>5, <1>12, <2>1 DEF BulkFails, CursorInv, PositionIsAddress
<1>13. CASE PageRead
  <2>1. BulkEnd' = BulkEnd /\ pos' = pos + 1
    BY <1>3, <1>4, <1>13 DEF PageRead, BulkEnd, Write
  <2> QED
    BY <1>1, <1>2, <1>3, <1>4, <1>5, <1>13, <2>1 DEF PageRead, CursorInv, PositionIsAddress
<1>14. CASE PagesDone
  BY <1>1, <1>2, <1>3, <1>4, <1>5, <1>14 DEF PagesDone, CursorInv, PositionIsAddress
<1>15. CASE EndRange
  <2>1. r <= Len(layout.runs) /\ offset = RunEnd /\ pos = offset
    BY <1>1, <1>2, <1>15 DEF EndRange, CursorInv, PositionIsAddress
  <2>2. r' \in 1 .. Len(layout.runs) + 1 /\ Before' = RunEnd
    BY <1>1, <1>2, <1>3, <1>15, <2>1 DEF EndRange, Before
  <2> QED
    BY <1>1, <1>3, <1>15, <2>1, <2>2 DEF EndRange, CursorInv, PositionIsAddress
<1>16. CASE Stop
  BY <1>1, <1>3, <1>4, <1>16 DEF Stop, CursorInv, PositionIsAddress
<1> QED
  BY <1>6, <1>7, <1>8, <1>9, <1>10, <1>11, <1>12, <1>13, <1>14, <1>15, <1>16 DEF Next, Work

\* The steps that write nothing.
Silent ==
    \/ StartRange \/ Finish \/ PadSparse \/ PadDone
    \/ BulkFails \/ PagesDone \/ EndRange \/ Stop

\* What a step does to the file: nothing, or it appends right pages, up to the end of the
\* memory at most.
LEMMA FileStep ==
    ASSUME IInv, Next
    PROVE  \/ Silent /\ file' = file
           \/ /\ pos' \in Nat /\ pos' > pos /\ pos' <= RawImages!End(layout)
              /\ file' = RawImages!Image(layout, pos')
              /\ pc \notin {"done", "failed"} /\ pc' = pc
<1> USE DEF IInv
<1>1. pos \in Nat /\ padding \in Nat /\ offset \in Nat /\ page \in Nat /\ RawImages!End(layout) \in Nat
  BY RangesEnd DEF CursorInv
<1>2. r <= Len(layout.runs) =>
        Run.base \in Nat /\ RunEnd \in Nat /\ Run.base < RunEnd /\ RunEnd <= RawImages!End(layout)
  BY RangesEnd
<1>3. CASE PadBlock
  <2> DEFINE k == Smaller(padding, BUFSIZE)
  <2>1. k \in Nat \ {0} /\ file' = RawImages!Image(layout, pos + k)
    BY <1>3, PadWrites, AppendedIsImage
  <2>2. k <= padding
    BY <1>1, BufsizeAssumption DEF Smaller
  <2>3. pos' = pos + k /\ pc = "pad" /\ pc' = pc
    BY <1>3 DEF PadBlock, Write
  <2>4. r <= Len(layout.runs) /\ pos + padding = Run.base
    BY <2>3 DEF CursorInv, PositionIsAddress
  <2> HIDE DEF k
  <2> QED BY <1>1, <1>2, <2>1, <2>2, <2>3, <2>4
<1>4. CASE BulkRead
  <2>1. /\ BulkEnd - offset \in Nat \ {0} /\ BulkEnd <= RunEnd
        /\ file' = RawImages!Image(layout, pos + (BulkEnd - offset))
    BY <1>4, BulkWrites, AppendedIsImage
  <2>2. pos' = pos + (BulkEnd - offset) /\ pc = "copy" /\ pc' = pc /\ pos = offset
    BY <1>4 DEF BulkRead, Write, PositionIsAddress
  <2>3. r <= Len(layout.runs)
    BY <2>2 DEF CursorInv
  <2>4. BulkEnd \in Nat
    BY <1>1, <1>2, <2>3, BufsizeAssumption DEF BulkEnd, Smaller
  <2> QED BY <1>1, <1>2, <2>1, <2>2, <2>3, <2>4
<1>5. CASE PageRead
  <2>1. page < RunEnd /\ file' = RawImages!Image(layout, pos + 1)
    BY <1>5, PageWrites, AppendedIsImage
  <2>2. pos' = pos + 1 /\ pc = "pages" /\ pc' = pc /\ pos = page
    BY <1>5 DEF PageRead, Write, PositionIsAddress
  <2>3. r <= Len(layout.runs)
    BY <2>2 DEF CursorInv
  <2> QED BY <1>1, <1>2, <2>1, <2>2, <2>3
<1> QED
  BY <1>3, <1>4, <1>5
  DEF Next, Work, Silent, Stop, StartRange, Finish, PadSparse, PadDone, BulkFails, PagesDone,
      EndRange

\* The output stays a raw image, up to its position but for a hole.
LEMMA FileInvStep ==
    ASSUME IInv, Next
    PROVE  FileInv'
<1>1. pos \in Nat /\ pos' \in Nat /\ layout' = layout
  BY CursorStep DEF IInv, CursorInv, Next, Work, Stop, StartRange, Finish, PadSparse, PadBlock,
     PadDone, BulkRead, BulkFails, PageRead, PagesDone, EndRange
<1>2. PICK n \in 0 .. pos :
        /\ file = RawImages!Image(layout, n)
        /\ n < pos => Hole /\ \A p \in n .. pos - 1 : RawImages!Expected(layout, p) = Zero
  BY DEF IInv, FileInv
<1>3. CASE pos' > pos /\ file' = RawImages!Image(layout, pos')
  <2>1. file' = RawImages!Image(layout', pos') /\ ~(pos' < pos')
    BY <1>1, <1>3
  <2>2. pos' \in 0 .. pos'
    BY <1>1
  <2> QED BY <2>1, <2>2 DEF FileInv
<1>4. CASE Silent /\ file' = file
  <2>1. /\ file' = RawImages!Image(layout', n) /\ n \in Nat /\ n <= pos
        /\ \A p : RawImages!Expected(layout, p)' = RawImages!Expected(layout', p)
    BY <1>1, <1>2, <1>4 DEF RawImages!Expected
  <2>2. CASE PadSparse
    <3>1. /\ pc = "pad" /\ pc' = "copy" /\ pos' = pos + padding /\ padding \in Nat
          /\ r' = r /\ offset' = offset /\ offset = Run.base
      BY <2>2 DEF PadSparse, IInv, CursorInv
    <3>2. n = pos /\ pos + padding = Run.base /\ Before <= pos /\ r <= Len(layout.runs)
      BY <1>1, <1>2, <3>1 DEF Hole, IInv, CursorInv, PositionIsAddress
    <3>3. Run.base \in Nat /\ Before \in Nat
      BY <3>2, RangesEnd DEF IInv
    <3>4. \A p \in n .. pos' - 1 : RawImages!Expected(layout', p) = Zero
      BY <1>1, <3>1, <3>2, <3>3, GapIsZero DEF IInv
    <3>5. Hole'
      BY <1>1, <3>1, <3>2, <3>3 DEF Hole, Before, Run, EndOf
    <3> QED BY <1>1, <2>1, <3>1, <3>2, <3>4, <3>5 DEF FileInv
  <2>3. CASE ~PadSparse
    <3>1. pos' = pos
      BY <1>4, <2>3 DEF Silent, Stop, StartRange, Finish, PadDone, BulkFails, PagesDone, EndRange
    <3>2. n < pos => Hole'
      <4> SUFFICES ASSUME n < pos PROVE Hole'
        OBVIOUS
      <4>1. Hole
        BY <1>2
      <4>2. pc \in {"copy", "pages"} =>
              /\ r <= Len(layout.runs) /\ offset \in Nat /\ page \in Nat
              /\ Run.base \in Nat /\ RunEnd \in Nat /\ Run.base < RunEnd /\ Run.base <= offset
        BY RangesEnd DEF IInv, CursorInv
      <4>3. pc = "pages" => BulkEnd \in Nat /\ offset < BulkEnd
        BY <4>2, BufsizeAssumption DEF IInv, CursorInv, BulkEnd, Smaller
      <4>4. BulkFails \/ Stop
        BY <1>4, <2>3, <4>1, <4>2, <4>3
        DEF Silent, StartRange, Finish, PadDone, PagesDone, EndRange, Hole
      <4>5. Before' = Before /\ Run' = Run
        BY <1>1, <4>4 DEF BulkFails, Stop, Before, Run, EndOf
      <4> QED BY <3>1, <4>1, <4>4, <4>5 DEF BulkFails, Stop, Hole
    <3> QED BY <1>1, <1>2, <2>1, <3>1, <3>2 DEF FileInv
  <2> QED BY <2>2, <2>3
<1> QED BY <1>3, <1>4, FileStep

LEMMA StepInv == IInv /\ [Next]_vars => IInv'
<1> SUFFICES ASSUME IInv, [Next]_vars PROVE IInv'
  OBVIOUS
<1>1. CASE Next
  BY <1>1, CursorStep, FileInvStep DEF IInv
<1>2. CASE UNCHANGED vars
  <2>1. CursorInv'
    BY <1>2 DEF vars, IInv, CursorInv, Before, EndOf, Run, RunEnd, BulkEnd
  <2>2. PositionIsAddress' /\ (Hole => Hole')
    BY <1>2 DEF vars, IInv, PositionIsAddress, Hole, Before, EndOf, Run
  <2>3. FileInv'
    BY <1>2, <2>2 DEF vars, IInv, FileInv, RawImages!Image, RawImages!Expected
  <2> QED BY <2>1, <2>2, <2>3 DEF IInv
<1> QED BY <1>1, <1>2

\* The invariant holds in every behaviour of WriteTo.
THEOREM Invariance == Spec => []IInv
BY InitInv, StepInv, PTL DEF Spec

-----------------------------------------------------------------------------
LEMMA TypesHold == IInv => TypeOK
<1> SUFFICES ASSUME IInv PROVE TypeOK
  OBVIOUS
<1>1. PICK n \in 0 .. pos : file = RawImages!Image(layout, n)
  BY DEF IInv, FileInv
<1>2. DOMAIN file = 0 .. n - 1
  BY <1>1 DEF RawImages!Image
<1> QED BY <1>1, <1>2 DEF IInv, CursorInv, TypeOK

\* The state of WriteTo is always well typed.
THEOREM TypeCorrect == Spec => []TypeOK
BY Invariance, TypesHold, PTL

\* WriteTo never reads a page for another place of the output than its own address.
THEOREM PositionsAreAddresses == Spec => []PositionIsAddress
BY Invariance, PTL DEF IInv

LEMMA InitRefines == Init => RawImages!Init
BY DEF Init, RawImages!Init, RawImages!Image

\* A step of WriteTo is a step of the abstract acquisition, or none.
LEMMA StepRefines ==
    ASSUME IInv, [Next]_vars
    PROVE  [RawImages!Next]_(RawImages!vars)
<1>1. CASE UNCHANGED vars
  BY <1>1 DEF vars, RawImages!vars
<1>2. CASE Next
  <2>1. layout' = layout
    BY <1>2 DEF Next, Work, Stop, StartRange, Finish, PadSparse, PadBlock, PadDone, BulkRead,
       BulkFails, PageRead, PagesDone, EndRange
  <2>2. pos \in Nat /\ r \in 1 .. Len(layout.runs) + 1 /\ Len(layout.runs) \in Nat
    BY RunFacts DEF IInv, CursorInv
  <2>3. PICK n \in 0 .. pos : file = RawImages!Image(layout, n) /\ (n < pos => Hole)
    BY DEF IInv, FileInv
  <2>4. CASE file' # file
    <3>1. /\ pos' \in Nat /\ pos' > pos /\ pos' <= RawImages!End(layout)
          /\ file' = RawImages!Image(layout, pos') /\ pc \notin {"done", "failed"} /\ pc' = pc
      BY <1>2, <2>4, FileStep
    <3>2. n \in 0 .. RawImages!End(layout) /\ pos' \in 0 .. RawImages!End(layout) /\ n < pos'
      BY <2>2, <2>3, <3>1, RangesEnd DEF IInv
    <3> QED BY <2>1, <2>3, <3>1, <3>2 DEF RawImages!Next, RawImages!Extend
  <2>5. CASE Finish
    <3>1. pc = "range" /\ pc' = "done" /\ file' = file /\ r = Len(layout.runs) + 1
      BY <2>2, <2>5 DEF Finish
    <3>2. n = pos /\ pos = RawImages!End(layout)
      BY <2>2, <2>3, <3>1, RangesEnd DEF Hole, IInv, CursorInv, PositionIsAddress
    <3> QED BY <2>1, <2>3, <3>1, <3>2 DEF RawImages!Next, RawImages!Finish
  <2>6. CASE Stop
    BY <2>1, <2>6 DEF Stop, RawImages!Next, RawImages!Abort
  <2>7. CASE file' = file /\ ~Finish /\ ~Stop
    BY <1>2, <2>1, <2>7
    DEF Next, Work, StartRange, PadSparse, PadBlock, PadDone, BulkRead, BulkFails, PageRead,
        PagesDone, EndRange, RawImages!vars
  <2> QED BY <2>4, <2>5, <2>6, <2>7
<1> QED BY <1>1, <1>2

\* What WriteTo writes is, at every moment, the beginning of the raw image of the memory,
\* and it reports success only for all of it: the safety part of ProducesRawImage.
THEOREM WritesRawImage == Spec => RawImages!Init /\ [][RawImages!Next]_(RawImages!vars)
<1>1. IInv /\ [Next]_vars => [RawImages!Next]_(RawImages!vars)
  BY StepRefines
<1> QED BY <1>1, InitRefines, Invariance, PTL DEF Spec

-----------------------------------------------------------------------------
(* GoAcquire: the compressor, the disk and extract.                          *)

\* The disk has the beginning of what WriteTo wrote, and misses no more than is held.
DiskInv ==
    /\ compression \in Compressors /\ broken \in BOOLEAN
    /\ disk \in [pages : Nat, closed : BOOLEAN]
    /\ disk.pages <= Size(file)
    /\ Size(file) - disk.pages <= (IF compression = "none" THEN 0 ELSE HELD)
    /\ disk.closed => disk.pages = Size(file) /\ acquire # "writing"

\* Who has ended, and how.
OutcomeInv ==
    /\ acquire \in {"writing", "ok", "error"}
    /\ extract \in {"no", "copying", "ok", "error"}
    /\ acquire # "writing" => pc \in {"done", "failed"}
    /\ acquire = "ok" => pc = "done"
    /\ extract # "no" => acquire # "writing"

\* What extract has written is the beginning of the raw image, and all that the disk has
\* when it succeeds.
OutInv == \E m \in 0 .. disk.pages :
    /\ out = RawImages!Image(layout, m)
    /\ extract = "ok" /\ compression = "gzip" => disk.closed /\ m = disk.pages

AcquireInv == IInv /\ DiskInv /\ OutcomeInv /\ OutInv

-----------------------------------------------------------------------------
\* The length of the output.
LEMMA FileSize ==
    ASSUME IInv
    PROVE  /\ Size(file) \in Nat /\ file = RawImages!Image(layout, Size(file))
           /\ Size(file) <= pos
           /\ pc = "done" => Size(file) = RawImages!End(layout)
<1>1. PICK n \in 0 .. pos : file = RawImages!Image(layout, n) /\ (n < pos => Hole)
  BY DEF IInv, FileInv
<1>2. n \in Nat /\ pos \in Nat /\ n <= pos
  BY <1>1 DEF IInv, CursorInv
<1>3. Size(file) = n
  BY <1>1, <1>2, ImageSize DEF Size
<1>4. pc = "done" => n = pos /\ pos = RawImages!End(layout)
  BY <1>1, <1>2, RangesEnd DEF Hole, IInv, CursorInv
<1> QED BY <1>1, <1>2, <1>3, <1>4

\* A step of doAcquire is one of WriteTo, or leaves WriteTo alone; the output never shrinks.
LEMMA Underneath ==
    ASSUME IInv, AcquireNext
    PROVE  [Next]_vars /\ IInv' /\ Size(file') \in Nat /\ Size(file) <= Size(file')
<1>1. [Next]_vars
  BY DEF AcquireNext, Running, Image, WriteRefused, ImageStops, Drain, DrainFails, Closer,
     Extract, Copy, CopyEnds, CopyFails, Next, imaging
<1>2. IInv'
  BY <1>1, StepInv
<1>3. Size(file') \in Nat /\ Size(file) <= Size(file')
  <2>1. Size(file) \in Nat /\ Size(file) <= pos /\ pos \in Nat
    BY FileSize DEF IInv, CursorInv
  <2>2. CASE file' = file
    BY <2>1, <2>2
  <2>3. CASE file' # file
    <3>1. Next
      BY <1>1, <2>3 DEF vars
    <3>2. pos' \in Nat /\ pos' > pos /\ file' = RawImages!Image(layout, pos')
      BY <2>3, <3>1, FileStep
    <3>3. Size(file') = pos'
      BY <3>2, ImageSize DEF Size
    <3> QED BY <2>1, <3>2, <3>3
  <2> QED BY <2>2, <2>3
<1> QED BY <1>1, <1>2, <1>3

LEMMA AcquireInitInv == AcquireInit => AcquireInv
<1> SUFFICES ASSUME AcquireInit PROVE AcquireInv
  OBVIOUS
<1>1. IInv
  BY InitInv DEF AcquireInit
<1>2. Size(file) = 0
  <2>1. file = RawImages!Image(layout, 0)
    BY DEF AcquireInit, Init, RawImages!Image
  <2> QED BY <2>1, ImageSize DEF Size
<1>3. out = RawImages!Image(layout, 0)
  BY DEF AcquireInit, EmptyFile, RawImages!Image
<1>4. DiskInv
  <2>1. HELD \in Nat
    BY HeldAssumption DEF HeldAssumption
  <2>2. disk = [pages |-> 0, closed |-> FALSE] /\ compression \in Compressors /\ broken = FALSE
    BY DEF AcquireInit, Compressors
  <2>3. disk.pages = 0 /\ ~disk.closed /\ disk \in [pages : Nat, closed : BOOLEAN]
    BY <2>2
  <2>4. Size(file) - disk.pages <= (IF compression = "none" THEN 0 ELSE HELD)
    BY <1>2, <2>1, <2>3
  <2>5. compression \in Compressors /\ broken \in BOOLEAN
    BY <2>2
  <2>6. disk.pages <= Size(file)
    BY <1>2, <2>3
  <2>7. disk.closed => disk.pages = Size(file) /\ acquire # "writing"
    BY <2>3
  <2> QED BY <2>3, <2>4, <2>5, <2>6, <2>7 DEF DiskInv
<1>5. OutcomeInv /\ OutInv
  BY <1>3 DEF AcquireInit, OutcomeInv, OutInv
<1> QED BY <1>1, <1>4, <1>5 DEF AcquireInv

LEMMA DiskStep ==
    ASSUME AcquireInv, AcquireNext
    PROVE  DiskInv'
<1>1. /\ Size(file) \in Nat /\ Size(file') \in Nat /\ Size(file) <= Size(file')
      /\ disk.pages \in Nat /\ HELD \in Nat
  <2>1. HELD \in Nat
    BY HeldAssumption DEF HeldAssumption
  <2>2. disk.pages \in Nat
    BY DEF AcquireInv, DiskInv
  <2> QED BY <2>1, <2>2, FileSize, Underneath DEF AcquireInv
<1>2. CASE Image
  <2>1. CASE file' = file
    BY <1>1, <1>2, <2>1 DEF Image, AcquireInv, DiskInv, Size
  <2>2. CASE file' # file
    BY <1>1, <1>2, <2>2 DEF Image, Accepts, AcquireInv, DiskInv, Size
  <2> QED BY <2>1, <2>2
<1>3. CASE ImageStops
  BY <1>1, <1>3 DEF ImageStops, Stop, output, AcquireInv, DiskInv, Size
<1>4. CASE Drain
  BY <1>1, <1>4 DEF Drain, imaging, vars, AcquireInv, DiskInv, Size
<1>5. CASE DrainFails
  BY <1>1, <1>5 DEF DrainFails, imaging, vars, AcquireInv, DiskInv, Size
<1>6. CASE Closer
  <2>1. /\ file' = file /\ compression' = compression /\ broken' = broken
        /\ acquire' # "writing"
    BY <1>6 DEF Closer, Returned, imaging, vars
  <2>2. CASE disk' = [pages |-> Size(file), closed |-> TRUE]
    BY <1>1, <2>1, <2>2 DEF AcquireInv, DiskInv
  <2>3. CASE /\ compression # "none"
             /\ \E n \in disk.pages .. IF broken THEN disk.pages ELSE Size(file) :
                   disk' = [pages |-> n, closed |-> FALSE]
    <3>1. PICK n \in disk.pages .. IF broken THEN disk.pages ELSE Size(file) :
            disk' = [pages |-> n, closed |-> FALSE]
      BY <2>3
    <3>2. disk.pages <= Size(file) /\ Size(file) - disk.pages <= HELD
      BY <2>3 DEF AcquireInv, DiskInv
    <3>3. n \in Nat /\ disk.pages <= n /\ n <= Size(file)
      <4>1. CASE broken
        BY <1>1, <3>1, <3>2, <4>1
      <4>2. CASE ~broken
        BY <1>1, <3>1, <3>2, <4>2
      <4> QED BY <4>1, <4>2
    <3>4. Size(file) - n <= HELD
      BY <1>1, <3>2, <3>3
    <3>5. /\ disk'.pages = n /\ disk'.closed = FALSE
          /\ disk' \in [pages : Nat, closed : BOOLEAN]
      BY <3>1, <3>3
    <3>6. Size(file') = Size(file)
      BY <2>1
    <3>7. compression' \in Compressors /\ broken' \in BOOLEAN /\ compression' # "none"
      BY <2>1, <2>3 DEF AcquireInv, DiskInv
    <3> QED BY <3>3, <3>4, <3>5, <3>6, <3>7 DEF DiskInv, Size
  <2> QED BY <1>6, <2>2, <2>3 DEF Closer
<1>7. CASE Extract \/ Copy \/ CopyEnds \/ CopyFails
  BY <1>1, <1>7
  DEF Extract, Copy, CopyEnds, CopyFails, output, imaging, vars, AcquireInv, DiskInv, Size
<1> QED BY <1>2, <1>3, <1>4, <1>5, <1>6, <1>7 DEF AcquireNext, Running, WriteRefused

LEMMA OutcomeStep ==
    ASSUME AcquireInv, AcquireNext
    PROVE  OutcomeInv'
  BY DEF AcquireNext, Running, Image, WriteRefused, ImageStops, Drain, DrainFails, Closer,
         Returned, Extract, Copy, CopyEnds, CopyFails, output, imaging, vars, AcquireInv,
         OutcomeInv

\* What extract writes after m pages of the image is the image's continuation.
LEMMA CopyWrites ==
    ASSUME AcquireInv, Copy,
           NEW m \in 0 .. disk.pages, out = RawImages!Image(layout, m)
    PROVE  \E k \in 0 .. disk.pages : out' = RawImages!Image(layout, k)
<1>1. Size(file) \in Nat /\ file = RawImages!Image(layout, Size(file))
  BY FileSize DEF AcquireInv
<1>2. disk.pages \in Nat /\ disk.pages <= Size(file) /\ m \in Nat
  BY DEF AcquireInv, DiskInv
<1>3. Size(out) = m
  BY <1>2, ImageSize DEF Size
<1>4. PICK k \in 1 .. Smaller(BUFSIZE, disk.pages - m) :
        out' = Written(out, m, k, LAMBDA i : file[m + i])
  <2>1. PICK k \in 1 .. Smaller(BUFSIZE, disk.pages - Size(out)) :
          out' = Written(out, Size(out), k, LAMBDA i : file[Size(out) + i])
    BY DEF Copy
  <2>2. out' = Written(out, m, k, LAMBDA i : file[m + i])
    BY <1>3, <2>1 DEF Written
  <2> QED BY <1>3, <2>1, <2>2
<1>5. k \in Nat \ {0} /\ m + k <= disk.pages
  BY <1>2, <1>3, <1>4, BufsizeAssumption DEF Smaller, Copy, BufsizeAssumption
<1>6. \A p \in m .. (m + k) - 1 : file[m + (p - m)] = RawImages!Expected(layout, p)
  <2>1. \A p \in 0 .. Size(file) - 1 : file[p] = RawImages!Expected(layout, p)
    BY <1>1 DEF RawImages!Image
  <2> QED BY <1>1, <1>2, <1>5, <2>1
<1>7. \A p \in 0 .. m - 1 : out[p] = RawImages!Expected(layout, p)
  BY DEF RawImages!Image
<1>8. Larger(Cardinality(DOMAIN out), m + k) = m + k /\ Cardinality(DOMAIN out) = m
  BY <1>2, <1>3, <1>5 DEF Size, Larger
<1>9. out' = [p \in 0 .. (m + k) - 1 |->
                 IF m <= p /\ p < m + k THEN file[m + (p - m)]
                 ELSE IF p < m THEN out[p] ELSE Zero]
  BY <1>4, <1>8 DEF Written
<1>10. out' = RawImages!Image(layout, m + k)
  BY <1>2, <1>5, <1>6, <1>7, <1>9 DEF RawImages!Image
<1> QED BY <1>2, <1>5, <1>10

LEMMA OutStep ==
    ASSUME AcquireInv, AcquireNext
    PROVE  OutInv'
<1>1. PICK m \in 0 .. disk.pages :
        /\ out = RawImages!Image(layout, m)
        /\ extract = "ok" /\ compression = "gzip" => disk.closed /\ m = disk.pages
  BY DEF AcquireInv, OutInv
<1>2. disk.pages \in Nat /\ m \in Nat /\ Size(out) = m
  BY <1>1, ImageSize DEF AcquireInv, DiskInv, Size
<1>3. layout' = layout
  BY DEF AcquireNext, Running, Image, Work, WriteRefused, ImageStops, Stop, Drain, DrainFails,
     Closer, Extract, Copy, CopyEnds, CopyFails, output, imaging, vars, StartRange, Finish,
     PadSparse, PadBlock, PadDone, BulkRead, BulkFails, PageRead, PagesDone, EndRange
<1>4. CASE acquire = "writing"
  <2>1. extract = "no" /\ extract' = extract /\ out' = out
    BY <1>4
    DEF AcquireInv, OutcomeInv, AcquireNext, Running, Image, WriteRefused, ImageStops, Drain,
        DrainFails, Closer, Extract, Copy, CopyEnds, CopyFails
  <2>2. disk'.pages \in Nat /\ m <= disk'.pages
    <3>1. disk'.pages \in Nat
      BY DiskStep DEF DiskInv
    <3>2. disk.pages <= disk'.pages
      <4>1. /\ Size(file) \in Nat /\ disk.pages <= Size(file) /\ Size(file) <= Size(file')
            /\ Size(file') \in Nat /\ disk \in [pages : Nat, closed : BOOLEAN]
        BY FileSize, Underneath DEF AcquireInv, DiskInv
      <4>2. CASE Closer
        BY <1>2, <4>1, <4>2 DEF Closer
      <4>3. CASE Image
        <5>1. CASE compression = "none"
          BY <4>1, <4>3, <5>1 DEF Image, Size
        <5>2. CASE compression # "none"
          BY <1>2, <4>3, <5>2 DEF Image
        <5> QED BY <5>1, <5>2
      <4>4. CASE Drain
        BY <1>2, <4>1, <4>4 DEF Drain
      <4>5. CASE disk' = disk
        BY <1>2, <4>5
      <4> QED
        BY <4>2, <4>3, <4>4, <4>5
        DEF AcquireNext, Running, WriteRefused, ImageStops, DrainFails, Extract, Copy,
            CopyEnds, CopyFails, output
    <3> QED BY <1>1, <1>2, <3>1, <3>2
  <2>3. out' = RawImages!Image(layout', m) /\ extract' # "ok"
    BY <1>1, <1>3, <2>1
  <2> QED BY <1>2, <2>2, <2>3 DEF OutInv
<1>5. CASE acquire # "writing"
  <2>1. disk' = disk /\ compression' = compression
    BY <1>5 DEF AcquireNext, Running, Image, WriteRefused, ImageStops, Drain, DrainFails,
                Closer, Extract, Copy, CopyEnds, CopyFails, output
  <2>2. CASE Copy
    <3>1. extract' # "ok"
      BY <2>2 DEF Copy
    <3>2. PICK k \in 0 .. disk.pages : out' = RawImages!Image(layout, k)
      BY <1>1, <2>2, CopyWrites
    <3> QED BY <1>3, <2>1, <3>1, <3>2 DEF OutInv
  <2>3. CASE CopyEnds
    <3>1. out' = out /\ (extract' = "ok" /\ compression = "gzip" => disk.closed)
      BY <2>3 DEF CopyEnds
    <3>2. m = disk.pages
      BY <1>1, <1>2, <2>3 DEF CopyEnds
    <3> QED BY <1>1, <1>3, <2>1, <3>1, <3>2 DEF OutInv
  <2>4. CASE Extract \/ CopyFails
    BY <1>1, <1>3, <2>1, <2>4 DEF Extract, CopyFails, OutInv
  <2> QED
    BY <1>5, <2>2, <2>3, <2>4
    DEF AcquireNext, Running, Image, WriteRefused, ImageStops, Drain, DrainFails, Closer
<1> QED BY <1>4, <1>5

LEMMA AcquireStep == AcquireInv /\ [AcquireNext]_all => AcquireInv'
<1> SUFFICES ASSUME AcquireInv, [AcquireNext]_all PROVE AcquireInv'
  OBVIOUS
<1>1. CASE AcquireNext
  BY <1>1, Underneath, DiskStep, OutcomeStep, OutStep DEF AcquireInv
<1>2. CASE UNCHANGED all
  <2>1. UNCHANGED vars
    BY <1>2 DEF all
  <2>2. IInv'
    BY <2>1, StepInv DEF AcquireInv
  <2>3. DiskInv' /\ OutcomeInv'
    BY <1>2 DEF all, vars, AcquireInv, DiskInv, OutcomeInv, Size
  <2>4. OutInv'
    BY <1>2 DEF all, vars, AcquireInv, OutInv, RawImages!Image, RawImages!Expected
  <2> QED BY <2>2, <2>3, <2>4 DEF AcquireInv
<1> QED BY <1>1, <1>2

\* The invariant holds in every behaviour of doAcquire and doDecompress.
THEOREM AcquireInvariance == AcquireSpec => []AcquireInv
BY AcquireInitInv, AcquireStep, PTL DEF AcquireSpec

-----------------------------------------------------------------------------
\* The state of doAcquire and doDecompress is always well typed.
THEOREM OutputTypeCorrect == AcquireSpec => []OutputTypeOK
<1>1. AcquireInv => OutputTypeOK
  <2> SUFFICES ASSUME AcquireInv PROVE OutputTypeOK
    OBVIOUS
  <2>1. TypeOK /\ Size(file) \in Nat
    BY TypesHold, FileSize DEF AcquireInv
  <2>2. PICK m \in 0 .. disk.pages : out = RawImages!Image(layout, m)
    BY DEF AcquireInv, OutInv
  <2>3. DOMAIN out = 0 .. m - 1
    BY <2>2 DEF RawImages!Image
  <2>4. disk \in [pages : 0 .. Size(file), closed : BOOLEAN]
    BY <2>1 DEF AcquireInv, DiskInv
  <2> QED BY <2>1, <2>3, <2>4 DEF AcquireInv, DiskInv, OutcomeInv, OutputTypeOK, Compressors
<1> QED BY <1>1, AcquireInvariance, PTL

\* WriteTo keeps its place whatever it writes to.
THEOREM AddressesBehindWriters == AcquireSpec => []PositionIsAddress
BY AcquireInvariance, PTL DEF AcquireInv, IInv

\* An acquisition without an error misses on the disk what the compressor held at most.
THEOREM LossIsBoundedByHeld == AcquireSpec => []LossIsHeld
BY AcquireInvariance, PTL DEF AcquireInv, DiskInv, LossIsHeld

\* A gzip image acquired and extracted without an error is the whole raw image.
THEOREM TwoSuccessesAreComplete == AcquireSpec => []ExtractIsComplete
<1>1. AcquireInv => ExtractIsComplete
  BY FileSize DEF AcquireInv, DiskInv, OutcomeInv, OutInv, ExtractIsComplete
<1> QED BY <1>1, AcquireInvariance, PTL
=============================================================================

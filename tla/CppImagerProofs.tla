-------------------------- MODULE CppImagerProofs --------------------------
(***************************************************************************)
(* Theorems about write_raw_image, for every list of ranges, every set of  *)
(* hidden pages, every size of a bulk read and every disk: what it writes  *)
(* is where it belongs, and what it loses is bounded.                      *)
(***************************************************************************)
EXTENDS CppImager, SequenceTheorems, TLAPS

\* The range a of a memory, and the end of the ranges before the i-th.
StartOf(l, a) == l.runs[a].base
EndOf(l, a) == l.runs[a].base + l.runs[a].len
PagesOf(a) == StartOf(layout, a) .. EndOf(layout, a) - 1
Before == IF i = 1 THEN 0 ELSE EndOf(layout, i - 1)

\* Which of the ranges is worked on, and how far: the output's length is the cursor.
CursorInv ==
    /\ layout \in Layouts
    /\ flaky \in BOOLEAN
    /\ pc \in {"info", "range", "pad", "copy", "unwritten", "done", "failed"}
    /\ i \in 1 .. Len(layout.runs) + 1
    /\ current \in Nat /\ start \in Nat /\ out_offset \in Nat
    /\ pc \in {"pad", "copy", "unwritten"} => i <= Len(layout.runs)
    /\ pc \in {"info", "range", "done"} => current = Before /\ out_offset = current
    /\ pc = "done" => i = Len(layout.runs) + 1
    /\ pc = "pad" => /\ out_offset = current /\ start = Run.base
                     /\ Before <= current /\ current <= Run.base
    /\ pc \in {"copy", "unwritten"} => /\ out_offset = start
                                       /\ Run.base <= start /\ start <= EndOf(layout, i)
    /\ pc = "unwritten" => flaky /\ start < EndOf(layout, i)

\* A page in the output is its own, and none that is hidden.
FileInv ==
    /\ DOMAIN file = 0 .. out_offset - 1
    /\ \A p \in 0 .. out_offset - 1 :
          file[p] = Zero \/ (file[p] = p /\ p \notin layout.hidden)

IInv == CursorInv /\ FileInv /\ LossIsBounded

-----------------------------------------------------------------------------
(* Facts about ranges.                                                       *)

\* The ranges of a memory, and their order.
LEMMA RunFacts ==
    ASSUME NEW l \in Layouts
    PROVE  /\ Len(l.runs) \in Nat
           /\ DOMAIN l.runs = 1 .. Len(l.runs)
           /\ \A a \in 1 .. Len(l.runs) :
                 StartOf(l, a) \in Nat /\ EndOf(l, a) \in Nat /\ StartOf(l, a) < EndOf(l, a)
           /\ \A a, b \in 1 .. Len(l.runs) : a < b => EndOf(l, a) <= StartOf(l, b)
<1>1. l.runs \in Seq([base : Nat, len : Nat \ {0}])
  BY LayoutsAssumption DEF LayoutsAssumption
<1>2. Len(l.runs) \in Nat /\ DOMAIN l.runs = 1 .. Len(l.runs)
  BY <1>1
<1>3. ASSUME NEW a \in 1 .. Len(l.runs)
      PROVE  StartOf(l, a) \in Nat /\ EndOf(l, a) \in Nat /\ StartOf(l, a) < EndOf(l, a)
  <2>1. l.runs[a] \in [base : Nat, len : Nat \ {0}]
    BY <1>1, ElementOfSeq
  <2> QED BY <2>1 DEF StartOf, EndOf
<1>4. \A a, b \in 1 .. Len(l.runs) : a < b => EndOf(l, a) <= StartOf(l, b)
  BY <1>2, LayoutsAssumption DEF LayoutsAssumption, StartOf, EndOf
<1> QED BY <1>2, <1>3, <1>4

\* The range worked on lies behind those before it, and its end is not cut by the end of
\* memory, which is not before it.
LEMMA RangeFacts ==
    ASSUME CursorInv
    PROVE  /\ Before \in Nat
           /\ \A a \in 1 .. i - 1 : EndOf(layout, a) <= Before
           /\ i <= Len(layout.runs) =>
                /\ Run.base = StartOf(layout, i) /\ Run.base \in Nat
                /\ Run.base + Run.len = EndOf(layout, i) /\ EndOf(layout, i) \in Nat
                /\ Before <= Run.base /\ Run.base < EndOf(layout, i)
                /\ end = EndOf(layout, i)
<1> DEFINE N == Len(layout.runs)
<1>1. layout \in Layouts /\ i \in 1 .. N + 1 /\ N \in Nat
  BY RunFacts DEF CursorInv
<1>2. \A a \in 1 .. N : /\ StartOf(layout, a) \in Nat /\ EndOf(layout, a) \in Nat
                        /\ StartOf(layout, a) < EndOf(layout, a)
  BY <1>1, RunFacts
<1>3. \A a, b \in 1 .. N : a < b => EndOf(layout, a) <= StartOf(layout, b)
  BY <1>1, RunFacts
<1>4. /\ Run.base = StartOf(layout, i) /\ Run.base + Run.len = EndOf(layout, i)
      /\ max_physical_memory_ = EndOf(layout, N)
      /\ end = Smaller(EndOf(layout, i), EndOf(layout, N))
  BY DEF Run, StartOf, EndOf, end, max_physical_memory_, LastRun
<1> HIDE DEF N
<1>5. \A a \in 1 .. N : EndOf(layout, a) <= EndOf(layout, N)
  BY <1>1, <1>2, <1>3
<1>6. Before \in Nat /\ \A a \in 1 .. i - 1 : EndOf(layout, a) <= Before
  <2>1. CASE i = 1
    BY <2>1 DEF Before
  <2>2. CASE i > 1
    <3>1. i - 1 \in 1 .. N /\ Before = EndOf(layout, i - 1)
      BY <1>1, <2>2 DEF Before
    <3>2. \A a \in 1 .. i - 1 : a = i - 1 \/ EndOf(layout, a) <= StartOf(layout, i - 1)
      BY <1>1, <1>3, <3>1
    <3> QED BY <1>1, <1>2, <3>1, <3>2
  <2> QED BY <1>1, <2>1, <2>2
<1>7. i <= N => Before <= StartOf(layout, i)
  <2>1. CASE i = 1
    BY <1>1, <1>2, <2>1 DEF Before
  <2>2. CASE i > 1
    BY <1>1, <1>3, <2>2 DEF Before
  <2> QED BY <1>1, <2>1, <2>2
<1>8. i <= N => end = EndOf(layout, i)
  BY <1>1, <1>2, <1>4, <1>5 DEF Smaller
<1> QED BY <1>1, <1>2, <1>4, <1>6, <1>7, <1>8 DEF N

\* Between two ranges there is no page of any range.
LEMMA GapIsFree ==
    ASSUME CursorInv, i <= Len(layout.runs),
           NEW p \in Int, Before <= p, p < Run.base,
           NEW a \in DOMAIN layout.runs
    PROVE  p \notin PagesOf(a)
<1>1. layout \in Layouts /\ a \in 1 .. Len(layout.runs) /\ i \in 1 .. Len(layout.runs)
  BY RunFacts DEF CursorInv
<1>2. CASE a < i
  <2>1. EndOf(layout, a) <= Before /\ EndOf(layout, a) \in Nat /\ Before \in Nat
    BY <1>1, <1>2, RunFacts, RangeFacts
  <2> QED BY <2>1 DEF PagesOf
<1>3. CASE a >= i
  <2>1. Run.base <= StartOf(layout, a) /\ Run.base \in Nat /\ StartOf(layout, a) \in Nat
    <3>1. Run.base = StartOf(layout, i) /\ StartOf(layout, i) < EndOf(layout, i)
      BY <1>1, RangeFacts, RunFacts
    <3>2. a = i \/ EndOf(layout, i) <= StartOf(layout, a)
      BY <1>1, <1>3, RunFacts
    <3> QED BY <1>1, <3>1, <3>2, RunFacts
  <2> QED BY <2>1 DEF PagesOf
<1> QED BY <1>1, <1>2, <1>3

\* A page of the range worked on is in no other.
LEMMA OneRange ==
    ASSUME CursorInv, i <= Len(layout.runs),
           NEW p \in Int, Run.base <= p, p < EndOf(layout, i),
           NEW a \in DOMAIN layout.runs, p \in PagesOf(a)
    PROVE  a = i
<1>1. layout \in Layouts /\ a \in 1 .. Len(layout.runs) /\ i \in 1 .. Len(layout.runs)
  BY RunFacts DEF CursorInv
<1>2. /\ Run.base = StartOf(layout, i)
      /\ StartOf(layout, i) \in Nat /\ EndOf(layout, i) \in Nat
      /\ StartOf(layout, a) \in Nat /\ EndOf(layout, a) \in Nat
  BY <1>1, RangeFacts, RunFacts
<1>3. a < i => EndOf(layout, a) <= StartOf(layout, i)
  BY <1>1, RunFacts
<1>4. i < a => EndOf(layout, i) <= StartOf(layout, a)
  BY <1>1, RunFacts
<1> QED BY <1>1, <1>2, <1>3, <1>4 DEF PagesOf

\* A bulk read is not empty and stays in the range.
LEMMA BulkFacts ==
    ASSUME CursorInv, i <= Len(layout.runs), start < EndOf(layout, i)
    PROVE  /\ to_write \in Nat \ {0} /\ start + to_write <= EndOf(layout, i)
           /\ to_write <= MAXIMUM_BULK_READ
<1>1. end = EndOf(layout, i) /\ end \in Nat /\ start \in Nat
  BY RangeFacts DEF CursorInv
<1> QED BY <1>1, BulkAssumption DEF to_write, Smaller, BulkAssumption

-----------------------------------------------------------------------------
(* The invariant.                                                            *)

LEMMA InitInv == Init => IInv
<1> SUFFICES ASSUME Init PROVE IInv
  OBVIOUS
<1>1. CursorInv
  BY RunFacts DEF Init, CursorInv, Before
<1>2. FileInv /\ DOMAIN file = {}
  BY DEF Init, FileInv
<1> QED BY <1>1, <1>2 DEF IInv, LossIsBounded

\* n pages of zeros are written behind the others.
Zeros(n) ==
    /\ file' = [p \in 0 .. out_offset + n - 1 |-> IF p < out_offset THEN file[p] ELSE Zero]
    /\ out_offset' = out_offset + n

\* Zeros between the ranges, and zeros for a page with a hidden one a bulk ahead, keep
\* the loss bounded.
LEMMA ZerosKeep ==
    ASSUME IInv, NEW n \in Nat, Zeros(n), UNCHANGED <<layout, flaky>>,
           ~flaky => \A a \in DOMAIN layout.runs : \A p \in PagesOf(a) :
               out_offset <= p /\ p < out_offset + n =>
                   \E h \in layout.hidden \cap PagesOf(a) : p <= h /\ h < p + MAXIMUM_BULK_READ
    PROVE  FileInv' /\ LossIsBounded'
<1>1. /\ out_offset \in Nat /\ out_offset' = out_offset + n
      /\ DOMAIN file' = 0 .. out_offset' - 1
      /\ \A p \in 0 .. out_offset - 1 : file'[p] = file[p]
      /\ \A p \in 0 .. out_offset' - 1 : p >= out_offset => file'[p] = Zero
  BY DEF IInv, CursorInv, Zeros
<1>2. DOMAIN file = 0 .. out_offset - 1
  BY DEF IInv, FileInv
<1>3. FileInv'
  BY <1>1, <1>2 DEF IInv, FileInv
<1>4. \A a \in DOMAIN layout.runs :
        layout.runs[a].base .. layout.runs[a].base + layout.runs[a].len - 1 = PagesOf(a)
  <2> SUFFICES ASSUME NEW a \in DOMAIN layout.runs
               PROVE  layout.runs[a].base .. layout.runs[a].base + layout.runs[a].len - 1
                        = PagesOf(a)
    OBVIOUS
  <2>1. layout.runs[a] \in [base : Nat, len : Nat \ {0}]
    <3>1. layout \in Layouts
      BY DEF IInv, CursorInv
    <3>2. layout.runs \in Seq([base : Nat, len : Nat \ {0}]) /\ a \in 1 .. Len(layout.runs)
      BY <3>1, RunFacts, LayoutsAssumption DEF LayoutsAssumption
    <3> QED BY <3>2, ElementOfSeq
  <2> QED BY <2>1 DEF PagesOf, StartOf, EndOf
<1>5. ~flaky => \A a \in DOMAIN layout.runs : \A p \in PagesOf(a) \cap DOMAIN file :
          file[p] = Zero =>
              \E h \in layout.hidden \cap PagesOf(a) : p <= h /\ h < p + MAXIMUM_BULK_READ
  BY <1>4 DEF IInv, LossIsBounded
<1>6. ~flaky => \A a \in DOMAIN layout.runs : \A p \in PagesOf(a) \cap DOMAIN file' :
          file'[p] = Zero =>
              \E h \in layout.hidden \cap PagesOf(a) : p <= h /\ h < p + MAXIMUM_BULK_READ
  <2> SUFFICES ASSUME ~flaky, NEW a \in DOMAIN layout.runs, NEW p \in PagesOf(a) \cap DOMAIN file',
                      file'[p] = Zero
               PROVE  \E h \in layout.hidden \cap PagesOf(a) :
                          p <= h /\ h < p + MAXIMUM_BULK_READ
    OBVIOUS
  <2>1. p \in 0 .. out_offset' - 1
    BY <1>1
  <2>2. CASE p < out_offset
    BY <1>1, <1>2, <1>5, <2>1, <2>2
  <2>3. CASE p >= out_offset
    BY <1>1, <2>1, <2>3
  <2> QED BY <1>1, <2>1, <2>2, <2>3
<1>7. LossIsBounded'
  BY <1>4, <1>6 DEF LossIsBounded
<1> QED BY <1>3, <1>7

\* A step that writes nothing.
LEMMA UntouchedKeeps ==
    ASSUME IInv, UNCHANGED <<layout, flaky, file, out_offset>>
    PROVE  FileInv' /\ LossIsBounded'
  BY DEF IInv, FileInv, LossIsBounded

LEMMA StepInv == IInv /\ [Next]_vars => IInv'
<1> SUFFICES ASSUME IInv, [Next]_vars PROVE IInv'
  OBVIOUS
<1> USE DEF IInv
<1>1. /\ layout \in Layouts /\ Len(layout.runs) \in Nat /\ i \in 1 .. Len(layout.runs) + 1
      /\ current \in Nat /\ start \in Nat /\ out_offset \in Nat /\ Before \in Nat
  BY RunFacts, RangeFacts DEF CursorInv
<1>2. i <= Len(layout.runs) =>
        /\ Run.base \in Nat /\ EndOf(layout, i) \in Nat /\ end = EndOf(layout, i)
        /\ Run.base + Run.len = EndOf(layout, i)
        /\ Before <= Run.base /\ Run.base < EndOf(layout, i)
  BY RangeFacts
<1>3. layout' = layout /\ i' = i => Run' = Run /\ Before' = Before /\ end' = end
  BY DEF Run, Before, EndOf, end, max_physical_memory_, LastRun
<1>4. CASE GetInfo
  BY <1>1, <1>3, <1>4, UntouchedKeeps DEF GetInfo, CursorInv
<1>5. CASE StartRange
  BY <1>1, <1>2, <1>3, <1>5, UntouchedKeeps DEF StartRange, CursorInv, EndOf
<1>6. CASE Finish
  BY <1>1, <1>3, <1>6, UntouchedKeeps DEF Finish, CursorInv
<1>7. CASE PadBlock
  <2> DEFINE n == Smaller(MAXIMUM_BULK_READ, Run.base - current)
  <2>1. /\ i <= Len(layout.runs) /\ out_offset = current
        /\ Before <= current /\ current < Run.base
    BY <1>1, <1>2, <1>7 DEF PadBlock, CursorInv
  <2>2. n \in Nat \ {0} /\ current + n <= Run.base
    BY <1>1, <1>2, <2>1, BulkAssumption DEF Smaller, BulkAssumption
  <2>3. Zeros(n) /\ current' = current + n /\ UNCHANGED <<layout, flaky, pc, i, start>>
    BY <1>7 DEF PadBlock, WriteFile, Zeros
  <2> HIDE DEF n
  <2>4. \A a \in DOMAIN layout.runs : \A p \in PagesOf(a) :
            ~(out_offset <= p /\ p < out_offset + n)
    <3> SUFFICES ASSUME NEW a \in DOMAIN layout.runs,
                        NEW p \in PagesOf(a),
                        out_offset <= p, p < out_offset + n
                 PROVE  FALSE
      OBVIOUS
    <3>1. p \in Int
      BY <1>1, RunFacts DEF PagesOf
    <3>2. Before <= p /\ p < Run.base
      BY <1>1, <1>2, <2>1, <2>2, <3>1
    <3> QED BY <2>1, <3>1, <3>2, GapIsFree
  <2>5. FileInv' /\ LossIsBounded'
    BY <2>2, <2>3, <2>4, ZerosKeep
  <2>6. out_offset' = current'
    BY <2>1, <2>3 DEF Zeros
  <2>7. CursorInv'
    BY <1>1, <1>2, <1>3, <1>7, <2>1, <2>2, <2>3, <2>6 DEF CursorInv, PadBlock
  <2> QED BY <2>5, <2>7
<1>8. CASE PadDone
  BY <1>1, <1>2, <1>3, <1>8, UntouchedKeeps DEF PadDone, CursorInv, EndOf
<1>9. CASE CopyBulk
  <2>1. /\ i <= Len(layout.runs) /\ out_offset = start
        /\ Run.base <= start /\ start < EndOf(layout, i)
    BY <1>2, <1>9 DEF CopyBulk, CursorInv
  <2>2. /\ to_write \in Nat \ {0} /\ start + to_write <= EndOf(layout, i)
        /\ Readable(start, to_write)
    BY <2>1, <1>9, BulkFacts DEF CopyBulk
  <2>3. PICK n \in 1 .. to_write :
          /\ file' = [p \in 0 .. out_offset + n - 1 |->
                        IF p < out_offset THEN file[p] ELSE start + (p - out_offset)]
          /\ out_offset' = out_offset + n
          /\ start' = start + n
    <3>1. PICK n \in IF flaky THEN 1 .. to_write ELSE {to_write} :
            WriteFile(n, LAMBDA k : start + k) /\ start' = start + n
      BY <1>9 DEF CopyBulk
    <3>2. n \in 1 .. to_write
      <4>1. CASE flaky
        BY <3>1, <4>1
      <4>2. CASE ~flaky
        <5>1. n = to_write
          BY <3>1, <4>2
        <5> QED BY <2>2, <5>1
      <4> QED BY <4>1, <4>2
    <3> QED BY <3>1, <3>2 DEF WriteFile
  <2>4. UNCHANGED <<layout, flaky, pc, i, current>>
    BY <1>9 DEF CopyBulk
  <2>5. /\ n \in Nat /\ out_offset' = out_offset + n
        /\ DOMAIN file' = 0 .. out_offset' - 1
        /\ \A p \in 0 .. out_offset - 1 : file'[p] = file[p]
        /\ \A p \in 0 .. out_offset' - 1 : p >= out_offset => file'[p] = start + (p - out_offset)
    BY <1>1, <2>2, <2>3
  <2>6. \A p \in 0 .. out_offset' - 1 : p >= out_offset =>
            file'[p] = p /\ p \notin layout.hidden
    BY <1>1, <2>1, <2>2, <2>3, <2>5 DEF Readable
  <2>7. DOMAIN file = 0 .. out_offset - 1
    BY DEF FileInv
  <2>8. FileInv'
    BY <1>1, <2>4, <2>5, <2>6, <2>7 DEF FileInv
  <2>9. LossIsBounded'
    <3>1. \A p \in DOMAIN file' : file'[p] = Zero => p \in DOMAIN file /\ file[p] = Zero
      <4> SUFFICES ASSUME NEW p \in DOMAIN file', file'[p] = Zero
                   PROVE  p \in DOMAIN file /\ file[p] = Zero
        OBVIOUS
      <4>1. p \in 0 .. out_offset' - 1
        BY <2>5
      <4>2. ~(p >= out_offset)
        BY <2>6, <4>1 DEF Zero
      <4> QED BY <1>1, <2>5, <2>7, <4>1, <4>2
    <3> QED BY <2>4, <3>1 DEF LossIsBounded
  <2>10. CursorInv'
    <3>1. /\ start' \in Nat /\ out_offset' = start' /\ Run.base <= start'
          /\ start' <= EndOf(layout, i)
      BY <1>1, <1>2, <2>1, <2>2, <2>3
    <3>2. pc = "copy" /\ Run' = Run /\ EndOf(layout', i') = EndOf(layout, i)
      BY <1>3, <1>9, <2>4 DEF CopyBulk
    <3> QED BY <1>1, <2>1, <2>4, <3>1, <3>2 DEF CursorInv
  <2> QED BY <2>8, <2>9, <2>10
<1>10. CASE BulkNotWritten
  BY <1>1, <1>2, <1>3, <1>10, UntouchedKeeps DEF BulkNotWritten, CursorInv, EndOf
<1>11. CASE ZeroPage
  <2>1. /\ i <= Len(layout.runs) /\ out_offset = start
        /\ Run.base <= start /\ start < EndOf(layout, i)
    BY <1>2, <1>11 DEF ZeroPage, CursorInv
  <2>2. /\ Zeros(1) /\ start' = start + 1 /\ pc' = "copy"
        /\ UNCHANGED <<layout, flaky, i, current>>
    BY <1>11 DEF ZeroPage, WriteFile, Zeros
  <2>3. ASSUME ~flaky, NEW a \in DOMAIN layout.runs,
               NEW p \in PagesOf(a),
               out_offset <= p, p < out_offset + 1
        PROVE  \E h \in layout.hidden \cap PagesOf(a) :
                  p <= h /\ h < p + MAXIMUM_BULK_READ
    <3>1. ~Readable(start, to_write)
      BY <1>11, <2>3 DEF ZeroPage, CursorInv
    <3>2. /\ to_write \in Nat \ {0} /\ start + to_write <= EndOf(layout, i)
          /\ to_write <= MAXIMUM_BULK_READ
      BY <2>1, BulkFacts
    <3>3. PICK h \in start .. (start + to_write) - 1 : h \in layout.hidden
      BY <1>1, <3>1, <3>2 DEF Readable
    <3>4. p \in Int
      BY <1>1, RunFacts DEF PagesOf
    <3>5. p = start
      BY <1>1, <2>1, <2>3, <3>4
    <3>6. a = i
      BY <2>1, <3>4, <3>5, OneRange
    <3>7. h \in PagesOf(i) /\ p <= h /\ h < p + MAXIMUM_BULK_READ
      BY <1>1, <1>2, <2>1, <3>2, <3>3, <3>5, BulkAssumption, RangeFacts
      DEF BulkAssumption, PagesOf
    <3> QED BY <3>3, <3>6, <3>7
  <2>4. FileInv' /\ LossIsBounded'
    BY <2>2, <2>3, ZerosKeep
  <2>5. out_offset' = start'
    BY <2>1, <2>2 DEF Zeros
  <2>6. CursorInv'
    BY <1>1, <1>2, <1>3, <2>1, <2>2, <2>5 DEF CursorInv, EndOf
  <2> QED BY <2>4, <2>6
<1>12. CASE EndRange
  <2>1. /\ i <= Len(layout.runs) /\ out_offset = start
        /\ start = EndOf(layout, i) /\ current' = EndOf(layout, i)
    BY <1>1, <1>2, <1>12 DEF EndRange, CursorInv
  <2>2. i' = i + 1 /\ layout' = layout /\ Before' = EndOf(layout, i)
    <3>1. i' = i + 1 /\ layout' = layout
      BY <1>12 DEF EndRange
    <3>2. i' - 1 = i /\ i' # 1
      BY <1>1, <3>1
    <3> QED BY <3>1, <3>2 DEF Before
  <2> QED BY <1>1, <1>2, <1>12, <2>1, <2>2, UntouchedKeeps DEF EndRange, CursorInv
<1>13. CASE IoError
  BY <1>1, <1>3, <1>13, UntouchedKeeps DEF IoError, CursorInv
<1>14. CASE UNCHANGED vars
  BY <1>3, <1>14, UntouchedKeeps DEF vars, CursorInv, EndOf
<1> QED
  BY <1>4, <1>5, <1>6, <1>7, <1>8, <1>9, <1>10, <1>11, <1>12, <1>13, <1>14 DEF Next

\* The invariant holds in every behaviour of write_raw_image.
THEOREM Invariance == Spec => []IInv
BY InitInv, StepInv, PTL DEF Spec

-----------------------------------------------------------------------------
\* The state of write_raw_image is always well typed.
THEOREM TypeCorrect == Spec => []TypeOK
<1>1. IInv => TypeOK
  BY DEF IInv, CursorInv, FileInv, TypeOK
<1> QED BY <1>1, Invariance, PTL

\* Whatever reads and writes fail, no page of the output holds another page of memory.
THEOREM PagesStayInPlace == Spec => []NoPageMisplaced
<1>1. IInv => NoPageMisplaced
  BY DEF IInv, FileInv, NoPageMisplaced
<1> QED BY <1>1, Invariance, PTL

\* Of good memory no more is lost to a hidden page than a bulk read that reaches it.
THEOREM LossesAreBounded == Spec => []LossIsBounded
BY Invariance, PTL DEF IInv

\* When write_raw_image reports success the file holds every range to its end.
THEOREM SuccessIsComplete ==
    Spec => [](pc = "done" => /\ out_offset = current
                              /\ \A k \in DOMAIN layout.runs : EndOf(layout, k) <= out_offset)
<1>1. ASSUME IInv, pc = "done"
      PROVE  /\ out_offset = current
             /\ \A k \in DOMAIN layout.runs : EndOf(layout, k) <= out_offset
  <2>1. layout \in Layouts /\ i = Len(layout.runs) + 1 /\ out_offset = current /\ current = Before
    BY <1>1 DEF IInv, CursorInv
  <2>2. DOMAIN layout.runs = 1 .. i - 1
    BY <2>1, RunFacts
  <2> QED BY <1>1, <2>1, <2>2, RangeFacts DEF IInv
<1> QED BY <1>1, Invariance, PTL
=============================================================================

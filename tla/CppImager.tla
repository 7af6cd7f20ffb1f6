----------------------------- MODULE CppImager -----------------------------
(***************************************************************************)
(* WinPmem::write_raw_image of src/executable/winpmem.cpp, the C++ tool's  *)
(* acquisition loop, with pad and copy_memory.  copy_memory reads up to    *)
(* MAXIMUM_BULK_READ at a time; when the driver reports no bytes it writes *)
(* ONE page of zeros and goes on with a bulk read from the next page.      *)
(*                                                                         *)
(* The device answers as PmemRead does: everything, or an error with       *)
(* Information = 0 - so ReadFile never returns an error together with      *)
(* bytes.  The unit is the page.                                           *)
(***************************************************************************)
EXTENDS Integers, Sequences

CONSTANTS
    Layouts,              \* the memories considered: records [runs, hidden]
    MAXIMUM_BULK_READ     \* pages in a bulk read and in a block of padding

ASSUME BulkAssumption == MAXIMUM_BULK_READ \in Nat \ {0}

\* The driver reports the ranges as MmGetPhysicalMemoryRanges does: none is empty, they
\* ascend and do not overlap.
ASSUME LayoutsAssumption ==
    \A l \in Layouts :
        /\ l.runs \in Seq([base : Nat, len : Nat \ {0}])
        /\ \A a, b \in DOMAIN l.runs :
              a < b => l.runs[a].base + l.runs[a].len <= l.runs[b].base

VARIABLES
    layout,      \* info.Run, and the pages that cannot be read
    flaky,       \* some calls fail (a full disk, a broken pipe)
    pc,          \* "info", "range", "pad", "copy", "unwritten", "done", "failed"
    i,           \* index of the range being handled
    current,     \* write_raw_image's cursor; in pad, the end of the padding
    start,       \* copy_memory's cursor
    file,        \* the output, a function from 0 .. out_offset - 1
    out_offset   \* bytes written so far, in pages

vars == <<layout, flaky, pc, i, current, start, file, out_offset>>

Zero == -1

Smaller(a, b) == IF a <= b THEN a ELSE b

Run == layout.runs[i]
LastRun == layout.runs[Len(layout.runs)]
\* print_memory_info leaves the end of the last range here.
max_physical_memory_ == LastRun.base + LastRun.len
end == Smaller(Run.base + Run.len, max_physical_memory_)
\* Mutant: a bulk read is not cut at the end of the range.
to_writeUncut == MAXIMUM_BULK_READ
to_write == Smaller(MAXIMUM_BULK_READ, end - start)

Readable(from, n) == \A p \in from .. from + n - 1 : p \notin layout.hidden

\* WriteFile of n pages new(0), new(1), ...
WriteFile(n, new(_)) ==
    /\ file' = [p \in 0 .. out_offset + n - 1 |->
                  IF p < out_offset THEN file[p] ELSE new(p - out_offset)]
    /\ out_offset' = out_offset + n

Init ==
    /\ layout \in Layouts
    /\ flaky \in BOOLEAN
    /\ pc = "info"
    /\ i = 1 /\ current = 0 /\ start = 0
    /\ file = [p \in 0 .. -1 |-> Zero]
    /\ out_offset = 0

-----------------------------------------------------------------------------
(* write_raw_image.                                                          *)

\* An output is open and the driver has told its ranges.
GetInfo ==
    /\ pc = "info"
    /\ pc' = "range"
    /\ UNCHANGED <<layout, flaky, i, current, start, file, out_offset>>

StartRange ==
    /\ pc = "range"
    /\ i <= Len(layout.runs)
    /\ pc' = IF Run.base > current THEN "pad" ELSE "copy"
    /\ start' = Run.base
    /\ UNCHANGED <<layout, flaky, i, current, file, out_offset>>

Finish ==
    /\ pc = "range"
    /\ i > Len(layout.runs)
    /\ pc' = "done"
    /\ UNCHANGED <<layout, flaky, i, current, start, file, out_offset>>

\* pad: blocks of zeros until the range starts.
PadBlock ==
    /\ pc = "pad"
    /\ current < Run.base
    /\ LET n == Smaller(MAXIMUM_BULK_READ, Run.base - current)
       IN  WriteFile(n, LAMBDA k : Zero) /\ current' = current + n
    /\ UNCHANGED <<layout, flaky, pc, i, start>>

PadDone ==
    /\ pc = "pad"
    /\ current = Run.base
    /\ pc' = "copy"
    /\ UNCHANGED <<layout, flaky, i, current, start, file, out_offset>>

-----------------------------------------------------------------------------
(* copy_memory.                                                              *)

\* ReadFile gave bytes and WriteFile took them - or, to a pipe, the first of them.
CopyBulk ==
    /\ pc = "copy"
    /\ start < end
    /\ Readable(start, to_write)
    /\ \E n \in IF flaky THEN 1 .. to_write ELSE {to_write} :
          WriteFile(n, LAMBDA k : start + k) /\ start' = start + n
    /\ UNCHANGED <<layout, flaky, pc, i, current>>

\* ReadFile gave bytes and WriteFile did not take them: result, which held
\* ReadFile's answer, is now FALSE.
BulkNotWritten ==
    /\ pc = "copy"
    /\ start < end
    /\ Readable(start, to_write)
    /\ flaky
    /\ pc' = "unwritten"
    /\ UNCHANGED <<layout, flaky, i, current, start, file, out_offset>>

\* Mutant: zeros stand for the whole bulk read.
ZeroBulk ==
    /\ pc = "unwritten" \/ (pc = "copy" /\ start < end /\ ~Readable(start, to_write))
    /\ WriteFile(to_write, LAMBDA k : Zero)
    /\ start' = start + to_write
    /\ pc' = "copy"
    /\ UNCHANGED <<layout, flaky, i, current>>

\* Mutant: the read that failed is tried again.
ReadAgain ==
    /\ pc = "unwritten" \/ (pc = "copy" /\ start < end /\ ~Readable(start, to_write))
    /\ pc' = "copy"
    /\ UNCHANGED <<layout, flaky, i, current, start, file, out_offset>>

\* ReadFile gave no bytes, or the write of its bytes failed: one page of zeros.
ZeroPage ==
    /\ pc = "unwritten" \/ (pc = "copy" /\ start < end /\ ~Readable(start, to_write))
    /\ WriteFile(1, LAMBDA k : Zero)
    /\ start' = start + 1
    /\ pc' = "copy"
    /\ UNCHANGED <<layout, flaky, i, current>>

\* Mutant: the loop stops a page before the end of the range.
EndRangeEarly ==
    /\ pc = "copy"
    /\ start >= end - 1
    /\ current' = Run.base + Run.len
    /\ i' = i + 1
    /\ pc' = "range"
    /\ UNCHANGED <<layout, flaky, start, file, out_offset>>

\* Mutant: write_raw_image's loop moves on by two ranges.
EndRangeTwice ==
    /\ pc = "copy"
    /\ start >= end
    /\ current' = Run.base + Run.len
    /\ i' = i + 2
    /\ pc' = "range"
    /\ UNCHANGED <<layout, flaky, start, file, out_offset>>

EndRange ==
    /\ pc = "copy"
    /\ start >= end
    /\ current' = Run.base + Run.len
    /\ i' = i + 1
    /\ pc' = "range"
    /\ UNCHANGED <<layout, flaky, start, file, out_offset>>

\* The ranges could not be asked for, a seek or a write of zeros failed.
IoError ==
    /\ flaky
    /\ \/ pc = "info"
       \/ pc = "pad" /\ current < Run.base
       \/ pc = "unwritten"
       \/ pc = "copy" /\ start < end
    /\ pc' = "failed"
    /\ UNCHANGED <<layout, flaky, i, current, start, file, out_offset>>

Next ==
    \/ GetInfo \/ StartRange \/ Finish \/ PadBlock \/ PadDone
    \/ CopyBulk \/ BulkNotWritten \/ ZeroPage \/ EndRange \/ IoError

\* The program is one thread; it runs until it returns.
Spec == Init /\ [][Next]_vars /\ WF_vars(Next)

-----------------------------------------------------------------------------
(* Properties.                                                               *)

\* The types of write_raw_image's state.
TypeOK ==
    /\ layout \in Layouts
    /\ flaky \in BOOLEAN
    /\ pc \in {"info", "range", "pad", "copy", "unwritten", "done", "failed"}
    /\ i \in 1 .. Len(layout.runs) + 1
    /\ current \in Nat /\ start \in Nat /\ out_offset \in Nat
    /\ DOMAIN file = 0 .. out_offset - 1
    /\ \A p \in DOMAIN file : file[p] \in Nat \cup {Zero}

\* A page of the file holds that very page of memory or zeros - never another page,
\* never a page the hypervisor hides - whichever reads and writes failed.
NoPageMisplaced ==
    \A p \in DOMAIN file : file[p] # Zero => file[p] = p /\ p \notin layout.hidden

\* What one hidden page costs: while the disk takes every write, zeros stand for a page
\* of a range only if a hidden page of that range lies less than a bulk read ahead.
LossIsBounded ==
    ~flaky => \A k \in DOMAIN layout.runs :
        LET pages == layout.runs[k].base .. layout.runs[k].base + layout.runs[k].len - 1
        IN  \A p \in pages \cap DOMAIN file : file[p] = Zero =>
                \E h \in layout.hidden \cap pages : p <= h /\ h < p + MAXIMUM_BULK_READ

\* write_raw_image returns, and reports success only for a file that holds every range.
EndsCompleteOrFailed ==
    <>(\/ pc = "failed"
       \/ pc = "done" /\ out_offset = current /\ \A k \in DOMAIN layout.runs :
             layout.runs[k].base + layout.runs[k].len <= out_offset)
=============================================================================

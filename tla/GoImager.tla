------------------------------ MODULE GoImager ------------------------------
(***************************************************************************)
(* Imager.WriteTo of go-winpmem/imager.go: the acquisition loop of the     *)
(* current user-mode tool.  For every memory range it pads the output up   *)
(* to the range (writing zeros, or seeking in sparse mode) and copies the  *)
(* range in bulk reads; a bulk read that fails is repeated page by page,   *)
(* and a page that still fails becomes a page of zeros.                    *)
(*                                                                         *)
(* The device answers as the driver does: a read gives everything or an    *)
(* error.  A page read fails exactly if the page is hidden; a bulk read    *)
(* fails if it contains a hidden page, and may fail for other reasons.     *)
(* The unit is the page, BUFSIZE counts pages.                             *)
(***************************************************************************)
EXTENDS Integers, Sequences, FiniteSets

CONSTANTS
    Layouts,     \* the memories considered: records [runs, hidden]
    BUFSIZE      \* pages in a bulk read and in a block of padding

ASSUME BufsizeAssumption == BUFSIZE \in Nat \ {0}

\* The driver reports the ranges as MmGetPhysicalMemoryRanges does: none is empty, they
\* ascend and do not overlap.
ASSUME LayoutsAssumption ==
    \A l \in Layouts :
        /\ l.runs \in Seq([base : Nat, len : Nat \ {0}])
        /\ \A a, b \in DOMAIN l.runs :
              a < b => l.runs[a].base + l.runs[a].len <= l.runs[b].base

VARIABLES
    layout,      \* stats.Run, and the pages that cannot be read
    sparse,      \* sparse_output, on a writer that can seek
    pc,          \* "range", "pad", "copy", "pages", "done", "failed"
    r,           \* index of the range being handled (WriteTo's loop)
    padding,     \* pages of padding still to write (pad's size - offset)
    offset,      \* next page to read (copyRange's offset)
    page,        \* next page of the fallback loop (copyRange's i)
    file, pos    \* the output: its content and its write position

vars == <<layout, sparse, pc, r, padding, offset, page, file, pos>>

Zero == -1

Smaller(a, b) == IF a <= b THEN a ELSE b
Larger(a, b)  == IF a >= b THEN a ELSE b

Run == layout.runs[r]
RunEnd == Run.base + Run.len
\* copyRange's offset+to_read, the end of the current bulk.
BulkEnd == offset + Smaller(BUFSIZE, RunEnd - offset)
Readable(from, to) == \A p \in from .. to - 1 : p \notin layout.hidden

\* What a file holds after n pages new(0), new(1) ... are written at position at;
\* a hole left by seeking past the end reads as zeros.
Written(f, at, n, new(_)) ==
    LET size == Cardinality(DOMAIN f)
    IN  [p \in 0 .. Larger(size, at + n) - 1 |->
            IF at <= p /\ p < at + n THEN new(p - at)
            ELSE IF p < size THEN f[p] ELSE Zero]

Write(n, new(_)) ==
    /\ file' = Written(file, pos, n, new)
    /\ pos' = pos + n

Init ==
    /\ layout \in Layouts
    /\ sparse \in BOOLEAN
    /\ pc = "range"
    /\ r = 1
    /\ padding = 0 /\ offset = 0 /\ page = 0
    /\ file = [p \in 0 .. -1 |-> Zero]
    /\ pos = 0

-----------------------------------------------------------------------------
\* Mutant: the gap before a range is not padded.
StartRangeUnpadded ==
    /\ pc = "range"
    /\ r <= Len(layout.runs)
    /\ padding' = 0
    /\ pc' = "copy"
    /\ offset' = Run.base
    /\ UNCHANGED <<layout, sparse, r, page, file, pos>>

\* WriteTo: offset lags behind the base of the next range by the gap to pad.
StartRange ==
    /\ pc = "range"
    /\ r <= Len(layout.runs)
    /\ padding' = Larger(Run.base - offset, 0)
    /\ pc' = IF offset < Run.base THEN "pad" ELSE "copy"
    /\ offset' = Run.base
    /\ UNCHANGED <<layout, sparse, r, page, file, pos>>

Finish ==
    /\ pc = "range"
    /\ r > Len(layout.runs)
    /\ pc' = "done"
    /\ UNCHANGED <<layout, sparse, r, padding, offset, page, file, pos>>

\* pad, on a writer that can seek: one relative seek.
PadSparse ==
    /\ pc = "pad"
    /\ sparse
    /\ pos' = pos + padding
    /\ padding' = 0
    /\ pc' = "copy"
    /\ UNCHANGED <<layout, sparse, r, offset, page, file>>

\* pad, writing one block of zeros.
PadBlock ==
    /\ pc = "pad"
    /\ ~sparse
    /\ padding > 0
    /\ Write(Smaller(padding, BUFSIZE), LAMBDA i : Zero)
    /\ padding' = padding - Smaller(padding, BUFSIZE)
    /\ UNCHANGED <<layout, sparse, pc, r, offset, page>>

PadDone ==
    /\ pc = "pad"
    /\ ~sparse
    /\ padding = 0
    /\ pc' = "copy"
    /\ UNCHANGED <<layout, sparse, r, padding, offset, page, file, pos>>

\* copyRange: a bulk read that succeeds is written whole.
BulkRead ==
    /\ pc = "copy"
    /\ offset < RunEnd
    /\ Readable(offset, BulkEnd)
    /\ Write(BulkEnd - offset, LAMBDA i : offset + i)
    /\ offset' = BulkEnd
    /\ UNCHANGED <<layout, sparse, pc, r, padding, page>>

BulkFails ==
    /\ pc = "copy"
    /\ offset < RunEnd
    /\ page' = offset
    /\ pc' = "pages"
    /\ UNCHANGED <<layout, sparse, r, padding, offset, file, pos>>

\* Mutant: a page that cannot be read is skipped, not padded.
PageReadSkips ==
    /\ pc = "pages"
    /\ page < BulkEnd
    /\ IF Readable(page, page + 1) THEN Write(1, LAMBDA i : page) ELSE UNCHANGED <<file, pos>>
    /\ page' = page + 1
    /\ UNCHANGED <<layout, sparse, pc, r, padding, offset>>

\* The fallback: read one page, or write a page of zeros for it.
PageRead ==
    /\ pc = "pages"
    /\ page < BulkEnd
    /\ Write(1, LAMBDA i : IF Readable(page, page + 1) THEN page ELSE Zero)
    /\ page' = page + 1
    /\ UNCHANGED <<layout, sparse, pc, r, padding, offset>>

PagesDone ==
    /\ pc = "pages"
    /\ page = BulkEnd
    /\ offset' = BulkEnd
    /\ pc' = "copy"
    /\ UNCHANGED <<layout, sparse, r, padding, page, file, pos>>

\* copyRange returns, WriteTo moves on.
EndRange ==
    /\ pc = "copy"
    /\ offset >= RunEnd
    /\ r' = r + 1
    /\ pc' = "range"
    /\ UNCHANGED <<layout, sparse, padding, offset, page, file, pos>>

\* A seek or a write fails, or the context was cancelled: the error is returned
\* and WriteTo stops where it is.
Stop ==
    /\ pc \in {"pad", "copy", "pages"}
    /\ pc' = "failed"
    /\ UNCHANGED <<layout, sparse, r, padding, offset, page, file, pos>>

Work ==
    \/ StartRange \/ Finish \/ PadSparse \/ PadBlock \/ PadDone
    \/ BulkRead \/ BulkFails \/ PageRead \/ PagesDone \/ EndRange

Next == Work \/ Stop

\* The goroutine runs; nothing obliges a user to cancel.
Spec == Init /\ [][Next]_vars /\ WF_vars(Work)

-----------------------------------------------------------------------------
(* Properties.                                                               *)

\* The types of WriteTo's state.
TypeOK ==
    /\ layout \in Layouts
    /\ sparse \in BOOLEAN
    /\ pc \in {"range", "pad", "copy", "pages", "done", "failed"}
    /\ r \in 1 .. Len(layout.runs) + 1
    /\ padding \in Nat /\ offset \in Nat /\ page \in Nat /\ pos \in Nat
    /\ \E s \in 0 .. pos : DOMAIN file = 0 .. s - 1

\* WriteTo never writes a page anywhere but at its own address: while it copies,
\* the output position is the page it reads next; while it pads, it is short of
\* the range by the padding still due.
PositionIsAddress ==
    /\ pc = "copy" => pos = offset
    /\ pc = "pages" => pos = page
    /\ pc = "pad" => pos + padding = offset
    /\ pc = "range" => pos = offset

\* WriteTo produces the raw image of the memory - in sparse mode too, where the
\* gaps are never written - and ends.
RawImages == INSTANCE RawImage WITH
    status <- IF pc \in {"done", "failed"} THEN pc ELSE "running"
ProducesRawImage == RawImages!Spec
=============================================================================

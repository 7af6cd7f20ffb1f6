------------------------------ MODULE GoReadAt ------------------------------
(***************************************************************************)
(* Imager.ReadAt of go-winpmem/imager.go with getRun and readAt: goroutines*)
(* that read at offsets of their own, through one device handle, one mutex *)
(* and one remembered run - and a WriteTo on the same handle, which does   *)
(* not take the mutex (GoImager has what WriteTo makes of its reads).      *)
(*                                                                         *)
(* Reading is seek and then ReadFile; the handle has one file pointer, and *)
(* the driver leaves it where the seek put it.  A ReadFile gives everything*)
(* or an error: an error if it touches a hidden page, and a bulk may fail  *)
(* for other reasons.  A byte is named by its address.                     *)
(*                                                                         *)
(* Abstracted: the slice a caller passes has no capacity beyond its length;*)
(* runs are whole pages, as Windows reports them.                          *)
(***************************************************************************)
EXTENDS Integers, Sequences, FiniteSets, FiniteSetsExt

CONSTANTS
    Readers,     \* goroutines that call ReadAt
    Nobody,      \* the owner of a mutex that is free
    Layouts,     \* the memories considered: records [runs, hidden], hidden page numbers
    Requests,    \* the reads they ask for: records [offset, len]
    PAGE_SIZE,   \* bytes in a page
    Together     \* whether callers let ReadAt and WriteTo overlap

ASSUME PageSizeAssumption == PAGE_SIZE \in Nat \ {0}
ASSUME NobodyAssumption == Nobody \notin Readers
ASSUME TogetherAssumption == Together \in BOOLEAN
\* The driver reports ranges that are not empty, ascend and do not overlap.
ASSUME LayoutsAssumption ==
    \A l \in Layouts :
        /\ l.runs \in Seq([base : Nat, len : Nat \ {0}])
        /\ \A a, b \in DOMAIN l.runs :
              a < b => l.runs[a].base + l.runs[a].len <= l.runs[b].base
ASSUME RequestsAssumption == Requests \subseteq [offset : Nat, len : Nat]

VARIABLES
    layout,      \* stats.Run, and the pages that cannot be read
    last_run,    \* the run getRun found last; NoRun for nil
    mu,          \* the owner of Imager.mu
    fp,          \* the file pointer of the device handle
    pc, req,     \* where each reader is, what it was asked
    i, k,        \* ReadAt's i; readAt's i, the page of the fallback
    to_read,     \* readAt's to_read
    buf,         \* the caller's buffer
    result,      \* what ReadAt returned: [n, err], or NoResult
    writer       \* WriteTo: [pc, offset]

reader == <<pc, req, i, k, to_read, buf, result>>
vars == <<layout, last_run, mu, fp, reader, writer>>

Untouched == -2
Zero == -1
NoRun == [Address |-> 0, Size |-> 0, Sparse |-> TRUE]
NoResult == [n |-> 0, err |-> "none"]

Smaller(a, b) == IF a <= b THEN a ELSE b

\* Every page that a read of n bytes at a touches can be read.
Readable(a, n) ==
    \A p \in layout.hidden : p < a \div PAGE_SIZE \/ p > (a + n - 1) \div PAGE_SIZE

\* The buffer b with the cells from .. from + n - 1 set to new(0), new(1) ...
Filled(b, from, n, new(_)) ==
    [c \in DOMAIN b |-> IF from <= c /\ c < from + n THEN new(c - from) ELSE b[c]]

Init ==
    /\ layout \in Layouts
    /\ last_run = NoRun
    /\ mu = Nobody
    /\ fp = 0
    /\ pc = [g \in Readers |-> "idle"]
    /\ req = [g \in Readers |-> [offset |-> 0, len |-> 0]]
    /\ i = [g \in Readers |-> 0]
    /\ k = [g \in Readers |-> 0]
    /\ to_read = [g \in Readers |-> 0]
    /\ buf = [g \in Readers |-> <<>>]
    /\ result = [g \in Readers |-> NoResult]
    /\ writer = [pc |-> "idle", offset |-> 0]

-----------------------------------------------------------------------------
(* getRun.                                                                   *)

Contains(run, offset) == run.Address <= offset /\ offset < run.Address + run.Size

\* Mutant: the byte after a run still counts as its last.
RememberedTooLong(offset) ==
    /\ last_run.Size > 0
    /\ last_run.Address <= offset /\ offset <= last_run.Address + last_run.Size

\* The run that is remembered may answer.
Remembered(offset) == Contains(last_run, offset)

\* The first range that holds the offset or lies beyond it; before a range there is a
\* gap, after the last one nothing.
FoundRun(offset) ==
    LET runs == layout.runs
        found == {n \in DOMAIN runs : offset < runs[n].base + runs[n].len}
        r == runs[Min(found)]
    IN  IF found = {} THEN NoRun
        ELSE IF offset < r.base
             THEN [Address |-> offset, Size |-> r.base - offset, Sparse |-> TRUE]
             ELSE [Address |-> r.base, Size |-> r.len, Sparse |-> FALSE]

GetRun(offset) == IF Remembered(offset) THEN last_run ELSE FoundRun(offset)

\* What getRun finds is remembered, except that there is nothing.
Remember(run) == last_run' = IF run = NoRun THEN last_run ELSE run

-----------------------------------------------------------------------------
(* ReadAt.                                                                   *)

\* A client asks for a read.
Call(g) ==
    /\ pc[g] = "idle"
    /\ Together \/ writer.pc = "idle"
    /\ \E r \in Requests :
          /\ req' = [req EXCEPT ![g] = r]
          /\ buf' = [buf EXCEPT ![g] = [c \in 0 .. r.len - 1 |-> Untouched]]
    /\ pc' = [pc EXCEPT ![g] = "lock"]
    /\ i' = [i EXCEPT ![g] = 0]
    /\ result' = [result EXCEPT ![g] = NoResult]
    /\ UNCHANGED <<layout, last_run, mu, fp, k, to_read, writer>>

\* Mutant: ReadAt does not take the mutex.
LockNothing(g) ==
    /\ pc[g] = "lock"
    /\ pc' = [pc EXCEPT ![g] = "read"]
    /\ UNCHANGED <<layout, last_run, mu, fp, req, i, k, to_read, buf, result, writer>>

Lock(g) ==
    /\ pc[g] = "lock"
    /\ mu = Nobody
    /\ mu' = g
    /\ pc' = [pc EXCEPT ![g] = "read"]
    /\ UNCHANGED <<layout, last_run, fp, req, i, k, to_read, buf, result, writer>>

\* Mutant: Unlock is called at the end of the loop and not deferred.
ReturnLocked(g, n, err) ==
    /\ result' = [result EXCEPT ![g] = [n |-> n, err |-> err]]
    /\ mu' = IF err = "nil" THEN Nobody ELSE mu
    /\ pc' = [pc EXCEPT ![g] = "idle"]
    /\ i' = [i EXCEPT ![g] = 0]
    /\ k' = [k EXCEPT ![g] = 0]
    /\ to_read' = [to_read EXCEPT ![g] = 0]

\* ReadAt returns, or panics; the deferred Unlock runs either way.  Its variables and
\* those of readAt are gone.
Return(g, n, err) ==
    /\ result' = [result EXCEPT ![g] = [n |-> n, err |-> err]]
    /\ mu' = Nobody
    /\ pc' = [pc EXCEPT ![g] = "idle"]
    /\ i' = [i EXCEPT ![g] = 0]
    /\ k' = [k EXCEPT ![g] = 0]
    /\ to_read' = [to_read EXCEPT ![g] = 0]

\* readAt gave n bytes and no error: the loop goes on if the buffer has room, unless
\* there were none.
Got(g, n) ==
    IF n = 0 \/ i[g] + n >= req[g].len
    THEN Return(g, i[g] + n, "nil")
    ELSE /\ i' = [i EXCEPT ![g] = @ + n]
         /\ pc' = [pc EXCEPT ![g] = "read"]
         /\ UNCHANGED <<mu, k, to_read, result>>

\* readAt gave (0, err): ReadAt takes the 0 for the end and drops the error.
GotNothing(g) == Got(g, 0)

-----------------------------------------------------------------------------
(* readAt.                                                                   *)

At(g) == req[g].offset + i[g]                \* its argument offset
Room(g) == req[g].len - i[g]                 \* the length of its argument buf

\* After the last range: io.EOF.
ReadNothing(g) ==
    /\ pc[g] = "read"
    /\ GetRun(At(g)) = NoRun
    /\ GotNothing(g)
    /\ UNCHANGED <<layout, last_run, fp, req, buf, writer>>

\* In a gap: zeros, as many as the run has bytes (wherever in it the offset is).
ReadGap(g) ==
    LET run == GetRun(At(g))
        n == Smaller(run.Size, Room(g))
    IN  /\ pc[g] = "read"
        /\ run # NoRun /\ run.Sparse
        /\ Remember(run)
        /\ buf' = [buf EXCEPT ![g] = Filled(@, i[g], n, LAMBDA c : Zero)]
        /\ Got(g, n)
        /\ UNCHANGED <<layout, fp, req, writer>>

\* Mutant: to_read is not cut to the length of the buffer.
ReadRangeWhole(g) ==
    LET run == GetRun(At(g))
    IN  /\ pc[g] = "read"
        /\ ~run.Sparse
        /\ Remember(run)
        /\ to_read' = [to_read EXCEPT ![g] = run.Size]
        /\ pc' = [pc EXCEPT ![g] = "seek"]
        /\ UNCHANGED <<layout, mu, fp, req, i, k, buf, result, writer>>

\* In a range: up to as many bytes as it has ...
ReadRange(g) ==
    LET run == GetRun(At(g))
    IN  /\ pc[g] = "read"
        /\ ~run.Sparse
        /\ Remember(run)
        /\ to_read' = [to_read EXCEPT ![g] = Smaller(run.Size, Room(g))]
        /\ pc' = [pc EXCEPT ![g] = "seek"]
        /\ UNCHANGED <<layout, mu, fp, req, i, k, buf, result, writer>>

\* ... from the handle's position, which is moved to them.
Seek(g) ==
    /\ pc[g] = "seek"
    /\ fp' = At(g)
    /\ pc' = [pc EXCEPT ![g] = "bulk"]
    /\ UNCHANGED <<layout, last_run, mu, req, i, k, to_read, buf, result, writer>>

SeekFails(g) ==
    /\ pc[g] \in {"seek", "pageseek"}
    /\ pc[g] = "pageseek" => k[g] < to_read[g]
    /\ GotNothing(g)
    /\ UNCHANGED <<layout, last_run, fp, req, buf, writer>>

\* A bulk that succeeds: the last line of readAt makes an error of the nil it got, and
\* ReadAt returns it with the count of the bytes before.
Bulk(g) ==
    /\ pc[g] = "bulk"
    /\ to_read[g] > 0
    /\ Readable(fp, to_read[g])
    /\ buf' = [buf EXCEPT ![g] = Filled(@, i[g], to_read[g], LAMBDA c : fp + c)]
    /\ Return(g, i[g], "error")
    /\ UNCHANGED <<layout, last_run, fp, req, writer>>

\* A bulk that fails is read again by pages; the driver has counted no bytes, so from
\* the first.
BulkFails(g) ==
    /\ pc[g] = "bulk"
    /\ k' = [k EXCEPT ![g] = 0]
    /\ pc' = [pc EXCEPT ![g] = "pageseek"]
    /\ UNCHANGED <<layout, last_run, mu, fp, req, i, to_read, buf, result, writer>>

PageSeek(g) ==
    /\ pc[g] = "pageseek"
    /\ k[g] < to_read[g]
    /\ fp' = At(g) + k[g]
    /\ pc' = [pc EXCEPT ![g] = "pageread"]
    /\ UNCHANGED <<layout, last_run, mu, req, i, k, to_read, buf, result, writer>>

\* Every page is read into the front of the buffer, and one that fails is padded at its
\* own place; a page that is longer than what is left of the buffer is a panic.
PageRead(g) ==
    LET readable == Readable(fp, PAGE_SIZE)
        place == IF readable THEN 0 ELSE k[g]
    IN  /\ pc[g] = "pageread"
        /\ place + PAGE_SIZE <= Room(g)
        /\ buf' = [buf EXCEPT ![g] = Filled(@, i[g] + place, PAGE_SIZE,
                                            LAMBDA c : IF readable THEN fp + c ELSE Zero)]
        /\ k' = [k EXCEPT ![g] = @ + PAGE_SIZE]
        /\ pc' = [pc EXCEPT ![g] = "pageseek"]
        /\ UNCHANGED <<layout, last_run, mu, fp, req, i, to_read, result, writer>>

\* The slice buf[:PAGE_SIZE], or the index i+j, is out of range.
PageReadPanics(g) ==
    /\ pc[g] = "pageread"
    /\ \/ PAGE_SIZE > Room(g)
       \/ ~Readable(fp, PAGE_SIZE) /\ k[g] + PAGE_SIZE > Room(g)
    /\ Return(g, i[g], "panic")
    /\ UNCHANGED <<layout, last_run, fp, req, buf, writer>>

PagesDone(g) ==
    /\ pc[g] = "pageseek"
    /\ k[g] >= to_read[g]
    /\ Got(g, to_read[g])
    /\ UNCHANGED <<layout, last_run, fp, req, buf, writer>>

-----------------------------------------------------------------------------
(* WriteTo's use of the handle: copyRange seeks to a bulk or a page, and reads. *)

CopySeek ==
    /\ writer.pc = "idle"
    /\ Together \/ \A g \in Readers : pc[g] = "idle"
    /\ \E n \in DOMAIN layout.runs : \E b \in 0 .. layout.runs[n].len - 1 :
          /\ b % PAGE_SIZE = 0
          /\ fp' = layout.runs[n].base + b
    /\ writer' = [pc |-> "read", offset |-> fp']
    /\ UNCHANGED <<layout, last_run, mu, reader>>

CopyRead ==
    /\ writer.pc = "read"
    /\ writer' = [pc |-> "idle", offset |-> 0]
    /\ UNCHANGED <<layout, last_run, mu, fp, reader>>

-----------------------------------------------------------------------------
\* A reader's progress once it has the mutex.
Advance(g) ==
    \/ ReadNothing(g) \/ ReadGap(g) \/ ReadRange(g)
    \/ Seek(g) \/ SeekFails(g) \/ Bulk(g) \/ BulkFails(g)
    \/ PageSeek(g) \/ PageRead(g) \/ PageReadPanics(g) \/ PagesDone(g)

Next == CopySeek \/ CopyRead \/ \E g \in Readers : Call(g) \/ Lock(g) \/ Advance(g)

\* Goroutines run, and a sync.Mutex that is unlocked again and again goes to every
\* waiter in time (its starvation mode).  Nobody needs to call.
Spec ==
    /\ Init /\ [][Next]_vars
    /\ WF_vars(CopyRead)
    /\ \A g \in Readers : WF_vars(Advance(g)) /\ SF_vars(Lock(g))

-----------------------------------------------------------------------------
(* Properties.                                                               *)

\* The types of the Imager's fields and of ReadAt's and readAt's variables.
TypeOK ==
    /\ layout \in Layouts
    /\ last_run \in [Address : Nat, Size : Nat, Sparse : BOOLEAN]
    /\ mu \in Readers \cup {Nobody}
    /\ fp \in Nat
    /\ pc \in [Readers -> {"idle", "lock", "read", "seek", "bulk", "pageseek", "pageread"}]
    /\ \A g \in Readers :
          /\ i[g] \in 0 .. req[g].len
          /\ k[g] \in Nat /\ to_read[g] \in Nat
          /\ pc[g] \in {"seek", "bulk", "pageseek", "pageread"} => i[g] + to_read[g] <= req[g].len
          /\ result[g].n \in 0 .. req[g].len
    /\ writer.pc \in {"idle", "read"}

\* The offset lies in a gap before a range.
InGap(offset) == FoundRun(offset).Sparse /\ FoundRun(offset) # NoRun

\* What the remembered run may change of getRun's answer, for every offset, whatever was
\* asked before and by whom.  In a range and beyond the last one, nothing: address, size
\* and kind are those a search finds.  In a gap the answer ends where the gap ends, but
\* it may begin before the offset, though never outside the gap; its Size is then more
\* than the zeros that are left, and Size is what readAt goes by (ReadGap).
RunMemoryAgrees ==
    \A o \in 0 .. Max({r.base + r.len : r \in {layout.runs[n] : n \in DOMAIN layout.runs}} \cup {0}) :
        LET told == GetRun(o)
            found == FoundRun(o)
        IN  IF InGap(o)
            THEN /\ told.Sparse /\ told.Address <= o
                 /\ told.Address + told.Size = found.Address + found.Size
                 /\ \A b \in told.Address .. o : InGap(b)
            ELSE told = found

\* Between a seek and its ReadFile nobody moves the file pointer: every ReadFile of
\* ReadAt, of its fallback and of WriteTo reads at the address its caller asked for, if
\* callers do not run WriteTo and ReadAt at the same time.
PointerIsMine ==
    /\ \A g \in Readers :
          /\ pc[g] = "bulk" => fp = At(g)
          /\ pc[g] = "pageread" => fp = At(g) + k[g]
    /\ writer.pc = "read" => fp = writer.offset

\* Every ReadAt returns, after errors and panics of other goroutines too: the mutex is
\* always given back, and the loop that combines short reads does not spin.
ReadAtReturns == \A g \in Readers : pc[g] = "lock" ~> pc[g] = "idle"

\* imager.go of readAt: "Large Read failed, read in pages from the last successful place
\* and pad any failed pages" - the bytes a ReadAt returns are those of the memory, zeros
\* where there is none or where it cannot be read.
ReadAtIsImage ==
    \A g \in Readers : result[g].err = "nil" =>
        \A c \in 0 .. result[g].n - 1 :
            LET a == req[g].offset + c
            IN  buf[g][c] = IF ~FoundRun(a).Sparse /\ Readable(a, 1) THEN a ELSE Zero
=============================================================================

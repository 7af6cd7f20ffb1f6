------------------------------ MODULE GoAcquire ------------------------------
(***************************************************************************)
(* What becomes of the pages that WriteTo hands to its writer: the end of  *)
(* doAcquire (go-winpmem/cmd/acquire.go), the writers of compressor.go and *)
(* sparse.go, and the command extract (cmd/decompress.go), which reads the *)
(* compressed image back.                                                  *)
(*                                                                         *)
(* A compressor holds pages back and writes them in its own time; a write  *)
(* of its own that fails is told to the next caller of Write, or to Close. *)
(* The imaging itself is GoImager's: file is what the writer was given.    *)
(***************************************************************************)
EXTENDS GoImager

CONSTANT HELD    \* pages a compressor holds back before Write waits for the disk

\* One write of WriteTo fits into what the compressor may hold.
ASSUME HeldAssumption == HELD \in Nat /\ HELD >= BUFSIZE

VARIABLES
    compression, \* "none", "s2" (and snappy), or "gzip" (and gz)
    disk,        \* pages of file that are on the disk, and whether the stream's end is
    broken,      \* a write of the compressor has failed
    acquire,     \* doAcquire: "writing", or what it returned: "ok" or "error"
    extract,     \* doDecompress: "no", "copying", "ok" or "error"
    out          \* the file that extract writes

imaging == vars
output == <<compression, disk, broken, acquire>>
all == <<vars, compression, disk, broken, acquire, extract, out>>

Size(f) == Cardinality(DOMAIN f)

\* GetCompressor's writers, GetDecompressor's readers, and a file just created.
Compressors == {"none", "s2", "gzip"}
Decompressors == {"s2", "gzip"}
EmptyFile == [p \in 0 .. -1 |-> Zero]

\* Sparse writing needs a writer that can seek: GetCompressor's is none.
AcquireInit ==
    /\ Init
    /\ compression \in Compressors
    /\ sparse => compression = "none"
    /\ disk = [pages |-> 0, closed |-> FALSE]
    /\ broken = FALSE
    /\ acquire = "writing"
    /\ extract = "no"
    /\ out = EmptyFile

-----------------------------------------------------------------------------
(* doAcquire.                                                                *)

\* Mutant: an error of the padding's or the copy's Write is dropped.
AcceptsAll == file' = file \/ compression = "none" \/ broken \/ Size(file') - disk.pages <= HELD

\* Write: a compressor that failed refuses, one that is full waits.
Accepts ==
    \/ file' = file
    \/ compression = "none"
    \/ ~broken /\ Size(file') - disk.pages <= HELD

\* A step of WriteTo, with its Write.
Image ==
    /\ acquire = "writing"
    /\ Work
    /\ Accepts
    /\ disk' = IF compression = "none" THEN [disk EXCEPT !.pages = Size(file')] ELSE disk
    /\ UNCHANGED <<compression, broken, acquire, extract, out>>

\* WriteTo stops with an error: cancelled, the output or the device failed.
ImageStops ==
    /\ acquire = "writing"
    /\ Stop
    /\ UNCHANGED <<output, extract, out>>

\* The next Write returns the compressor's error.
WriteRefused == broken /\ ImageStops

\* The compressor writes some of what it holds.
Drain ==
    /\ acquire = "writing"
    /\ compression # "none" /\ ~broken
    /\ \E n \in disk.pages + 1 .. Size(file) : disk' = [disk EXCEPT !.pages = n]
    /\ UNCHANGED <<imaging, compression, broken, acquire, extract, out>>

\* The disk is full: the compressor remembers the error.
DrainFails ==
    /\ acquire = "writing"
    /\ compression # "none"
    /\ disk.pages < Size(file)
    /\ broken' = TRUE
    /\ UNCHANGED <<imaging, compression, disk, acquire, extract, out>>

\* Mutant: WriteTo's error is dropped too.
ReturnedOk == "ok"

\* What doAcquire returns is what WriteTo returned.
Returned == IF pc = "done" THEN "ok" ELSE "error"

\* The deferred closer: what is held and the stream's end are written, or a part of
\* them only, which nobody is told.
Closer ==
    /\ acquire = "writing"
    /\ pc \in {"done", "failed"}
    /\ \/ /\ ~broken
          /\ disk' = [pages |-> Size(file), closed |-> TRUE]
       \/ /\ compression # "none"
          /\ \E n \in disk.pages .. IF broken THEN disk.pages ELSE Size(file) :
                disk' = [pages |-> n, closed |-> FALSE]
    /\ acquire' = Returned
    /\ UNCHANGED <<imaging, compression, broken, extract, out>>

-----------------------------------------------------------------------------
(* doDecompress, when the acquisition is over.                               *)

\* The header tells the compression; an image without one is not known.
Extract ==
    /\ acquire # "writing"
    /\ extract = "no"
    /\ extract' \in IF compression \in Decompressors THEN {"copying", "error"} ELSE {"error"}
    /\ UNCHANGED <<imaging, output, out>>

\* Mutant: the whole buffer is written, not what was read.
CopyWholeBuffer ==
    /\ extract = "copying"
    /\ Size(out) < disk.pages
    /\ out' = Written(out, Size(out), BUFSIZE,
                      LAMBDA i : IF Size(out) + i < disk.pages THEN file[Size(out) + i] ELSE Zero)
    /\ UNCHANGED <<imaging, output, extract>>

\* CopyAndLog: a read of what the buffer holds, or less, written out.
Copy ==
    /\ extract = "copying"
    /\ Size(out) < disk.pages
    /\ \E n \in 1 .. Smaller(BUFSIZE, disk.pages - Size(out)) :
          out' = Written(out, Size(out), n, LAMBDA i : file[Size(out) + i])
    /\ UNCHANGED <<imaging, output, extract>>

\* Mutant: the error of a stream that breaks off counts as its end.
CopyEndsAnyway ==
    /\ extract = "copying"
    /\ Size(out) >= disk.pages
    /\ extract' = "ok"
    /\ UNCHANGED <<imaging, output, out>>

\* A gzip stream without its end is an error; an s2 stream is, unless it breaks off
\* between two blocks.
CopyEnds ==
    /\ extract = "copying"
    /\ Size(out) >= disk.pages
    /\ extract' \in IF disk.closed THEN {"ok"}
                    ELSE IF compression = "gzip" THEN {"error"} ELSE {"ok", "error"}
    /\ UNCHANGED <<imaging, output, out>>

\* The output cannot be written, or the user cancels.
CopyFails ==
    /\ extract = "copying"
    /\ extract' = "error"
    /\ UNCHANGED <<imaging, output, out>>

Running == Image \/ WriteRefused \/ Drain \/ Closer

AcquireNext ==
    \/ Running \/ ImageStops \/ DrainFails
    \/ Extract \/ Copy \/ CopyEnds \/ CopyFails

\* The goroutines of the imager and of its compressor run; nobody has to extract.
AcquireSpec == AcquireInit /\ [][AcquireNext]_all /\ WF_all(Running)

-----------------------------------------------------------------------------
(* Properties.                                                               *)

\* The types of doAcquire's output and of doDecompress.
OutputTypeOK ==
    /\ TypeOK
    /\ compression \in Compressors
    /\ disk \in [pages : 0 .. Size(file), closed : BOOLEAN]
    /\ broken \in BOOLEAN
    /\ acquire \in {"writing", "ok", "error"}
    /\ extract \in {"no", "copying", "ok", "error"}
    /\ \E s \in 0 .. disk.pages : DOMAIN out = 0 .. s - 1

\* The error of Close is nobody's, but what it can cost is bounded: of an acquisition
\* that returned no error the disk misses no more than the compressor may hold, because
\* every earlier error reaches WriteTo.
LossIsHeld == acquire = "ok" =>
    Size(file) - disk.pages <= (IF compression = "none" THEN 0 ELSE HELD)

\* A gzip image that was acquired without an error and extracted without an error is
\* the whole raw image, whatever the disk did: extract finds what Close did not tell.
ExtractIsComplete ==
    acquire = "ok" /\ extract = "ok" /\ compression = "gzip" =>
        out = RawImages!Image(layout, RawImages!End(layout))
=============================================================================

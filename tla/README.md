# WinPmem in TLA+

WinPmem reads the physical memory of a running Windows machine: a kernel driver gives
user mode access to it, and two tools, one in Go and one in C++, install the driver,
write a raw image of the memory to a file, and remove the driver again. This directory
models the driver and both tools, checks the models with TLC and proves with TLAPS every
safety property that the passing runs check.

Paths below are relative to the repository's root; the driver is in `src/`, the Go tool
in `go-winpmem/`, the C++ tool in `src/executable/`.

## 1. The system

| component | state it keeps | operations | module |
|---|---|---|---|
| driver, read path (`read.c`, `pte_mmap.c`) | device extension: mode, section handle, PTE data; fast mutex; the rogue page's PTE; MDLs | `pmemFastIoRead`, `PmemRead`, `DeviceRead`, three page methods, `IOCTL_SET_MODE` | `PmemDriver` |
| driver, life (`winpmem.c`) | device, symbolic link, fast-I/O table, section, backup of the rogue PTE | `DriverEntry`, `wddCreateClose`, `IoUnload` | `DriverLifecycle` |
| driver, page walk (`pte_mmap.c`) | none (reads the kernel's tables) | `virt_find_pte` | `PageWalk` |
| driver, control requests (`winpmem.c`) | MDLs of two buffers, a pool block, IoStatus | `IOCTL_GET_INFO`, `IOCTL_REVERSE_SEARCH_QUERY` | `PmemIoctl` |
| driver, kernel facts (`kd.c`) | two buffers; the thread's affinity | kernel base (at load), KPCRs (per request) | `KernelFacts` |
| driver on several processors | a TLB per processor | the same reads | `PmemSmp` |
| Go imager (`imager.go`) | run list, device and output positions | `WriteTo` | `GoImager` |
| Go reader (`imager.go`) | remembered run, mutex, the device's file pointer | `ReadAt`, beside `WriteTo` | `GoReadAt` |
| Go output (`acquire.go`, `compressor.go`, `sparse.go`, `decompress.go`) | pages the compressor holds, its error, the file | write, close, extract | `GoAcquire` |
| Go session (`install.go`, `cmd/`) | a service, a driver file, a handle | acquire, install, uninstall | `GoSession` |
| C++ imager (`winpmem.cpp`) | cursors, output | `write_raw_image`, `pad`, `copy_memory` | `CppImager` |
| C++ session (`main.cpp`, `winpmem.cpp`) | a service, a driver file, handles, mode | image, `-l`, `-u`, `-d` | `CppSession` |
| around the tools (Windows) | service database, loaded driver, handles, files | | `ServiceManager` (external) |

How they interact: the tools create the service, the service control manager loads the
driver (`DriverEntry`), the tools open the device, set the mode, ask for the memory ranges
and read them range by range; on the way out they close the device, stop and delete the
service, and the kernel calls `IoUnload` when the last handle is gone. All clients of a
driver share one extension, one mutex and one rogue page.

What is hard here:

* *shared state in the driver*. The PTE method points one page-table entry at each page it
  reads; readers must exclude each other from remap to copy. `extension->mode` is read
  three times per read and written by `IOCTL_SET_MODE` without a lock. A remap is a
  write to memory; whether a processor's TLB still names the page before is not up to it.
* *shared state in the Go tool*. All readers of an `Imager` move one file pointer; `ReadAt`
  takes a mutex for it, `WriteTo` does not.
* *publication before initialisation*. `DriverEntry` creates the symbolic link before it
  zeroes the extension and initialises the mutex.
* *failure in the middle*: of `DriverEntry`, of a read that has already delivered bytes,
  of the second of two buffers, of a bulk read, of the disk under a compressor.
* *things that change underneath*: memory ranges, page-table entries, the list of loaded
  modules between two calls that ask for it, the processor a thread runs on.
* *sessions*: killed tools, two tools at once under one service name, a stop that times
  out because someone else has the device open.

What makes each part correct: a read delivers exactly the bytes asked for or an error, and
gives back what it took; a driver that goes leaves nothing and restores its PTE; a control
request frees both buffers on all exits and reports one moment's truth; an image holds
every page at its own offset, and a loss is told or bounded; a session cleans up, and the
next one heals what a killed one left. `PROJECT.json` lists the hazards line by line with the properties that watch them.

## 2. Modules

`PhysicalRead` and `RawImage` are abstract: the contract of a read, and of an acquisition.
Every other module follows the code; the file heads name the functions.

**PmemDriver.** One action per step a thread can be interrupted at. `SetModeCheck` and
`SetModeApply` are the two halves of `IOCTL_SET_MODE` (test of `ext->mode`, then the
switch). A read goes `Read` (the dispatch routine, total_read = 0), `Reject` or `Enter`
(`DeviceRead`; PTE readers then `Acquire`), and per page `Nail` (MDL), one of
`ReadPhysical`, `ReadIoSpace`, `RemapRogue` + `CopyRogue`, or `NothingRead`; then
`ReleaseIfPte` on the mode as it is *then*, and `Return`. The mutex is a count of permits,
so that a release without an acquire is visible as a second permit; `iomap` counts a
read's mappings of I/O space that were not undone. A byte is named by its address: "right
data" is `buf[i] = addr + i`. `program` says what clients may do.

**PmemSmp** adds the processor each thread runs on and what each processor's TLB holds of
the rogue page. A remap writes the PTE and nothing else (`pte_mmap.c:93`; the flush is a
comment, 96); the scheduler moves threads; a copy sees what its processor's TLB holds, or
the PTE. Whether the copy leaves an entry in the TLB is the constant `Caching`. The code
counts on FALSE: the setup sets the PTE's cache-disable bit (319), and the comment at 97
and `CHANGELOG.md:6` take that to keep the translation out of the TLBs. In the x86
architecture the bit chooses the page's memory type, and translations may be kept whatever
the type is (finding 3).

**DriverLifecycle.** `DriverEntry` is one action per object it makes, each of which may
fail into `IoUnload`; clients open, set modes, read, close; the I/O manager's rules
(no open after a stop, unload after the last handle) are external actions. `SetModeCheck`
and `SetModeApply` are the two halves of `IOCTL_SET_MODE` here, too, so two clients may both
pass the test and a mode may be replaced under a read. A read is its three looks at the mode
and what each decides: whether it waits for the mutex (`Read`, `Acquire`), whether it moves
the rogue PTE (`Remap`), and whether it releases the mutex (`Finish`) - which after a race
may mean a remap without the mutex, a mutex that is never released, or a second permit
(`permits` counts them). `switched` remembers that the mode turned to or from PTE with
somebody inside `DeviceRead`; the properties say what holds then as well and what only
until then.

**PageWalk / KernelFacts / PmemIoctl.** `VirtFindPte` walks tables given as functions;
`Entry4` to `Entry1` and `Translation` are the machine's own translation, PAT bits included,
the reference it is compared with; `WellFormed` says that the tables an address leads through
exist. `KernelFacts` is `kd.c`: `Query` is either of
the two calls of `KernelGetModuleBaseByPtr`, between which the module list changes;
`Pin`, `ReadSelf` and `Revert` are `GetKPCR`'s visit of the processors. `PmemIoctl`
composes both with `wddDispatchDeviceControl`: `DriverEntry` asks for the kernel base
(`Load`), then a request goes `NailIn`, `NailOut`, its body (`IOCTL_GET_INFO` ends in the
KPCRs, `Survey`) and `Release`, its one exit. A reverse search reads the entry that the walk
has found three times more, in three steps: is it present (`ReadPresent`), is it large
(`ReadSize`), what is its frame (`ReadFrame`). `Hotplug`, `Repage`, `LoadRace` and
`Scheduler` change the machine whenever the request could notice. `InfoRuns` is the Go
client's decoding of the answer: a list, or the panic of an index out of range.

**GoImager / CppImager.** The imaging loops, page by page; a bulk read succeeds exactly if
no page of it is hidden, because the driver answers all or nothing. The C++ version's
partial and failed writes are in.

**GoAcquire** puts under `GoImager` the writer that `doAcquire` chooses. A compressor holds
up to `HELD` pages, writes them in its own time (`Drain`) and keeps an error of its own for
the next `Write`; `Closer` is the deferred function that drops the last one. `Extract`,
`Copy` and `CopyEnds` are `doDecompress` on whatever reached the disk.

**GoReadAt.** Several goroutines call `ReadAt` on one `Imager`: `Lock`, `getRun` with the
run it remembers, seek, read, the page fallback, `Return` (the deferred unlock, on panics
too). `CopySeek` and `CopyRead` are the seeks and reads that `WriteTo` makes on the same
handle; `Together` says whether it may run between a reader's own. The remembered run is
compared with a search of the list, in all its fields (`RunMemoryAgrees`), the bytes
returned with the image (`ReadAtIsImage`).

**ServiceManager, GoSession, CppSession.** The service entry outlives its deletion while
the driver is loaded; a stopped driver goes with its last handle. On top of that, the
statements of both tools between one system call and the next. `Kill` ends a process
anywhere; `trouble` makes calls fail for reasons of their own, imaging included, and adds
another client. `named` are the processes that were given a path for the driver's file
(`--driver_path`, `-d`), which acquire and the C++ tool then leave where it is.

`GoImager` composes with `RawImage`, `PmemDriver` with `PhysicalRead` (by refinement);
`GoAcquire` with `GoImager`, `PmemSmp` with `PmemDriver`, both sessions with
`ServiceManager`, `PmemIoctl` with `PageWalk` and `KernelFacts` (by `EXTENDS`).

## 3. Runs

| run | bounds | shows |
|---|---|---|
| `driver` | 2 threads, page of 2 bytes, reads of 0, 1, 4 bytes at 0, 1, 3 | the window between remap and copy is private, buffers exact, results honest, everything released, every read answered; implements `PhysicalRead` |
| `driver_race` | 2 threads, one 2-page read | finding: two clients that wait for their own SET_MODE but want different modes break `WindowGuarded` |
| `driver_tlb` | 1 thread, 2 processors that keep translations, one 2-page read | finding: without flush and nailing a read of two pages delivers the first one twice |
| `lifecycle` | 2 clients, 3 pages, any number of loads | no trace left; restore unraced and stop honoured, and what a mode that turns under a read may change of that |
| `ioctl` | 4 levels of 2 entries, room for 2 ranges (1 in the client), lists of up to 3, all buffer combinations, 4 module lists, 3 processors | buffers freed, one moment's ranges or a panic, a translation of the moments the entry was read in, the kernel's base, each processor's own KPCR |
| `go_imager` | 4 range lists, every hidden set, bulk of 2, a compressor that holds 3 | `WriteTo` implements `RawImage`; what a failing disk can cost; extract finds what is missing |
| `go_read_at` | 2 goroutines and `WriteTo`, pages of 2 bytes, 2 ranges, 7 requests | the remembered run changes no answer in ranges, and in gaps only where it begins; the file pointer is each reader's own, every call returns |
| `go_read_at_pages` | 1 range of 2 pages, 1 hidden | finding: the fallback puts pages in the wrong place |
| `cpp_imager` | same lists, bulk of 3, failing writes | never misplaced, complete or failed, bounded loss |
| `session` | 2 processes, sequential or at once | clean exit (only a named driver file stays), healing after kills, ends |
| `session_mode` | same | finding: images through a mode other than PTE |
| `cpp_session` | 2 runs in sequence | clean exit, healing, honest result, ends |

Why the bounds are enough for what is asked: two threads are what a lost exclusion needs,
and a third adds none that two of them do not have; the longest read starts inside a page
and touches three pages, so every case of the length computation occurs at pages of two
bytes; address 0, which the methods refuse, is included. The lifecycle loops, so two
clients and three pages (page 0, the home page, another) meet every phase; one client is
enough to turn the mode under the other's read, and a reader that came too late or released
too much is visible as a permit too few or too many. In the page
walk each level has an entry that leads on and one that does not, an entry of the last level
and a large page have their PAT bits set, and one machine's root entry leads to the root. Of the module lists two fit into the first buffer and two do not, so
the list can grow and shrink around both calls; three processors leave one to be added
during a survey. Range lists include the empty one, adjacent ranges, gaps shorter and
longer than a block, and ranges that are no multiple of it. The requests of `go_read_at`
start in gaps (twice the same gap at different offsets, which is what the remembered run
gets wrong if it does), cross from a gap into a range and from a range into a gap, and lie
beyond the end. A compressor that holds three pages meets bulks of two, so it is full with
and without a page of room. Two processes suffice for "one leaves, the next finds" and for
a clash over the service.
The bounds are the constants in the `.cfg` files and the definitions in the `MC` modules;
no counter had to be capped (with two clients the mode can turn under only one read at a
time, so `permits` stays small by itself). The imagers and the sessions stop by themselves; their runs do
not check for deadlock. Neither does `lifecycle`, where the loss of a client on an
uninitialised mutex may leave nothing to do. `driver`, `ioctl` and `go_read_at` do.

**Fairness.** A thread inside the driver, `DriverEntry`, a tool's process and its
goroutines, the compressor's included, keep running (weak fairness of their steps): Windows
and Go's runtime schedule them, and none of these loops waits for input. A reader that
waits for the driver's mutex gets it if it is released again and again: a fast mutex wakes
its waiters; so does the `sync.Mutex` of an `Imager`, which hands itself over to a waiter
that starves. Nothing is assumed of clients (they need not open, ask or start), of the
outsider, of memory hotplug, of the disk or of kills, and nothing of control requests,
which are checked for safety only. `StopHonoured` assumes that clients close their handles
at last, and excludes the two cases in which the code itself blocks them: the mutex was
initialised behind a waiter, or the mode turned under a read, which may then leave
`DeviceRead` without releasing the mutex.

### Findings

1. `winpmem.c:338` tests `ext->mode` and 345-407 set it without a lock, and `DeviceRead`
   reads it anew at 273, 317 and 374: with clients that differ in the mode, a read runs
   through the rogue page without the mutex `read.c:201` demands.
2. `cmd/acquire.go:91` promises the PTE mode; 92 drops the error of `SetMode`.
3. `pte_mmap.c:97` says of the flush it has made a comment "Not needed anymore, PTE has
   cache disable bit set. Changes to PTE have immediate result", and `CHANGELOG.md:6` "No TLB
   entry, no flushing, no nailing to one processor" - the nailing being what
   `CHANGELOG.md:23` had brought in because a moved reader "can return wrong read data".
   What the code does is set the bit once and flush once, on the processor that loads the
   driver (318-322). The bit selects a memory type; it does not keep the translation out of
   a TLB (Intel SDM volume 3, 4.9 and 4.10). The run `driver_tlb` shows a read on a processor
   that keeps it; the theorem `UncachedIsOneProcessor` says that all is well on one that
   does not. Which processors there are, the source cannot tell: this is a disagreement with
   the architecture's rules, not a trace of a machine.
4. `imager.go:92-93` wants the pages of a failed bulk read one by one, the bad ones padded;
   line 101 reads each into the front of the buffer, so a page lands where another
   belongs, and `ReadAt` returns no error.

Not checked by a run, seen while reading:

* `CHANGELOG.md:68` says a read needs a mode to be set first; mode 0 is a mode
  (`winpmem_shared.h:24`), so a client that sets none is served.
* `winpmem.cpp:114-118` counts on partial reads that the driver does not return: up to a
  bulk read (16 MB) less one page of good memory before an unreadable page becomes zeros.
  `LossIsBounded` is exactly this bound.
* `api.go:82` lets an index equal to the array's length through: the Go client, built for
  20 ranges, panics when the driver reports more. `InfoIsSnapshot` allows the panic, and
  nothing else but the right list.
* `MapIOPagePartialRead`'s exception path keeps its mapping (`read.c:183`);
  `NothingHeldOutside` says that a failed read leaves one such mapping at most, a
  successful one none.
* `winpmem.c:481` takes bit 7 of a level-1 entry (PAT) for a page size and adds an index to
  the frame, and the PAT bit of a 2 MB page is the lowest bit of what it takes for the frame.
  `Astray` is what comes of the two; with an entry that stays as it is,
  `ReverseIsTranslation` leaves no other deviation, except that page 0 counts as nothing
  found.
* In a gap remembered from an earlier call `getRun` answers with the whole remembered gap,
  and `readAt` zeroes as many bytes as that has, wherever in it the offset is
  (`imager.go:69-79`): after a read at the gap's beginning, one further in pads over the
  beginning of the next range. `RunMemoryAgrees` says that this is all the remembered run
  changes; it is enough to do harm.
* A reverse search reads its entry three times, so an answer may be made of two mappings
  (the size of one, the frame of another), and after an unmapping in between it may name any
  page, the PTE's frame bits then being the memory manager's own. `ReverseIsTranslation`
  says that this is all that goes wrong.
* After two SET_MODEs that race, a read may keep the mutex for ever or release one it does
  not hold (`read.c:374`); then readers block and with them the unloading. `StopHonoured`
  and `RestoreUnraced` except these behaviours, and only these.
* `kd.c:135` doubts that `KeRevertToUserAffinityThread` gives back the affinity the thread
  came with. `Revert` allows both; `KpcrsAreOwn` does not depend on it.
* `acquire --driver_path` leaves the driver's file behind (`acquire.go:42-65` defers
  `os.Remove` for a temporary file only); so does `install`, with or without a path.
* `kd.c` lets the second alternative of its name test escape the `nt` prefix;
  `KernelBaseIsKernels` holds because the kernel comes first in the list.
* The comments `pte_mmap.c:142` and `winpmem.c:473` say large pages give an error, while
  2 MB pages are resolved (`pte_mmap.c:239`).
* `readAt` returns an error made of nil on every bulk read that succeeds (`imager.go:112`),
  ignores the offset within a range when it computes `to_read` and so reads past the
  range's end, and its fallback panics on a buffer that is no multiple of a page.
* `ReadAt` and `WriteTo` of one `Imager` at the same time: `PointerIsMine` holds only for
  callers that keep them apart (`Together = FALSE`), as the tool itself does.
* The deferred closer of `compressor.go` drops the error of `Close`, so `doAcquire` returns
  nil for an image whose end is not on the disk. `LossIsHeld` bounds what is missing;
  extract tells it of a gzip image (`ExtractIsComplete`), but not always of an s2 or snappy
  stream, whose format has no end.
* `install_driver` overwrites the failure to open the device (`winpmem.cpp:697`) -
  harmless, as `ImageHonest` and `KillsHeal` show, since the next call fails.

## 4. Proofs

`tlapm` checks eight modules, for every value of the constants that meets the assumptions
named in the component's module (page size positive, requests and programs of the right
type, the rogue page a natural number; the home page a page other than 0; ranges as Windows
reports them: not empty, ascending, disjoint; a compressor that holds at least one bulk; a
module list that starts with the kernel; page tables in which the tables an address leads
through exist and a last-level table serves no other level; another program that is none of
the tool's processes). Every invariant and safety action property of a passing run is a
theorem; two components need a condition on their clients, `Disciplined` and `~Together`.

**PmemDriverProofs** (any number of threads, any requests, any page size). Types, the
private window (`WindowGuarded`, `WindowStable`), exact bytes, honest results and the
release of mutex, MDL and mappings are invariants. They are theorems *under
`Disciplined`*: every client program either never asks for PTE, or asks for no other valid
mode and reads only after its SET_MODE was answered. Finding 1 is what happens without. The
theorems cannot be had from the properties alone: "the reader in the window holds the mutex
alone" survives a step only if the mode cannot turn to PTE under a read (`ModeInv`), if who
owns the mutex is a function of the mode and the program point (`OwnInv`), and if each
program point remembers its MDL, its rest and the page it mapped (`PointInv`) and the
mappings it has not undone (`MapInv`). `IInv` is their conjunction; one lemma per action
shows that it is kept. `LEMMA ToReadBounds` is the arithmetic of the partial pages.
`FulfilsContract` maps every step to `PhysicalRead`: entering and leaving the driver are its
begin and end, a copy delivers genuine bytes, everything else stutters - the safety part of `ReadContract`.

On several processors (`PmemSmp`) there are two ways to exactness. If no processor keeps the
rogue page's translation (`~Caching`, what the code's comments say), a behaviour is one of
`PmemDriver`, threads moving as they like (`UncachedIsOneProcessor`): the TLBs stay empty. If
processors do keep it, two conditions on each step do: a thread stays on its processor from
remap to copy (`Pinned`), and that processor forgets its translation at the remap
(`Flushed`); `NailedAndFlushedIsExact` is proved from `TlbInv`, which says that the processor
on which a thread will copy sees the page that was asked for. The code does neither.

**DriverLifecycleProofs** (any clients, any pages). No trace is left whenever
`DriverEntry` fails or the driver unloads, whatever the modes do; `IoUnload` moves the rogue
PTE only with nobody inside, and everybody else only as the one reader with the mutex,
unless a mode turned under a read; only a client that opened too early can queue on an
uninitialised mutex. The strengthening says which client can be where in which phase
(`ClientInv`), that the backup is the home page from the moment the method is ready
(`BackupInv`), which objects exist in each phase, and what the mutex is worth: as long as no
mode has turned under a read, what a reader found at its first look at the mode is so at the
others, and permits and holders add up to one (`MutexInv`).

**GoImagerProofs** (any ranges that are not empty, ascend and do not overlap, any hidden
pages, any bulk size). Pages land at their own address, and every step appends a piece of the
raw image or none: `WritesRawImage` is the safety part of `ProducesRawImage`. What has to be
known besides the position is how far each loop has come (`CursorInv`) and that the file
holds the image up to the position - up to a `Hole` after a sparse seek, which reads as the
zeros that belong there and is filled by the next write (`FileInv`).

The same module goes on to the writer underneath: a step of `doAcquire` is one of `WriteTo`
or leaves it alone (`Underneath`), so the imager's invariant carries over and only the disk
is new. A success that lies misses what the compressor holds at most (`DiskInv`), and a gzip
image acquired and extracted without an error is complete (`OutInv`), for any `HELD` of at
least one bulk.

**CppImagerProofs**. `write_raw_image` puts nothing in a wrong place, loses no more than a
bulk read in front of a hidden page, and its success means the whole length. The invariant
is that the output's length *is* the cursor, whichever loop it is in, partial writes
included.

**GoReadAtProofs** (any number of goroutines). The remembered run is always one of the
ranges, or ends a gap and begins in it (`Genuine`); `getRun` uses it only for an offset that
lies in it. `MemoryAgrees` follows: for an offset in a range, or beyond the last one, the
answer is a search's, size included; in a gap it ends where the gap does and begins in it,
perhaps before the offset. `PointerIsKept` is proved under `~Together`; with `WriteTo`
running at the same time it is false.

**PmemIoctlProofs** (any memories, page tables, module lists and processors, all changing
whenever they like). Both buffers are freed on every exit, the ranges reported are those of
one moment, the kernel's base is the kernel's, and each KPCR is its processor's: while the
thread is to read it, its affinity leaves it no other processor (`SurveyInv`). A reverse
search that names a page names one its address was mapped to between the first and the last
of the three reads of its entry - with the size of one mapping and the frame of another, the
address may have been remapped in between, and nothing is said if it was unmapped there -,
and it names one if the address was mapped throughout the call to pages other than page 0.
The driver finds the entry first and reads it later, so the invariant has to say
that the entry is still the one the address leads to (`Leads`: only last-level entries
change, and no upper table is one of theirs), what it has held during the call
(`Accounted`), and, between its reads, that the size read was that of one of the mappings
since (`Sized`). `WalkFinds` and `PageIsTranslation` compare the walk, and the arithmetic of
2 MB and 4 KB pages, with the machine's translation.

**GoSessionProofs** (any number of processes, at once or one after the other, killed
anywhere). Undisturbed commands leave no service and no driver, however many run at once,
and one after the other no file but those the user named. One
cannot say who cleans up, since commands stop and delete each other's driver; but as long as
nobody fails or is killed, an entry that is not marked has some process that will mark it,
and a running driver one that will stop it (`CareInv`). A marked entry goes with its driver, a
stopped driver with its last handle (`ScmInv`), so when all are gone, so is everything. One
after the other, a command succeeds whatever a killed one has left: `Finds` says what each
program point finds installed. `ModeIsOwn` bounds finding 2: without another program at the
device, the image is read through PTE whenever the driver offers it, since whoever has the
device open keeps the driver, and with it the mode, from being replaced (`ModeInv`).

**CppSessionProofs** (any number of runs, killed anywhere). The same two properties, though
this tool stops and deletes the driver while it holds a handle of its own (`CleanInv`,
`HealInv`). `ImagesAreHonest` holds even when calls fail and another program has the device: a
run that imaged and returns 1 had the mode it asked for while it did, and a file that opened.
`ToldInv` follows this from the answer to its SET_MODE to the status it returns.

Liveness (`ReadReturns`, `StopHonoured`, `ReadAtReturns`, `CommandsEnd`, `RunsEnd`, and the
liveness halves of `ReadContract`, `ProducesRawImage` and `EndsCompleteOrFailed`) rests on
fairness and is only model-checked.

## 5. Abstractions

* Whether a page can be read is chosen at each access (`PmemDriver`) or fixed per page
  (imagers, `GoReadAt`). In `PmemDriver` an access through the rogue page sees the page its
  PTE names; what becomes of that with one TLB per processor is `PmemSmp`'s.
* The fast mutex raises the IRQL to APC level; branches for a wrong IRQL are not reachable
  from the entry points and appear only where a mode switch makes them reachable.
* Each read of a page-table entry is atomic - the answer to a reverse search reads it three
  times, in three steps -, and page tables are not freed during a walk.
* The 64-bit build is modelled, without `PMEM_WRITE_ENABLED`.
* The I/O manager, the service control manager, memory management, the compressors and
  other programs are external, modelled by the rules the code relies on. A compressor keeps
  the order of what it is given, and its error; a gzip stream has an end, an s2 stream has
  none but the file's.
* In the sessions there is one service name, the default one; driver file names differ. A
  SET_MODE is one step there: its race is the driver's, in `PmemDriver` and
  `DriverLifecycle`.
* Partial writes are whole pages. A slice of a Go buffer has no capacity behind its end.
  Logging, progress, formats and metadata are left out.

Not modelled: `PmemWrite` (compiled out: `precompiler.h` defines `PMEM_WRITE_ENABLED` as
0), `NotInUse`, the test programs, the superseded `src/golang`, the embedded driver and the
logger of the Go tool, YAML metadata and string formatting of the C++ tool, documentation.

## 6. Plan

The order of work was: the read path and its contract; its proofs; the lifecycle and its
proofs; the imagers; the control requests with the kernel facts; the sessions; `ReadAt`;
the writers under the Go imager; the TLBs; the proofs of the control requests, the sessions
and the TLBs. What is left:

1. Findings 1, 2 and 3 have theorems that say under which condition they do not happen
      (`Disciplined`, `ModeIsOwn`, `~Caching` or `Pinned` and `Flushed`). The same for finding 4: which requests `ReadAt`
   answers with the image, given the pages that can be read and the run it remembers.
2. An abstract session (nothing installed, installed, in use) that both tools implement, in
   place of two separate `CleanExit`.

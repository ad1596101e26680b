# A TLA+ model of rust-img-vhdx

`img_vhdx` reads and writes VHDX disk images. What can go wrong in it, and what
a unit test hardly reaches, is what a crash leaves of a write that needs nine
device writes and flushes, what several threads do to one `VhdxReader`, and
what a log left by someone else makes of the file when the image is opened.
This project models those parts and the command-line tool over them, checks
them with TLC on small images, and proves with TLAPS, for images and sizes of
any kind, what the checks show of small ones: that allocations stay apart, that
the header and the journal survive a crash at any point, that acknowledged
writes are read back, that a log another implementation left is found and
replayed, that an interrupted open can be finished, and that the tool moves
exactly the bytes it says.

## Inventory

| Component | Source | State | Operations | What makes it correct |
|---|---|---|---|---|
| Host file | `fs_core::BlockDevice`, external | bytes, length, an unflushed cache | `read_at`, `write_at`, `set_len`, `flush` | a flush makes everything before it last |
| Header | `src/src/header.rs`, `reader.rs` | two 4 KiB slots: CRC, sequence number, GUIDs | `pick_header`, rotation, `rewrite_header_clear_log` | one readable header whatever a crash leaves; the one in memory is the one the next open picks |
| Log | `src/src/log.rs`, `journal_sector_write` | a circular region of entries | `encode_entry`, `discover`, `select_chain`, `apply_chain`, `zero_log_region` | replay applies exactly what was committed |
| BAT | `src/src/bat.rs`, `reader.rs` | entries on disk, a copy in memory | `data_bat_index`, `bat_region_covers_the_disk`, load, publish | no two blocks share bytes; no entry points past the file; the index is in the table |
| VhdxReader: write | `reader.rs` | `dev_size`, `header`, `active_header_slot`, `bat`, each under its own mutex | `write_at`, `allocate_block_for`, `flush` | an acknowledged write is read back, now and after any crash |
| VhdxReader: open | `reader.rs` | locals of `open_inner` | identifier, header, region table, replay, metadata, BAT | finishes what an interrupted writer began, or refuses and leaves the file alone |
| VhdxReader: transfers | `reader.rs` | none | `transfer_end`, `block_chunks`, `read_at` | the pieces tile the transfer |
| Region table, metadata | `region_table.rs`, `metadata.rs` | none | `parse`, `find`, `item_data`, `unknown_required` | a malformed or unknown image is refused |
| Overlay | `cli/vhdx/overlay.rs` | pages, length, `written` | `BlockDevice` over a read-only file | reads what was written over what the file holds; `written` tells whether that differs |
| Command line | `cli/vhdx/img.rs`, `size.rs` | `FILE.partial`, the cursor of a copy loop | `info`, `read`, `write` | the output is whole, the range exact, the report of the file |
| C API | `capi.rs` | a handle | open, on a path or a device | no logic of its own |

How they interact. All threads share one `VhdxReader`; its four mutexes are
taken one at a time, except that `journal_sector_write` holds `header` and
`active_header_slot` from its first line to its return and takes `dev_size`
briefly inside. Between `bat_entry_at` and `allocate_block_for`, and between
the read of a BAT sector and its in-place write, no lock is held. The parts of
the file are tied together only by the order of writes and flushes: the new
block's zeros, then the log entry, then the header that names it, then the BAT
sector, then the copy in memory, then the payload. Opening runs the other way:
header, log, replay, erase, header, BAT. The hard behaviours are therefore
crashes between any two device calls, of writer and opener alike, torn
sectors, interleaved allocations, and device calls that fail half way.

`PROJECT.json` lists the hazards one by one, each with the properties that
would show it going wrong.

## Modules

| Module | What it models |
|---|---|
| `Durability` | what a power loss leaves of unflushed writes (`Survivors`) |
| `HostFile` | the block device with the five structures in it, as a volatile cache over stable storage (extends `Durability`) |
| `VhdxImage` | `VhdxReader`: open, replay, and any number of threads in `write_at` (extends `HostFile`) |
| `LogRegion` | the log region as `log.rs` reads it: which entries `parse_log_entry` accepts, and the ends of the chain among them, as operators |
| `LogReplay` | a foreign writer, cut off anywhere, and `open_inner` searching what it left slot by slot and replaying it (extends `LogRegion`, `Durability`) |
| `Geometry` | `chunk_ratio`, `data_bat_index`, `bat_region_covers_the_disk`, as operators |
| `BatGeometry` | a transfer, split into pieces of one block (extends `Geometry`) |
| `OpenPipeline` | the whole of `open_inner`: every check in its order, the replay of entries with several descriptors, what is refused and what is handed out (extends `Geometry`, `Durability`) |
| `FlatDevice` | abstract: what a growing `BlockDevice` promises |
| `Overlay` | the copy-on-write device, shown to implement `FlatDevice` |
| `ImgTool` | one run of `img.vhdx` over the overlay (extends `Overlay`) |
| `VhdxImageProofs`, `JournalProofs`, `PromiseProofs` | theorems about `VhdxImage`, each resting on the one before |
| `LogReplayProofs`, `OpenPipelineProofs`, `BatGeometryProofs`, `ImgToolProofs` | theorems about `LogReplay`, `OpenPipeline`, `BatGeometry`, and `Overlay` with `ImgTool` |
| `DivisionProofs` | quotients and remainders, for the others |
| `MCVhdxImage`, `MCLogReplay`, `MCBatGeometry`, `MCOpenPipeline`, `MCImgTool` | images, requests and symmetries for TLC |

### HostFile

For each structure there are two variables: what a read returns (`hdr`, `log`,
`bat`, `data`, `len`) and the set of contents a crash may leave (`hdrMay`,
...). A write adds to the set, a flush collapses it, `LosePower` picks from it,
independently for each header slot, BAT entry and payload cell: unflushed
writes land in any order, in part, or not at all. A header or log entry that
is written in part fails its CRC and is `TornHeader` or `NoEntry`. `Tears` says
what may spoil the entries of a BAT sector that is being written: a power loss
(`"crash"`), a write that reports an error (`"error"`, `TearBatSector`), both
or neither. A GUID keeps whether its first half is non-zero and its
second half as a set of bits, so that the XOR of `stir_sequence_into_guid` is
computed and not assumed. A BAT entry keeps what the code does with its state:
absent (`NotPresent`, `Undefined`, `Zero`, `Unmapped`), present
(`FullyPresent`) or refused (`PartiallyPresent`, `Reserved`). A header's `room`
says whether its log region can hold an entry; without, `journal_sector_write`
skips the journal.

### VhdxImage

The variables `header`, `activeSlot`, `devSize` and `table` are the fields of
`VhdxReader`; `pc`, `req`, `host` and `image` the program counter and locals
of each thread's call; `phase` how far `open_inner` is. One action is one
device call or one critical section:

| Actions | Code |
|---|---|
| `BeginWrite`, `Lookup`, `WritePayload`, `Acknowledge` | `write_at`, `bat_entry_at`, `host_offset` |
| `Allocate`, `ZeroInit`, `ZeroFlush`, `ReadSector`, `Publish`, `PublishFlush`, `PublishTable` | `allocate_block_for` |
| `JournalLog`, `JournalLogFlush`, `JournalHeaderWrite`, `JournalHeaderFlush` | `journal_sector_write` |
| `OpenStart`, `ReplayGrow`, `ReplayWrite`, `ReplayFlush`, `EraseLog`, `EraseFlush`, `ClearHeader`, `ClearFlush`, `LoadBat` | `open_inner`, `apply_chain`, `zero_log_region`, `rewrite_header_clear_log` |
| `DeviceError`, `OpenError` | the `?` after each device call |
| `Close`, `Kill`, `Crash` | drop (nothing is written), death of the process (its writes stay in the cache), power loss |

`promise` is the specification: for each virtual cell the set of values a read
may return. A call adds its value when it begins and leaves only its value
when it is acknowledged; nothing else changes it, a crash in particular does
not. Clients do not write one cell from two calls at a time. `Starts` are the
images there may be before the first open; a cell they hold no readable bytes
for is promised as `Lost`, of which nothing is asked. Calls that `write_at`
refuses before it does anything (a read-only reader, a range past the disk) are
left out, as they change nothing; so is the bound that `apply_chain` puts on a
replay, which `OpenPipeline` has.

### LogRegion and LogReplay

An entry takes one to several sectors and may run round the end of the region;
its checksum matches when all its parts are in place. An open of `LogReplay`
is:

| Actions | Code |
|---|---|
| `CollectChain` | step 3 of `open_inner`: is there a log to read |
| `Probe` | one turn of the loop in `discover`, with the budget of `parse_log_entry` |
| `SelectChain`, with `HeadOf` and `StartOf` | the refusals of `collect_replay_chain`, passes 2 and 3 of `select_chain` |
| `WalkChain` | one turn of pass 4 |
| `ApplyEntry`, `ApplyFlush` | `apply_chain`, entry by entry |
| `EraseChunk`, `EraseFlush`, `ClearGuid`, `ClearFlush` | `zero_log_region`, `rewrite_header_clear_log` |
| `Close`, `Crash` | drop, power loss |

The search makes no device call after it has read the region, so its steps
could be one; they are told apart because the loops of the code are, and
because an invariant of each loop is what can be proved. The writer is
external: it keeps to the
format (contiguous entries, sequence numbers by one, a tail that names its
oldest entry not yet applied, nothing overwritten from the last committed tail
on), may reuse a region with an old log in it, and may be cut off in any
append or write-back. `committed` is what a reader must be given.

### OpenPipeline

The file is a sequence of granules, each holding the structure that begins in
it, or `Torn`. `CheckBeforeReplay` (steps 1 to 3), `CheckRegions` (4 to 4b) and
`CheckTables` (5 and 6) list the checks of `open_inner` in the order of the
code, each with its error; `AllowedExtent`, `ReplayedExtent` and `ChainFits` are
the bounds of `apply_chain`. What the log search returns is part of the image
here (`CollectReplayChain`); `LogReplay` has the search itself. The actions are
the device calls: `OpenStart`, `MakeRoom`, `ApplyDescriptor`, `ApplyFlush`,
`ReadRegions`, `EraseLog`, `EraseFlush`, `ClearHeader`, `ClearFlush`,
`ReadTables`. An opener can write or not (`capable`, chosen at each open, as
`open`, `open_rw` and `open_on_device` do). A device call may fail at any of
them, a failed write having reached a prefix of its granules and torn the next;
power may be lost anywhere; and the image is then opened again.

`zero_log_region` is a loop of unflushed writes, so power lost or a write that
fails in it leaves some entries of the log. What the search makes of those is
part of the image too (`remains`): a chain without its end, a head without the
entry its tail names (`LogUnassembled`), or an entry of the lap before. The
erase may leave any of them (`Remnants`, `InPart`), and `halfErased` remembers
that it did: `ReaderIsReplayed` and `RecoverableIsOpened` are about the time
before. Which parts of a region are which of these is left to `LogReplay`,
where the erase goes sector by sector.

`ImagesAssumption` says of an image what parsing makes sure of: a header has a
number below the limit, a table and a metadata table have entries with offsets
and lengths, a chain has entries with descriptors. A descriptor is named by its
entry and its place in it, and `Replay` says what a chain makes of a file
without recursion: a granule holds what the last descriptor that covers it
wrote.

The properties compare with `origin`, the image before the first open:
`ReplayedFile` is its log applied in one go, `Recoverable` says that what
comes of that passes all the checks, `RefusedBefore` that it is refused for
what can be seen before the replay.

### Overlay, FlatDevice and ImgTool

`FlatDevice` is the abstract specification of a device: a run of bytes, writes
that take effect whole, or in a prefix if they fail, growth by zeros, and a
`changed` flag. `Overlay` keeps pages over a base as the code does, a page
being filled from the base when it is first written. The refinement maps
`contents` to the bytes the overlay shows below its length (`View`) and
`changed` to `written`; each call is one step of both, as `write_at` and
`read_at` hold the lock of the pages from end to end.

`ImgTool` runs one verb: the library's open as any sequence of calls on the
overlay, of which an error ends the run; the report; the two copy loops of
`read`, with `FILE.partial`, its sync and its rename; the loop of `write` from
a file that others may change, or a pipe. Exit statuses are those of the code.
The guest's bytes are the device's, as in an image whose blocks lie in order:
how a guest offset becomes a host offset is the subject of `VhdxImage` and
`BatGeometry`.

### BatGeometry

`LoadTable` decides how many BAT entries are loaded, `BeginTransfer` is
`transfer_end`, `SplitOne` one turn of the loop in `block_chunks`. All
transfers on all disks of the configured sizes are enumerated.

## Runs

The clean image of `MCVhdxImage` has three blocks of two cells, block 0
present, an unaligned end of file, and a host with room for two more blocks, so
that both can be allocated and a third allocation fails; the foreign one has a
log entry to replay that grows the file, a torn BAT sector and an entry past
its end. The two-writer runs, whose interleavings (and in `threads` liveness)
are the costly part, start from an empty image of two blocks (of one cell each
in `threads`, where every write is of whole blocks). `serial` starts with
either header slot current, over an older header or a torn one. `SeqBits = 4` is
more than the headers a run can write. One data value is enough: a cell nobody
wrote, a zero and the data are told apart, and which call wrote the data shows
in `promise`.

| Run | What is in it | What it shows |
|---|---|---|
| `serial` | one writer, sectors torn by crashes, three opens, a clean and a foreign image | `ReadsArePromised`, `HeaderIsCurrent`, `JournalCovers`, `BoundNeverAhead`, `WritesStayInside`, `AllocationsAreKept` |
| `threads` | two writers, blocks in different BAT sectors, with and without a usable log, a refused block, a device error, kills, fairness | `ReadsArePromised`, `WritesReturn` |
| `contended` | two writers in one sector and one block, a device error that may tear the sector, kills | `NoAliasing`, `NamesInsideFile`, `HeaderSurvives`, and with two allocations at once `BoundNeverAhead`, `WritesStayInside` |
| `foreign_log` | four sectors, four entries of one to three sectors | `RecoversCommitted`, `OpenNeverRefuses`, `ChainIsLive` |
| `geometry` | disks of up to nine bytes, all transfers | `IndexInTable`, `ChunksTile` |
| `open` | 48 images, two device errors, any number of crashes and reopenings | `ReaderIsReplayed`, `RecoverableIsOpened`, `RefusedIsUntouched`, `OnlyTheLogWrites`, `ReplayIsConsumed` |
| `img_tool` | every verb, two pages of two bytes, device errors, a failing output, an input that changes, a power loss | `OutputIsWhole`, `StreamIsPrefix`, `ReportIsOfTheFile`, `WriteIsExact`, and `ImplementsFlatDevice`, the refinement |

`TypeOK`, `LogTypeOK`, `GeometryTypeOK`, `OpenTypeOK` and `ToolTypeOK` are the
type invariants of the five state machines. `serial` has torn sectors and
neither kills nor device errors; why is the subject of `killed` below.
`img_tool` does not check for deadlock, as a run of the tool ends.

What the properties of the last two runs say. As long as no erase was cut off
that left part of the log, a reader is made of the tables as the log left them,
never of the older ones or a mixture (`ReaderIsReplayed`), and an image that is
sound once its log is applied is not turned away, cut-off replays included
(`RecoverableIsOpened`). After such an erase neither holds, see `erase_crash`;
the other three do. An image that is refused for what can
be seen before the replay has not been touched (`RefusedIsUntouched`); no
granule changes that the log, or what is left of it, does not name, but for the headers and a log
region that no table claims (`OnlyTheLogWrites`); and a replay that led to a
reader is over for good (`ReplayIsConsumed`). FILE holds its old contents or
all of the range, after a power loss too (`OutputIsWhole`); `dirty` is reported
unless the library saw the file's own bytes, and the header sequence reported is
the file's (`ReportIsOfTheFile`); `write` never takes more than it checked, and
changes nothing outside its range (`WriteIsExact`).

Why the bounds are enough. A lost or torn allocation needs one crash and one
reopen, a crash during the replay a second (`MaxSessions = 3`); two-writer runs
use two sessions, as the interleaving and not the number of crashes is the
question there. Four sectors and four entries let the circular log lap itself,
straddle the end of its region and leave an older lap behind. Three chunks
suffice for every carry in `data_bat_index`, which is also proved. The images
of `open` break each check of `open_inner` at least once, and four of its logs
rewrite a table, the metadata or the length of the file; the state space is
finite without a bound on crashes. Two pages of two bytes have a write inside a
page, at its end, across both and over the end of the base; the refinement is
also proved for every size. A range of three bytes in chunks of two has a full
and a short chunk, and the inputs one that fits exactly and one that does not.

Fairness (`FairSpec`, only in `threads`): each thread inside a call keeps
taking steps when it can. The code has no waiting loop and
no condition variable; a thread waits only for a mutex, which is released by
another thread's steps, so weak fairness per thread is what an operating system
gives. No fairness is assumed of opens, clients, crashes or errors. The locks
`WritesReturn` is about are `header` and `active_header_slot`, which
`journal_sector_write` holds across its device calls. `dev_size` and `bat` are
only taken for the length of one step, inside which no other lock is taken;
they are not locks in the model, and an order in which locks are taken against
each other would not show.

### What the code does otherwise than it says

Each of these runs expects a violation of one property; the findings in
`PROJECT.json` quote the sentence.

* `same_sector`: two allocations in one BAT sector. The sector is read,
  journalled and written back under no lock; one in-place write undoes the
  other, and an acknowledged write is gone after a reopen.
* `same_block`: two writes to one unallocated block. Both look it up, both
  allocate it; one call's acknowledged data ends in a block nothing names.
* `closed_dirty`: an image that was written to and closed still has a log to
  replay; `dirty` does not mean what its comment says.
* `killed`: a process dies between writing the header that names its log entry
  and flushing it. The next open reads that header from the host's cache and
  replays without a flush, so the BAT sector may be torn on storage while the
  header never got there; after a power loss nothing restores the sector, and
  data acknowledged long before is unreadable. The same happens after a flush
  that fails. A flush before the replay would close the window.
* `erase_crash`: after a replay the log is erased before the header stops
  naming it. A crash in between leaves an older chain, which is replayed over
  newer data (or a head without the entry its tail names, which is refused ever
  after). `foreign_log` has power hold out during the erase
  (`EraseCrashes = FALSE`) and passes: this window is the only one. For a log
  of a single entry, which is all this crate writes, the window is harmless:
  `serial` crashes in it, on both its images. `open` has the window as well,
  with what is left of a log given by the image, for the properties that hold
  in spite of it.

Disagreements and limits that have no run:

* The doc of `write_at` has the header bumped after the in-place write of the
  BAT; the code does it before, and has to, as `JournalCovers` shows.
* The comment in `journal_sector_write` has the previous entry's write "already
  landed in place" when the entry is overwritten; with two threads it may not
  have.
* After sequence number `u64::MAX` the new header is number 0 and loses to the
  old one.
* A failed, torn write of a BAT sector spoils entries of its neighbours; the
  next allocation in the sector reads them back and journals them, and the
  replay that could have restored the sector is gone. `contended` has such
  writes, for what still holds then.
* A log entry that holds both copies of the region table may be torn in both by
  a crash during its replay. The table is read before the replay (step 2c), so
  the image is refused with `NoValidRegionTable` ever after, though the log
  still has both. The images of `open` put the copies in an entry each, with a
  flush between them, and are recoverable throughout. The proof of
  `RecoverableIsOpened` shows that this is not enough in general: when a log
  rewrites each copy twice, in turns and with different contents, a replay that
  was cut off in the last of these entries and is begun again tears the copy
  that was whole.
* `allowed_extent` cuts a `last_file_offset` to one largest block per
  descriptor past the current end. A replay of such a log that is cut off after
  the growth starts from the longer file and may grow it again. The images of
  `open` have logs that stay below the ceiling.
* A chain that leaves the device is refused with `LogReplay`, which `error.rs`
  calls "failed mid-stream"; nothing has been written (`RefusedIsUntouched`).
* A failed rename leaves `FILE.partial` behind, where a failed copy removes it.

## Theorems

Proved by TLAPS for every value of the constants, under the assumptions named
in the modules (sizes are positive, the initial image is well typed). Where a
theorem asks more, it says so as a hypothesis about the images or the setting;
the hypotheses are met by the images of the runs that check the same property,
except where stated. Each inductive invariant was checked by TLC on those runs
first.

### VhdxImage

* `TypeCorrect`: `Spec => []TypeOK`. `TypeOK` is inductive; one lemma per
  device operation, one step per action.
* `NoAliasingAlways`, `NamesInsideFileAlways`: under `ImageSound` (before the
  first open the entries in BAT and log lie inside the file and apart). Neither
  is inductive: that a new block is apart from the others follows from
  `dev_size` bounding all of them. `AllocInv` adds `OpenBound`, which says so
  of every entry on the device in any crash outcome, in memory, in a log entry,
  in a sector image and in a claim; `BoundNeverAhead`; that what is read is one
  of the crash outcomes (`Views`); and that calls need a reader. A crash only
  picks among entries already counted, a replay writes an entry already
  counted, and `ZeroFlush` turns a claim into a settled name exactly when the
  growth of the file has reached storage.
* `BoundNeverAheadAlways`, `WritesStayInsideAlways`: for any image, sound or
  not. The second needs `InsideInv`: a claimed block ends inside the file, and
  a `set_len` that failed after it took effect has made the file no longer than
  the next allocation will.
* `HeaderSurvivesAlways`: under `ImageReadable` (the image has a readable
  header), for any number of writers, errors, kills and crashes. `HeaderInv`:
  one slot is readable in every crash outcome, one call at a time is in the
  journal, the header in memory is what the active slot reads, and that slot is
  stable from the flush before the other is written to the flush after.
* `HeaderIsCurrentAlways`: under `ImageReadable`, as long as no device call has
  failed and the sequence number is below its limit
  (`Spec /\ []SeqBelowLimit => []HeaderIsCurrent`, with the first condition in
  `HeaderIsCurrent`; past the limit it is false, see above, and a header write
  that failed may have landed). `ActiveIsPicked` is added.
* `JournalCoversAlways`, `AllocationsAreKeptAlways` (an action property): for
  one writer, no device error and a process that is not killed (`Serial`; `killed` and
  `same_sector` show why), an image with room for the log that its log does not
  spoil (`ImageJournaled`), and numbers below the limit. `JournalInv` follows
  the order of the code: of headers, log and BAT at most one is unsettled at a
  time (`Settling`); the slot under rotation is outranked until it is whole
  (`RotationOutranks`); the sector image a call carries is the sector on the
  device but for its own entry (`ImageHolds`), and the log holds it from the
  log write on (`LogHolds`); a spoiled entry is covered by a live log entry,
  and a live log entry never takes an allocation back (`LiveRestores`). The
  replay has the same facts for its own phases.
* `ReadsArePromisedAlways`: the same hypotheses with `ImageSound` and
  `ImageFits`. `PromiseInv` joins `AllocInv` and `JournalInv` and adds what
  ties cells to promises: the table in memory is the BAT (`TableIsBat`), a call
  has zeroed, journalled or written what its program counter says
  (`CallKnows`, `CallServes`), and for every virtual cell every entry that any
  crash outcome may make current leads to a promised value (`StoreGood`).
  The foreign image of `serial` has an entry past its end and is not
  `ImageSound`; for it, and for several writers (`threads`), the property stays
  with TLC.

### LogReplay

For every length of the region, every set of entry lengths, every set of
targets and any number of entries.

* `LogTypeCorrect`: in every setting. `TypeInv` adds that what is read is one
  of the crash outcomes, what the log may write is a value, and which locals
  are set in which phase.
* `RecoversCommittedAlways`, `OpenNeverRefusesAlways`, `ChainIsLiveAlways`:
  under `EraseCrashes = FALSE`. Without it they are false, as `erase_crash`
  shows.

`RecoveryInv` is the invariant of the last three. The live entries lie one
after the other from the first, with numbers that rise by one, and an append
fits into what they leave (`LayoutHolds`). While the log stands (`Standing`),
every live entry is whole on storage (`LiveStored`), and every head that a
crash may leave is that of a live entry, of the append, or of an older entry
that is whole but for what the append wrote over it (`HeadsKnown`). So the
chain there is to find is known (`Active`): the live entries, or, when all of
the append landed, those not yet applied with it. Its last entry has the highest
number of all, which decides pass 2, and names its first, which decides pass 3.
Targets that no entry of it writes hold what was committed (`OthersKept`).

The search is followed turn by turn. `ProbeHolds`: what was found is exactly the
whole entries among the slots passed. For that, stepping over an entry must not
step over the head of another; whole entries cannot overlap, as a sector is part
of one entry only. It also bounds the budget: heads other than the one where
the append began do not overlap, so what they claim is at most the region, once
from its start and once more for the last of them, which may run round the end.
The head of an append that was cut off may claim one region more. That is three
regions: the budget of four is never used up, and a budget of three would do.
`WalkHolds`: the chain so far is the beginning of `Active`, and the offset that
is next is that of its next entry, or the end of the last, where no entry with
the next number begins. `Reached`: after n entries a target holds what the last
of them that writes it wrote, whatever an earlier, cut-off replay had left there.
Afterwards there is nothing more to replay: everything committed lasts
(`Recovered`), and no whole entry is left (`Spent`).

### OpenPipeline

* `RefusedIsUntouchedAlways`: for every image.
* `ReplayIsConsumedAlways`, `OnlyTheLogWritesAlways`, `OpenTypeCorrect`: under
  `ImagesReplayable`, which asks of an image with a chain that no descriptor,
  of the log or of what a cut-off erase may leave of it, covers a header slot or
  a log, or writes one (`LogApart`), that the header's number can be bumped
  (`NumberLeft`), and that a replay begun on the longer file does not grow it
  again (`GrowsOnce`, see `allowed_extent` above). They hold after an erase that
  was cut off, too.
* `ReaderIsReplayedAlways`: as long as no erase was cut off that left part of
  the log (`halfErased`, in the property); in addition no region of the replayed table lies on
  a header slot (`ImagesRegular`): the header rewrite would change it.
* `RecoverableIsOpenedAlways`: under the same condition, and in addition
  `ImagesRetryable`. The checks of
  steps 1 to 3 are made of what a cut-off replay left, so of a log that is
  begun to be replayed they ask: no descriptor covers the file identifier; any
  copy of the region table that may be there is clear of the log; and one copy
  lasts (`TableLasts`), as no descriptor covers it or as all that do come in
  later entries than those that rewrite the other, each time with the content
  that is to stay.

`PipelineInv` is the invariant. Of an image without a replay it says that
nothing was ever written (`IdleHolds`). Of the others, until an erase is cut off
and leaves part of the log: what a crash may leave of
a granule is what was there, what the log writes there, or torn
(`AsideHolds`); the first header stands, and the other slot is touched only
once the log is erased (`HeadersHold`); the log is erased only when everything
it says lasts (`LogHolds`), so an open finds the whole chain or has nothing to
do. While a replay runs, what is left of the chain, applied to the file as it
is, makes the replayed file: this is what a chain begun again, on a file with
some of it applied, has to satisfy, and it follows from `Replay` being decided
by the last descriptor alone (`Reindex`, `ApplyStep`, `FlushStep`,
`WholeChain`). `TablesHold` adds, for `RecoverableIsOpened`, that before an
entry that covers the one copy of the region table the other one lasts.

`PartInv` is what is left of it after a cut-off erase, and holds before one as
well. The log is whole, in part or gone (`PartLog`); what an open replays are
descriptors of it or of what may be left (`FromTheLog`, `PartReplay`), so a
granule holds what was there, what one of those wrote, or is torn
(`PartAside`); the log was erased only if the replayed table is clear of it;
and a replay that reached its end has cleared the header (`PartEnd`). What the
replayed file is made of it no longer says: a shorter chain is replayed over
what the whole one wrote.

### BatGeometry

* `GeometryTypeCorrect`, `ChunksTileAlways`: the pieces of every transfer are
  each inside one block and tile it. `TileInv`: the pieces so far are in order,
  none overlaps, and they reach up to the cursor.
* `IndexInTableAlways`: every index asked for is loaded and is a data entry,
  from `DataIndexes` (`data_bat_index` is injective and steps over the bitmap
  entries) and its monotonicity.
* `ChunkRatioPositive`: the ratio is never 0 for an accepted image.

### Overlay and ImgTool

* `OverlayIsFlat`: `Spec => Flat!Spec`, the overlay implements the flat device,
  for every page size, base and buffer. The mapping of a growing overlay needs
  an invariant: `OverlayInv` says, besides the types, that what lies at or
  past the length is zeros, as a page at the end of the base is filled
  with zeros beyond it and no write passes the bound; so what a growth uncovers
  is what `FlatDevice` says it is. Lemmas say which page and place an address
  has (from `DivisionProofs`), how a splice and a growth show in `View`; then
  there is one step per action. `ToolIsFlat` says the same of a whole run of
  the tool, for a disk that fits the device (`VirtualSize <= Capacity`).
* `ToolTypeCorrect`, `StreamIsPrefixAlways`, `OutputIsWholeAlways`,
  `ReportIsOfTheFileAlways`, `WriteIsExactAlways`: for every chunk size, range,
  image and input. `ToolInv` has a part per property: what `stdout` and
  `FILE.partial` hold is the range up to the cursor, a file that a crash may
  leave is the old one or whole, the report is of the base unless `dirty`, and
  the disk is the first one with what was taken spliced in.

### What the proofs found

* `HeaderSurvives` used to ask of every state with a reader that the active slot
  be stable. That is false with three sessions and kills, where an open picks a
  header that a killed process had not flushed; it is asked, and proved, of the
  time when the other slot is rewritten.
* `ImgTool`: the number of bytes a `write` may take was set although the
  arguments had been refused. The code returns before it asks; so does the
  model now.
* `LogReplay`: the search was a recursive function, about which nothing could
  be proved. It is a step per turn of the code's loops now, and the writer's
  room is a distance in place of a sum over its entries.
* `RecoverableIsOpened` needs `TableLasts` and `GrowsOnce`; what happens
  without them is described above.

Only model-checked: the liveness property `WritesReturn`, as the prover has no
fairness; `ReadsArePromised` for several writers and for the
foreign image.

## Not modelled

The C API (`capi.rs`), which turns paths and handles into calls of the library
and has no logic of its own; the parsing of arguments and byte counts
(`size.rs`), `main.rs`, the text and JSON layout of reports and the messages of
errors; the byte layout of headers, tables, metadata and log entries, and byte
order: a structure is a record, or torn. `file_write_guid` and
`data_write_guid` are left out: nothing in the code reads them. Two processes
on one image, or on one `FILE.partial`, and a file that another process writes
while a read-only verb looks at it, are outside what the code promises.

## Plan

1. `ReadsArePromised` for writers in different BAT sectors, from an invariant
   of `PromiseInv`'s kind per sector; and for an image with entries past its
   end, with the cells they name promised as `Lost`.
2. An abstract durable disk (`promise` as its only state), and `VhdxImage` as
   an implementation of it.
3. `ImgTool` over a `VhdxImage` in place of the flat guest disk.

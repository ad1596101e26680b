----------------------------- MODULE VhdxImage ------------------------------
(***************************************************************************)
(* VhdxReader of src/src/reader.rs over the host file of HostFile: opening *)
(* an image (pick_header, replay of the log, erasing it, loading the BAT), *)
(* and any number of threads calling write_at on it, down to the order of  *)
(* the device writes and flushes in allocate_block_for and                 *)
(* journal_sector_write.  The host may lose power between any two of them, *)
(* and any device call may report an error.                                *)
(*                                                                         *)
(* The log is the one this crate writes: a single entry at the start of    *)
(* its region.  Longer chains are the subject of LogRegion.                *)
(***************************************************************************)
EXTENDS HostFile

CONSTANTS
  Writers,       \* threads that share the VhdxReader
  Requests,      \* the <<first, last>> cell ranges clients write
  Starts,        \* the images there may be before the first open
  Lost,          \* stands in a promise for bytes the image never had
  MaxSessions,   \* bound: how often the image is opened
  MaxErrors,     \* bound: how many device calls fail
  Kills          \* FALSE: the process ends only when no call is under way

(* An image some writer left: its length in cells, its BAT, its two header *)
(* slots, and what lies at the start of its log region.                    *)
ImageRecords ==
  [len : Nat, bat : [Blocks -> Entries], hdr : [Slots -> Headers], log : LogEntries]

ASSUME ImageAssumption ==
  /\ Starts \subseteq ImageRecords
  /\ Lost \notin CellValues
  /\ MaxSessions \in Nat
  /\ MaxErrors \in Nat
  /\ Kills \in BOOLEAN

VirtualCells == 0 .. NBlocks * BlockSize - 1

ASSUME RequestsAssumption ==
  \A r \in Requests : r \in VirtualCells \X VirtualCells /\ r[1] <= r[2]

VARIABLES
  phase,       \* how far open_inner is; "open" once it returned a reader
  header,      \* VhdxReader.header
  activeSlot,  \* VhdxReader.active_header_slot
  devSize,     \* VhdxReader.dev_size
  table,       \* VhdxReader.bat
  pc,          \* per writer: the next step of write_at
  req,         \* per writer: range, cursor and data of its call
  host,        \* per writer: host offset of the block it works on
  image,       \* per writer: the BAT sector it has spliced its entry into
  promise,     \* per virtual cell: what a read may return
  sessions,
  errors

memVars == <<phase, header, activeSlot, devSize, table>>
callVars == <<pc, req, host, image>>
vars == <<devVars, memVars, callVars, promise, sessions, errors>>

-----------------------------------------------------------------------------
(***************************************************************************)
(* Helpers of the code.                                                    *)
(***************************************************************************)
OtherSame(s) == s
OtherNext(s) == s + 1
Other(s) == 3 - s

(* u64::wrapping_add(1) on a sequence number. *)
NextSeqStuck(n) == n
NextSeq(n) == (n + 1) % SeqLimit

BitsOf(n) == {i \in Bits : (n \div 2 ^ i) % 2 = 1}

StirNothing(g, n) == g

(* stir_sequence_into_guid: XOR the number over the last eight bytes, and  *)
(* never land on the all-zero GUID.                                        *)
Stir(g, n) ==
  LET mix == (g.mix \ BitsOf(n)) \cup (BitsOf(n) \ g.mix)
  IN  IF mix = {} /\ ~g.lead
      THEN [lead |-> TRUE, mix |-> {}]
      ELSE [lead |-> g.lead, mix |-> mix]

(* pick_header: the valid slot with the higher sequence number, slot 1 on  *)
(* a tie.                                                                  *)
PickSlotOlder(h) ==
  IF h[1].ok /\ (h[2].ok => h[1].seq < h[2].seq) THEN 1 ELSE 2
PickSlot(h) ==
  IF h[1].ok /\ (h[2].ok => h[1].seq >= h[2].seq) THEN 1 ELSE 2

(* The first block boundary at or after n. *)
AlignUp(n) == n + ((BlockSize - (n % BlockSize)) % BlockSize)

(* How long the device is once the block at `off` is part of it.           *)
NewDevSizeShort(off) == off
NewDevSize(off) == off + BlockSize

(* block_chunks: the block under the cursor, and where its piece ends. *)
BlockAt(w) == req[w].cur \div BlockSize
InBlock(o) == o % BlockSize
ChunkEnd(w) ==
  LET blockEnd == (BlockAt(w) + 1) * BlockSize - 1
  IN  IF blockEnd < req[w].last THEN blockEnd ELSE req[w].last

NoRequest == [first |-> 0, last |-> 0, cur |-> 0, val |-> Zero]

Goto(w, step) == pc' = [pc EXCEPT ![w] = step]

(* Holding header and active_header_slot, which journal_sector_write locks *)
(* at its first line and keeps until it returns.                           *)
HoldsJournalEarly(w) == pc[w] \in {"journal", "logFlush", "headerWrite", "headerFlush"}
HoldsJournal(w) == pc[w] \in {"logFlush", "headerWrite", "headerFlush"}

(* The call returns an error: its locals are gone, its locks released.     *)
ReturnError(w) ==
  /\ Goto(w, "idle")
  /\ req' = [req EXCEPT ![w] = NoRequest]
  /\ host' = [host EXCEPT ![w] = 0]
  /\ image' = [image EXCEPT ![w] = NoImage]
  /\ UNCHANGED <<memVars, promise>>

-----------------------------------------------------------------------------
(***************************************************************************)
(* write_at.                                                               *)
(***************************************************************************)

(* A client calls write_at.  Clients do not write one cell from two calls  *)
(* at a time; what such calls leave is nobody's promise.                   *)
BeginWrite(w) ==
  /\ phase = "open"
  /\ pc[w] = "idle"
  /\ \E r \in Requests, v \in Data :
       /\ \A x \in Writers \ {w} :
            pc[x] # "idle" => (req[x].first .. req[x].last) \cap (r[1] .. r[2]) = {}
       /\ req' = [req EXCEPT ![w] =
                    [first |-> r[1], last |-> r[2], cur |-> r[1], val |-> v]]
       /\ promise' = [o \in VirtualCells |->
                        IF o \in r[1] .. r[2] THEN promise[o] \cup {v} ELSE promise[o]]
  /\ Goto(w, "lookup")
  /\ UNCHANGED <<devVars, memVars, host, image, sessions, errors>>

(* bat_entry_at, under the BAT lock and released at once. *)
Lookup(w) ==
  /\ pc[w] = "lookup"
  /\ LET e == table[BlockAt(w)] IN
     \/ /\ e.state = "present"
        /\ host' = [host EXCEPT ![w] = e.off]
        /\ Goto(w, "payload")
        /\ UNCHANGED <<memVars, req, image, promise>>
     \/ /\ e.state = "absent"
        /\ Goto(w, "allocate")
        /\ UNCHANGED <<memVars, req, host, image, promise>>
     \/ /\ e.state \in {"refused", "spoiled"}
        /\ ReturnError(w)
  /\ UNCHANGED <<devVars, sessions, errors>>

(* allocate_block_for: claim the tail of the file under the dev_size lock. *)
(* The device grows first, the bound second.                               *)
AllocateNoRoom(w) ==
  /\ pc[w] = "allocate"
  /\ NewDevSize(AlignUp(devSize)) <= MaxLen
  /\ devSize' = NewDevSize(AlignUp(devSize))
  /\ host' = [host EXCEPT ![w] = AlignUp(devSize)]
  /\ Goto(w, "zero")
  /\ UNCHANGED <<devVars, phase, header, activeSlot, table, req, image, promise, sessions, errors>>
Allocate(w) ==
  LET off == AlignUp(devSize) IN
  /\ pc[w] = "allocate"
  /\ \/ /\ NewDevSize(off) <= MaxLen
        /\ SetLen(NewDevSize(off))
        /\ devSize' = NewDevSize(off)
        /\ host' = [host EXCEPT ![w] = off]
        /\ Goto(w, "zero")
        /\ UNCHANGED <<phase, header, activeSlot, table, req, image, promise>>
     \/ /\ NewDevSize(off) > MaxLen
        /\ ReturnError(w)
        /\ UNCHANGED devVars
  /\ UNCHANGED <<sessions, errors>>

ZeroInit(w) ==
  /\ pc[w] = "zero"
  /\ WriteCells(host[w], host[w] + BlockSize - 1, Zero)
  /\ Goto(w, "zeroFlush")
  /\ UNCHANGED <<memVars, req, host, image, promise, sessions, errors>>

ZeroNoFlush(w) ==
  /\ pc[w] = "zeroFlush"
  /\ Goto(w, "readSector")
  /\ UNCHANGED <<devVars, memVars, req, host, image, promise, sessions, errors>>
ZeroFlush(w) ==
  /\ pc[w] = "zeroFlush"
  /\ Flush
  /\ Goto(w, "readSector")
  /\ UNCHANGED <<memVars, req, host, image, promise, sessions, errors>>

(* Read the BAT sector as it stands on the device, splice the new entry.   *)
ReadSectorBlank(w) ==
  /\ pc[w] = "readSector"
  /\ image' = [image EXCEPT ![w] =
       [x \in Blocks |-> IF x = BlockAt(w) THEN PresentEntry(host[w])
                         ELSE IF SectorOf(x) = SectorOf(BlockAt(w)) THEN AbsentEntry
                         ELSE Uncovered]]
  /\ Goto(w, "journal")
  /\ UNCHANGED <<devVars, memVars, req, host, promise, sessions, errors>>
ReadSector(w) ==
  LET b == BlockAt(w) IN
  /\ pc[w] = "readSector"
  /\ image' = [image EXCEPT ![w] =
       [x \in Blocks |-> IF x = b THEN PresentEntry(host[w])
                         ELSE IF SectorOf(x) = SectorOf(b) THEN bat[x] ELSE Uncovered]]
  /\ Goto(w, "journal")
  /\ UNCHANGED <<devVars, memVars, req, host, promise, sessions, errors>>

-----------------------------------------------------------------------------
(***************************************************************************)
(* journal_sector_write.                                                   *)
(***************************************************************************)

(* The header this call is about to write, and the log entry that goes     *)
(* with it.                                                                *)
JournalHeader ==
  LET seq == NextSeq(header.seq)
  IN  [header EXCEPT !.seq = seq, !.guid = Stir(header.guid, seq)]
JournalEntry(w) ==
  [ok |-> TRUE, guid |-> JournalHeader.guid, seq |-> JournalHeader.seq,
   image |-> image[w], last |-> devSize]

(* Lock, encode the entry, write it over whatever the log region starts    *)
(* with.  Without a usable log region the call returns Ok at once.         *)
JournalLog(w) ==
  /\ pc[w] = "journal"
  /\ \A x \in Writers : ~HoldsJournal(x)
  /\ \/ /\ header.room
        /\ WriteLog(JournalEntry(w))
        /\ Goto(w, "logFlush")
     \/ /\ ~header.room
        /\ Goto(w, "publish")
        /\ UNCHANGED devVars
  /\ UNCHANGED <<memVars, req, host, image, promise, sessions, errors>>

JournalLogFlush(w) ==
  /\ pc[w] = "logFlush"
  /\ Flush
  /\ Goto(w, "headerWrite")
  /\ UNCHANGED <<memVars, req, host, image, promise, sessions, errors>>

(* The bumped header goes into the slot the active one is not in.          *)
JournalHeaderWrite(w) ==
  /\ pc[w] = "headerWrite"
  /\ WriteHeader(Other(activeSlot), JournalHeader)
  /\ Goto(w, "headerFlush")
  /\ UNCHANGED <<memVars, req, host, image, promise, sessions, errors>>

JournalHeaderFlush(w) ==
  /\ pc[w] = "headerFlush"
  /\ Flush
  /\ header' = JournalHeader
  /\ activeSlot' = Other(activeSlot)
  /\ Goto(w, "publish")
  /\ UNCHANGED <<phase, devSize, table, req, host, image, promise, sessions, errors>>

-----------------------------------------------------------------------------
(***************************************************************************)
(* The rest of allocate_block_for and write_at.                            *)
(***************************************************************************)

(* The BAT sector in place. *)
Publish(w) ==
  /\ pc[w] = "publish"
  /\ WriteBatSector(image[w])
  /\ Goto(w, "publishFlush")
  /\ UNCHANGED <<memVars, req, host, image, promise, sessions, errors>>

PublishFlush(w) ==
  /\ pc[w] = "publishFlush"
  /\ Flush
  /\ Goto(w, "publishTable")
  /\ UNCHANGED <<memVars, req, host, image, promise, sessions, errors>>

PublishTable(w) ==
  /\ pc[w] = "publishTable"
  /\ table' = [table EXCEPT ![BlockAt(w)] = PresentEntry(host[w])]
  /\ image' = [image EXCEPT ![w] = NoImage]
  /\ Goto(w, "payload")
  /\ UNCHANGED <<devVars, phase, header, activeSlot, devSize, req, host,
                 promise, sessions, errors>>

(* Where the piece under the cursor goes in the host file. *)
PayloadFrom(w) == host[w] + InBlock(req[w].cur)
PayloadTo(w) == host[w] + InBlock(ChunkEnd(w))

(* host_offset: the piece ends inside the device. *)
InsideDeviceAlways(w) == TRUE
InsideDevice(w) == PayloadTo(w) < devSize

(* Write the piece, and go on to the next block. *)
WritePayload(w) ==
  /\ pc[w] = "payload"
  /\ \/ /\ InsideDevice(w)
        /\ WriteCells(PayloadFrom(w), PayloadTo(w), req[w].val)
        /\ IF ChunkEnd(w) = req[w].last
           THEN /\ Goto(w, "finalFlush")
                /\ UNCHANGED req
           ELSE /\ Goto(w, "lookup")
                /\ req' = [req EXCEPT ![w].cur = ChunkEnd(w) + 1]
        /\ host' = [host EXCEPT ![w] = 0]
        /\ UNCHANGED <<memVars, image, promise>>
     \/ /\ ~InsideDevice(w)
        /\ ReturnError(w)
        /\ UNCHANGED devVars
  /\ UNCHANGED <<sessions, errors>>

(* The flush that ends write_at, and its Ok: from here on the data is the  *)
(* only thing a read may return.                                           *)
AcknowledgeUnflushed(w) ==
  /\ pc[w] = "finalFlush"
  /\ promise' = [o \in VirtualCells |->
                   IF o \in req[w].first .. req[w].last /\ Lost \notin promise[o]
                   THEN {req[w].val} ELSE promise[o]]
  /\ Goto(w, "idle")
  /\ req' = [req EXCEPT ![w] = NoRequest]
  /\ UNCHANGED <<devVars, memVars, host, image, sessions, errors>>
Acknowledge(w) ==
  /\ pc[w] = "finalFlush"
  /\ Flush
  /\ promise' = [o \in VirtualCells |->
                   IF o \in req[w].first .. req[w].last /\ Lost \notin promise[o]
                   THEN {req[w].val} ELSE promise[o]]
  /\ Goto(w, "idle")
  /\ req' = [req EXCEPT ![w] = NoRequest]
  /\ UNCHANGED <<memVars, host, image, sessions, errors>>

(* A device call fails.  A failed write or set_len may have had its effect *)
(* or none; a failed read or flush has none.                               *)
FailedEffect(w) ==
  \/ UNCHANGED devVars
  \/ /\ pc[w] = "allocate"
     /\ NewDevSize(AlignUp(devSize)) <= MaxLen
     /\ SetLen(NewDevSize(AlignUp(devSize)))
  \/ pc[w] = "zero" /\ WriteCells(host[w], host[w] + BlockSize - 1, Zero)
  \/ pc[w] = "journal" /\ WriteLog(JournalEntry(w))
  \/ pc[w] = "headerWrite" /\ WriteHeader(Other(activeSlot), JournalHeader)
  \/ pc[w] = "publish" /\ (WriteBatSector(image[w]) \/ TearBatSector(image[w]))
  \/ pc[w] = "payload" /\ WriteCells(PayloadFrom(w), PayloadTo(w), req[w].val)

DeviceError(w) ==
  /\ errors < MaxErrors
  /\ errors' = errors + 1
  /\ pc[w] \notin {"idle", "lookup", "publishTable"}
  /\ pc[w] = "journal" => header.room /\ \A x \in Writers : ~HoldsJournal(x)
  /\ pc[w] = "payload" => InsideDevice(w)
  /\ FailedEffect(w)
  /\ ReturnError(w)
  /\ UNCHANGED sessions

-----------------------------------------------------------------------------
(***************************************************************************)
(* open_inner, drop and power loss.                                        *)
(***************************************************************************)

(* Which header is current; whether the log holds its chain; how long the  *)
(* file is.  The identifier, the log version and the layout of the regions *)
(* are those of a well-formed image, whose checks pass.                    *)
OpenStart ==
  /\ phase = "closed"
  /\ sessions < MaxSessions
  /\ sessions' = sessions + 1
  /\ LET s == PickSlot(hdr)
         h == hdr[s] IN
     /\ h.ok
     /\ header' = h
     /\ activeSlot' = s
     /\ phase' = IF h.guid # NoGuid /\ h.room /\ log.ok /\ log.guid = h.guid
                 THEN "grow" ELSE "load"
  /\ devSize' = len
  /\ UNCHANGED <<devVars, table, callVars, promise, errors>>

(* apply_chain: make the room the entry's last_file_offset asks for ...    *)
ReplayGrowNothing ==
  /\ phase = "grow"
  /\ devSize' = IF log.last > len THEN log.last ELSE len
  /\ phase' = "apply"
  /\ UNCHANGED <<devVars, header, activeSlot, table, callVars, promise, sessions, errors>>
ReplayGrow ==
  LET extent == IF log.last > len THEN log.last ELSE len IN
  /\ phase = "grow"
  /\ IF extent > len THEN SetLen(extent) ELSE UNCHANGED devVars
  /\ devSize' = extent
  /\ phase' = "apply"
  /\ UNCHANGED <<header, activeSlot, table, callVars, promise, sessions, errors>>

(* ... write the sector, flush ... *)
ReplayWrite ==
  /\ phase = "apply"
  /\ WriteBatSector(log.image)
  /\ phase' = "applyFlush"
  /\ UNCHANGED <<header, activeSlot, devSize, table, callVars, promise, sessions, errors>>

ReplayFlush ==
  /\ phase = "applyFlush"
  /\ Flush
  /\ phase' = "erase"
  /\ UNCHANGED <<header, activeSlot, devSize, table, callVars, promise, sessions, errors>>

(* ... zero_log_region ... *)
EraseLog ==
  /\ phase = "erase"
  /\ WriteLog(NoEntry)
  /\ phase' = "eraseFlush"
  /\ UNCHANGED <<header, activeSlot, devSize, table, callVars, promise, sessions, errors>>

EraseFlush ==
  /\ phase = "eraseFlush"
  /\ Flush
  /\ phase' = "clear"
  /\ UNCHANGED <<header, activeSlot, devSize, table, callVars, promise, sessions, errors>>

(* ... and rewrite_header_clear_log. *)
ClearedHeader == [header EXCEPT !.seq = NextSeq(header.seq), !.guid = NoGuid]

ClearHeader ==
  /\ phase = "clear"
  /\ WriteHeader(Other(activeSlot), ClearedHeader)
  /\ phase' = "clearFlush"
  /\ UNCHANGED <<header, activeSlot, devSize, table, callVars, promise, sessions, errors>>

ClearFlush ==
  /\ phase = "clearFlush"
  /\ Flush
  /\ header' = ClearedHeader
  /\ activeSlot' = Other(activeSlot)
  /\ phase' = "load"
  /\ UNCHANGED <<devSize, table, callVars, promise, sessions, errors>>

(* The BAT is read and the reader handed out. *)
LoadBat ==
  /\ phase = "load"
  /\ table' = bat
  /\ phase' = "open"
  /\ UNCHANGED <<devVars, header, activeSlot, devSize, callVars, promise, sessions, errors>>

(* What is left when the process no longer holds a reader. *)
Forget ==
  /\ phase' = "closed"
  /\ header' = TornHeader
  /\ activeSlot' = 1
  /\ devSize' = 0
  /\ table' = [b \in Blocks |-> AbsentEntry]
  /\ pc' = [w \in Writers |-> "idle"]
  /\ req' = [w \in Writers |-> NoRequest]
  /\ host' = [w \in Writers |-> 0]
  /\ image' = [w \in Writers |-> NoImage]

(* open_inner returns an error from one of its device calls.               *)
OpenError ==
  /\ phase \notin {"closed", "open"}
  /\ errors < MaxErrors
  /\ sessions < MaxSessions
  /\ errors' = errors + 1
  /\ \/ UNCHANGED devVars
     \/ phase = "grow" /\ log.last > len /\ SetLen(log.last)
     \/ phase = "apply" /\ (WriteBatSector(log.image) \/ TearBatSector(log.image))
     \/ phase = "erase" /\ WriteLog(NoEntry)
     \/ phase = "clear" /\ WriteHeader(Other(activeSlot), ClearedHeader)
  /\ Forget
  /\ UNCHANGED <<promise, sessions>>

(* The reader is dropped.  There is no Drop: nothing is written. *)
Close ==
  /\ phase = "open"
  /\ sessions < MaxSessions
  /\ \A w \in Writers : pc[w] = "idle"
  /\ Forget
  /\ UNCHANGED <<devVars, promise, sessions, errors>>

(* The process is killed, in a call or in an open: its writes are in the   *)
(* cache of the host, flushed or not.                                      *)
Kill ==
  /\ Kills
  /\ phase # "closed"
  /\ sessions < MaxSessions
  /\ Forget
  /\ UNCHANGED <<devVars, promise, sessions, errors>>

Crash ==
  /\ phase # "closed"
  /\ sessions < MaxSessions
  /\ LosePower
  /\ Forget
  /\ UNCHANGED <<promise, sessions, errors>>

-----------------------------------------------------------------------------
(* What the image st holds once a log left in it is replayed: Lost where   *)
(* an entry is past the end of the file or of a state the code refuses.    *)
Pending(st) ==
  LET h == st.hdr[PickSlot(st.hdr)]
  IN  h.room /\ st.log.ok /\ h.guid # NoGuid /\ st.log.guid = h.guid
InitEntry(st, b) ==
  IF Pending(st) /\ st.log.image[b] # Uncovered THEN st.log.image[b] ELSE st.bat[b]
InitEnd(st) == IF Pending(st) /\ st.log.last > st.len THEN st.log.last ELSE st.len
InitCell(st, a) == IF a < st.len THEN Zero ELSE Junk
InitValue(st, o) ==
  LET e == InitEntry(st, o \div BlockSize)
  IN  IF e.state = "absent" THEN Zero
      ELSE IF e.state = "present" /\ e.off + BlockSize <= InitEnd(st)
           THEN InitCell(st, e.off + InBlock(o)) ELSE Lost

InitImage(st) ==
  /\ hdr = st.hdr
  /\ hdrMay = [s \in Slots |-> {st.hdr[s]}]
  /\ log = st.log
  /\ logMay = {st.log}
  /\ bat = st.bat
  /\ batMay = [b \in Blocks |-> {st.bat[b]}]
  /\ data = [a \in Cells |-> InitCell(st, a)]
  /\ dataMay = [a \in Cells |-> {InitCell(st, a)}]
  /\ len = st.len
  /\ lenMay = {st.len}
  /\ promise = [o \in VirtualCells |-> {InitValue(st, o)}]

Init ==
  /\ \E st \in Starts : InitImage(st)
  /\ phase = "closed"
  /\ header = TornHeader
  /\ activeSlot = 1
  /\ devSize = 0
  /\ table = [b \in Blocks |-> AbsentEntry]
  /\ pc = [w \in Writers |-> "idle"]
  /\ req = [w \in Writers |-> NoRequest]
  /\ host = [w \in Writers |-> 0]
  /\ image = [w \in Writers |-> NoImage]
  /\ sessions = 0
  /\ errors = 0

AllocateStep(w) ==
  \/ Allocate(w) \/ ZeroInit(w) \/ ZeroFlush(w) \/ ReadSector(w)
  \/ Publish(w) \/ PublishFlush(w) \/ PublishTable(w)
JournalStep(w) ==
  \/ JournalLog(w) \/ JournalLogFlush(w)
  \/ JournalHeaderWrite(w) \/ JournalHeaderFlush(w)
WriteStep(w) ==
  \/ Lookup(w) \/ AllocateStep(w) \/ JournalStep(w) \/ WritePayload(w) \/ Acknowledge(w)
OpenStep ==
  \/ ReplayGrow \/ ReplayWrite \/ ReplayFlush \/ EraseLog \/ EraseFlush
  \/ ClearHeader \/ ClearFlush \/ LoadBat

Next ==
  \/ \E w \in Writers : BeginWrite(w) \/ WriteStep(w) \/ DeviceError(w)
  \/ OpenStart \/ OpenStep \/ OpenError
  \/ Close \/ Kill \/ Crash

Spec == Init /\ [][Next]_vars

(* A thread that is inside a call keeps running. *)
FairSpec == Spec /\ \A w \in Writers : WF_vars(WriteStep(w))

-----------------------------------------------------------------------------
(***************************************************************************)
(* Properties.                                                             *)
(***************************************************************************)
Steps == {"idle", "lookup", "allocate", "zero", "zeroFlush", "readSector", "journal",
          "logFlush", "headerWrite", "headerFlush", "publish", "publishFlush",
          "publishTable", "payload", "finalFlush"}
Phases == {"closed", "grow", "apply", "applyFlush", "erase", "eraseFlush",
           "clear", "clearFlush", "load", "open"}

(* Every variable has the type of the field or local it stands for.        *)
TypeOK ==
  /\ FileTypeOK
  /\ phase \in Phases
  /\ header \in Headers
  /\ activeSlot \in Slots
  /\ devSize \in Nat
  /\ table \in [Blocks -> Entries]
  /\ pc \in [Writers -> Steps]
  /\ req \in [Writers -> [first : VirtualCells, last : VirtualCells,
                          cur : VirtualCells, val : Data \cup {Zero}]]
  /\ host \in [Writers -> Nat]
  /\ image \in [Writers -> Images]
  /\ promise \in [VirtualCells -> SUBSET (CellValues \cup {Lost})]
  /\ sessions \in Nat
  /\ errors \in Nat

(* read_at of one cell: the BAT entry, then zeros or the host block.       *)
ReadCell(o) ==
  LET e == table[o \div BlockSize]
  IN  IF e.state = "absent" THEN Zero ELSE data[e.off + InBlock(o)]
Readable(o) ==
  LET e == table[o \div BlockSize]
  IN  e.state = "absent" \/ (e.state = "present" /\ e.off + InBlock(o) < devSize)

(* An acknowledged write is what every later read returns, in this session *)
(* and after any crash and replay; a write that was not acknowledged may   *)
(* have happened or not; and no block that could be read becomes           *)
(* unreadable.  (write_at's final flush, the order of the steps of         *)
(* allocate_block_for and journal_sector_write, and the replay at open.)   *)
ReadsArePromised ==
  phase = "open" =>
    \A o \in VirtualCells :
      Lost \in promise[o] \/ (Readable(o) /\ ReadCell(o) \in promise[o])

(* The BAT entries block b has or may come to have: on the device in any   *)
(* crash outcome, in memory, in a log entry, in the sector image a writer  *)
(* is about to write.  A writer that has flushed the zeros of its new      *)
(* block owns it; one that has only grown the file claims it.              *)
Owns(w) == pc[w] \in {"readSector", "journal", "logFlush", "headerWrite", "headerFlush",
                      "publish", "publishFlush", "publishTable"}
Claims(w) == pc[w] \in {"zero", "zeroFlush"}

Settled(b) ==
  batMay[b] \cup {table[b]} \cup {l.image[b] : l \in logMay}
    \cup {image[w][b] : w \in Writers}
    \cup {PresentEntry(host[w]) : w \in {x \in Writers : Owns(x) /\ BlockAt(x) = b}}
Named(b) ==
  Settled(b)
    \cup {PresentEntry(host[w]) : w \in {x \in Writers : Claims(x) /\ BlockAt(x) = b}}

Apart(e, f) ==
  (e.state = "present" /\ f.state = "present") =>
    (e.off + BlockSize <= f.off \/ f.off + BlockSize <= e.off)
EndsBy(e, n) == e.state = "present" => e.off + BlockSize <= n

(* No two virtual blocks ever share a byte of the host file, whatever a    *)
(* crash leaves and however many threads allocate at once: the dev_size    *)
(* lock and the growth of the file under it hand out each tail once.       *)
NoAliasing ==
  \A b, c \in Blocks : b # c => \A e \in Named(b), f \in Named(c) : Apart(e, f)

(* No crash leaves a BAT entry, in place or in the log, that names bytes   *)
(* past the end the file comes back with (the zero-fill and its flush      *)
(* precede the journal entry and the in-place write).                      *)
NamesInsideFile ==
  \A b \in Blocks : \A e \in Settled(b), n \in lenMay : EndsBy(e, n)

(* "The device is extended with set_len before this is raised, so it never *)
(* names bytes that are not there": dev_size never runs ahead of the file. *)
BoundNeverAhead == phase # "closed" => devSize <= len

(* Whatever a crash leaves, one header slot is readable, and while the     *)
(* other slot is rewritten the active header is on stable storage in its   *)
(* own: the rotation never writes over the only header there is.           *)
Rotates ==
  \/ \E w \in Writers : pc[w] \in {"headerWrite", "headerFlush"}
  \/ phase \in {"clear", "clearFlush"}
HeaderSurvives ==
  /\ \A h \in Survivors(hdr, hdrMay) : h[PickSlot(h)].ok
  /\ Rotates => hdrMay[activeSlot] = {header}

(* Between two journal writes the header the code holds in memory is the   *)
(* one the next open will pick, as long as no device call has failed: a    *)
(* header whose flush fails may be in its slot, and is not taken over      *)
(* (journal_sector_write).                                                 *)
HeaderIsCurrent ==
  (phase = "open" /\ errors = 0 /\ \A w \in Writers : ~HoldsJournal(w)) =>
    hdr[PickSlot(hdr)] = header /\ PickSlot(hdr) = activeSlot

(* While a BAT sector may be left torn or half old, the header every crash *)
(* outcome picks names a log entry that restores all of it.                *)
Unsettled(b) == batMay[b] # {bat[b]} \/ bat[b].state = "spoiled"
JournalCovers ==
  \A b \in Blocks : Unsettled(b) =>
    \A h \in Survivors(hdr, hdrMay), l \in logMay :
      /\ l.ok /\ l.guid = h[PickSlot(h)].guid /\ l.guid # NoGuid
      /\ l.image[b].state \notin {"uncovered", "spoiled"}

(* A block whose entry is present in every crash outcome is never absent   *)
(* in one again: no write of a BAT sector, and no replay of a stale one,   *)
(* forgets an allocation.                                                  *)
AllocationsAreKept ==
  [][\A b \in Blocks : (\A e \in batMay[b] : e.state = "present") =>
       \A e \in batMay'[b] : e.state # "absent"]_vars

(* Nothing is ever written past the end of the file (host_offset's bound). *)
WritesStayInside == \A a \in Cells : a >= len => dataMay[a] = {Junk} /\ data[a] = Junk

(* "The log held entries to replay: the image was not closed after its     *)
(* last write": an image that was closed has no log to replay.             *)
ClosedMeansClean ==
  [][Close => ~(log.ok /\ log.guid = hdr[PickSlot(hdr)].guid)]_vars

(* Every write_at returns: the locks it takes are given back, on the       *)
(* paths that fail as well.                                                *)
WritesReturn == \A w \in Writers : pc[w] # "idle" ~> pc[w] = "idle"
=============================================================================

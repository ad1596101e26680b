---------------------------- MODULE OpenPipeline -----------------------------
(***************************************************************************)
(* open_inner of src/src/reader.rs from its first read to the reader it    *)
(* hands out: the checks that may refuse an image, in their order, and the *)
(* writes between them.  What is checked before the replay is not what is  *)
(* used after it, as the log may rewrite the region tables, the metadata   *)
(* and the BAT; and the open may be cut off by a device error or a power   *)
(* loss and be tried again on what it left.                                *)
(*                                                                         *)
(* The file is a sequence of 64 KiB granules.  Granule 0 is the file       *)
(* identifier, 1 and 2 are the header slots, 3 and 4 the region tables;    *)
(* together they are the first megabyte, which is MIB granules here.  A    *)
(* granule holds one record, the structure that begins in it; a structure  *)
(* that was written in part, or whose CRC-32C does not match, is Torn.     *)
(* Offsets and lengths are not bounded: where the code refuses a sum that  *)
(* overflows, or saturates it, the sum exceeds the file and is refused     *)
(* here for that.                                                          *)
(***************************************************************************)
EXTENDS Geometry, Durability, Sequences, SequencesExt

CONSTANTS
  MIB,                    \* granules per megabyte
  MIN_BLOCK_SIZE,
  MAX_BLOCK_SIZE,
  SectorSizes,            \* 512 and 4096
  MAX_METADATA_ENTRIES,
  MAX_REGION_ENTRIES,
  EntriesPerGranule,      \* metadata entries that fit in a granule
  SeqLimit,               \* sequence numbers wrap here
  MaxLen,                 \* bound: no file is longer
  Images,                 \* the images that are opened
  MaxErrors               \* bound: how many device calls fail

ASSUME PipelineAssumption ==
  /\ MIB \in Nat /\ MIB >= 5
  /\ MIN_BLOCK_SIZE \in Nat \ {0} /\ MAX_BLOCK_SIZE \in Nat
  /\ SectorSizes \subseteq Nat
  /\ MAX_METADATA_ENTRIES \in Nat /\ MAX_REGION_ENTRIES \in Nat
  /\ EntriesPerGranule \in Nat \ {0}
  /\ SeqLimit \in Nat \ {0} /\ MaxLen \in Nat
  /\ MaxErrors \in Nat

VARIABLES
  file, may,        \* the granules: as read now, as a crash may leave them
  len, lenMay,      \* the length of the file, likewise
  phase,
  capable,          \* replay_capable of this open
  header, slot,     \* locals of open_inner: header and active_slot,
  devSize,          \*   dev_size,
  todo,             \*   what is left of the chain apply_chain works on,
  replayed,         \*   replayed,
  regions,          \*   region_table
  outcome,          \* the error, when the open was refused
  reader,           \* what the open loaded, when it was not
  origin,           \* the image before the first open
  halfErased,       \* history: an erase was cut off and left part of the log
  errors

devVars == <<file, may, len, lenMay>>
localVars == <<capable, header, slot, devSize, todo, replayed, regions>>
vars == <<devVars, phase, localVars, outcome, reader, origin, halfErased, errors>>

-----------------------------------------------------------------------------
(***************************************************************************)
(* What a granule may hold.                                                *)
(***************************************************************************)
Granules == 0 .. MaxLen - 1
Blank == [kind |-> "blank"]
Torn == [kind |-> "torn"]

FILE_IDENTIFIER_OFFSET == 0
HeaderOffset(s) == s                 \* HEADER1_OFFSET, HEADER2_OFFSET
RegionTableOffset(s) == s + 2        \* REGION_TABLE1_OFFSET, REGION_TABLE2_OFFSET

(* What parsing makes sure of.  No log claims more than the bound on the   *)
(* length of a file, and there is nothing past the end of one.             *)
Parsed(c) ==
  /\ c.kind = "header" =>
       c \in [kind : {"header"}, seq : 0 .. SeqLimit - 1, guid : {c.guid},
              version : {c.version}, off : Nat, len : Nat]
  /\ c.kind = "table" => /\ c.entries \in Seq(Range(c.entries))
                         /\ \A e \in Range(c.entries) : e.off \in Nat /\ e.len \in Nat
  /\ c.kind = "meta" => /\ c.items \in Seq(Range(c.items))
                        /\ \A e \in Range(c.items) :
                             /\ e.value.block \in Nat /\ e.value.number \in Nat
                             /\ e.inside \in BOOLEAN
ParsedChain(chain) ==
  /\ chain \in Seq(Range(chain))
  /\ \A e \in Range(chain) :
       /\ e \in [last : 0 .. MaxLen, descriptors : Seq(Range(e.descriptors))]
       /\ \A d \in Range(e.descriptors) : d.off \in Nat /\ d.len \in Nat /\ Parsed(d.content)

ASSUME ImagesAssumption ==
  \A i \in Images :
    /\ i.len \in MIB .. MaxLen
    /\ i.file \in [Granules -> Range(i.file)]
    /\ \A a \in Granules :
         /\ Parsed(i.file[a])
         /\ a >= i.len => i.file[a] = Blank
         /\ i.file[a].kind = "log" =>
              /\ a >= MIB
              /\ \A log \in {i.file[a]} \cup i.file[a].remains :
                   /\ ParsedChain(log.chain)
                   /\ log.error \in {"ok", "Corrupt", "LogUnassembled"}

NoGuid == "none"
NoHeader == [kind |-> "header", seq |-> 0, guid |-> NoGuid, version |-> 0, off |-> 0, len |-> 0]
NoTable == [kind |-> "table", entries |-> << >>]
NoReader == [kind |-> "none"]

(* The first check that fails, of a sequence of <<failed, error>> pairs. *)
FirstError(checks) ==
  LET i == SelectInSeq(checks, LAMBDA c : c[1])
  IN  IF i = 0 THEN "ok" ELSE checks[i][2]

(* probe_at: a copy that lies in the file and parses. *)
Parses(f, n, at, kind) == at < n /\ f[at].kind = kind

-----------------------------------------------------------------------------
(***************************************************************************)
(* The header and the log region.                                          *)
(***************************************************************************)

(* pick_header: the higher sequence number, slot 1 on a tie. *)
HasHeader(f, n) == \E s \in {1, 2} : Parses(f, n, HeaderOffset(s), "header")
PickSlot(f, n) ==
  IF /\ Parses(f, n, HeaderOffset(1), "header")
     /\ Parses(f, n, HeaderOffset(2), "header") =>
          f[HeaderOffset(1)].seq >= f[HeaderOffset(2)].seq
  THEN 1 ELSE 2
PickHeader(f, n) == IF HasHeader(f, n) THEN f[HeaderOffset(PickSlot(f, n))] ELSE NoHeader

SpanInsideTheFile(n, off, length) == off + length <= n

(* validate_log_region. *)
ValidLogRegion(n, h) ==
  h.len = 0 \/ /\ h.off % MIB = 0 /\ h.len % MIB = 0
               /\ h.off >= MIB
               /\ SpanInsideTheFile(n, h.off, h.len)

(* log_region_clear_of_declared_regions. *)
LogRegionClear(t, h) ==
  h.len = 0 \/ \A i \in DOMAIN t.entries :
    LET e == t.entries[i] IN ~(h.off < e.off + e.len /\ e.off < h.off + h.len)

(* collect_replay_chain, by its three results: LogRegion has the search.   *)
(* `remains` are the other results there may be when a part of the log has *)
(* been overwritten: a chain without its end, a head without the entry its *)
(* tail names, a chain of an older lap.                                    *)
NoChain == [error |-> "ok", chain |-> << >>]
CollectReplayChain(f, h) ==
  LET log == f[h.off]
  IN  IF /\ h.guid # NoGuid /\ h.len > 0 /\ h.off > 0
         /\ h.off \in DOMAIN f /\ log.kind = "log" /\ log.guid = h.guid
      THEN [error |-> log.error, chain |-> log.chain]
      ELSE NoChain
Remnants(log) ==
  {[kind |-> "log", guid |-> log.guid, error |-> l.error, chain |-> l.chain,
    remains |-> log.remains] : l \in log.remains}

-----------------------------------------------------------------------------
(***************************************************************************)
(* The region table and the metadata.                                      *)
(***************************************************************************)

(* RegionTable::parse, and pick_region_table: the first copy that parses.  *)
TableParses(f, n, s) ==
  /\ Parses(f, n, RegionTableOffset(s), "table")
  /\ Len(f[RegionTableOffset(s)].entries) <= MAX_REGION_ENTRIES
HasTable(f, n) == \E s \in {1, 2} : TableParses(f, n, s)
PickRegionTable(f, n) ==
  IF TableParses(f, n, 1) THEN f[RegionTableOffset(1)]
  ELSE IF TableParses(f, n, 2) THEN f[RegionTableOffset(2)] ELSE NoTable

(* RegionTable::find: the first entry with that GUID. *)
FindIndex(t, guid) == SelectInSeq(t.entries, LAMBDA e : e.guid = guid)
Missing(t, guid) == FindIndex(t, guid) = 0
Find(t, guid) ==
  IF Missing(t, guid) THEN [guid |-> guid, off |-> 0, len |-> 0, required |-> FALSE]
  ELSE t.entries[FindIndex(t, guid)]

(* RegionTable::unknown_required. *)
UnknownRequiredRegion(t) ==
  \E i \in DOMAIN t.entries :
    t.entries[i].required /\ t.entries[i].guid \notin {"bat", "metadata"}

RECOGNISED_ITEMS ==
  {"FileParameters", "VirtualDiskSize", "Page83Data", "LogicalSectorSize", "PhysicalSectorSize"}

(* MetadataTable::item_data: the first entry with that id, if its data     *)
(* lies in the region.  `whole` says whether the data is as long as the    *)
(* item's parser asks for.                                                 *)
NoItem == [id |-> "none", inside |-> FALSE, whole |-> FALSE, required |-> FALSE,
           value |-> [block |-> 0, parent |-> FALSE, number |-> 0]]
ItemData(m, id) ==
  LET i == SelectInSeq(m.items, LAMBDA e : e.id = id)
  IN  IF i = 0 \/ ~m.items[i].inside THEN NoItem ELSE m.items[i]
UnknownRequiredItem(m) ==
  \E i \in DOMAIN m.items : m.items[i].required /\ m.items[i].id \notin RECOGNISED_ITEMS

NoMetadata == [kind |-> "meta", items |-> << >>]
MetadataAt(f, n, t) ==
  LET r == Find(t, "metadata")
  IN  IF ~Missing(t, "metadata") /\ SpanInsideTheFile(n, r.off, r.len) /\ r.len > 0
         /\ f[r.off].kind = "meta"
      THEN f[r.off] ELSE NoMetadata

IsPowerOfTwo(n) == \E k \in 0 .. n : n = 2 ^ k

Params(m) == ItemData(m, "FileParameters").value
VirtualSize(m) == ItemData(m, "VirtualDiskSize").value.number
SectorSize(m) == ItemData(m, "LogicalSectorSize").value.number
DiskOf(m, r) ==
  [blockSize |-> Params(m).block, size |-> VirtualSize(m), regionLen |-> r.len,
   ratio |-> ChunkRatio(Params(m).block, SectorSize(m))]

-----------------------------------------------------------------------------
(***************************************************************************)
(* The checks of open_inner, in their order.                               *)
(***************************************************************************)

(* Steps 1 to 3, up to the chain: nothing has been written yet. *)
CheckBeforeReplay(f, n) ==
  LET h == PickHeader(f, n) IN
  FirstError(<<
    <<f[FILE_IDENTIFIER_OFFSET].kind # "identifier", "NotVhdx">>,
    <<~HasHeader(f, n), "NoValidHeader">>,
    <<h.version # 0, "Unsupported">>,
    <<~ValidLogRegion(n, h), "Corrupt">>,
    <<~HasTable(f, n), "NoValidRegionTable">>,
    <<~LogRegionClear(PickRegionTable(f, n), h), "Corrupt">>,
    <<CollectReplayChain(f, h).error # "ok", CollectReplayChain(f, h).error>>
  >>)

(* Steps 4 to 4b, on the file as the replay left it. *)
CheckRegionsPermissive(f, n, h) ==
  FirstError(<<
    <<~HasTable(f, n), "NoValidRegionTable">>,
    <<UnknownRequiredRegion(PickRegionTable(f, n)), "Unsupported">>
  >>)
CheckRegions(f, n, h) ==
  FirstError(<<
    <<~HasTable(f, n), "NoValidRegionTable">>,
    <<UnknownRequiredRegion(PickRegionTable(f, n)), "Unsupported">>,
    <<~LogRegionClear(PickRegionTable(f, n), h), "Corrupt">>
  >>)

(* Step 5, the part that finds and reads the metadata items. *)
CheckMetadata(f, n, t) ==
  LET r == Find(t, "metadata")
      m == MetadataAt(f, n, t) IN
  FirstError(<<
    <<Missing(t, "metadata"), "Corrupt">>,
    <<~SpanInsideTheFile(n, r.off, r.len), "Corrupt">>,
    <<r.len = 0 \/ m = NoMetadata, "BadMetadata">>,
    <<Len(m.items) > MAX_METADATA_ENTRIES, "BadMetadata">>,
    <<1 + Len(m.items) > r.len * EntriesPerGranule, "BadMetadata">>,
    <<~ItemData(m, "FileParameters").whole, "BadMetadata">>,
    <<~ItemData(m, "VirtualDiskSize").whole, "BadMetadata">>,
    <<~ItemData(m, "LogicalSectorSize").whole, "BadMetadata">>
  >>)

(* The rest of step 5, and step 6. *)
CheckParameters(n, t, m) ==
  LET r == Find(t, "bat") IN
  FirstError(<<
    <<~IsPowerOfTwo(Params(m).block), "Corrupt">>,
    <<Params(m).block < MIN_BLOCK_SIZE \/ Params(m).block > MAX_BLOCK_SIZE, "Corrupt">>,
    <<SectorSize(m) \notin SectorSizes, "Corrupt">>,
    <<Params(m).parent, "Unsupported">>,
    <<UnknownRequiredItem(m), "Unsupported">>,
    <<ChunkRatio(Params(m).block, SectorSize(m)) = 0, "Corrupt">>,
    <<Missing(t, "bat"), "Corrupt">>,
    <<~SpanInsideTheFile(n, r.off, r.len), "Corrupt">>
  >>)

CheckTables(f, n, t) ==
  LET m == MetadataAt(f, n, t)
      missing == CheckMetadata(f, n, t)
      bad == CheckParameters(n, t, m)
      disk == DiskOf(m, Find(t, "bat")) IN
  IF missing # "ok" THEN missing
  ELSE IF bad # "ok" THEN bad
  ELSE IF ~RegionCovers(disk) THEN "Corrupt" ELSE "ok"

(* The reader that is handed out: the entries the disk needs are loaded.   *)
(* PhysicalSectorSize is reported when it can be read, and never required. *)
Load(f, n, t) ==
  LET m == MetadataAt(f, n, t)
      r == Find(t, "bat")
      disk == DiskOf(m, r)
      physical == ItemData(m, "PhysicalSectorSize") IN
  [kind |-> "reader", size |-> disk.size, block |-> disk.blockSize, ratio |-> disk.ratio,
   sector |-> SectorSize(m), batOff |-> r.off, devSize |-> n,
   physical |-> IF physical.whole THEN physical.value.number ELSE 0,
   bat |-> [i \in 0 .. RequiredEntries(disk) - 1 |-> f[r.off + i]]]

-----------------------------------------------------------------------------
(***************************************************************************)
(* apply_chain: an entry is its descriptors and its last_file_offset; a    *)
(* descriptor covers granules `off` to `off + len - 1`, one of them when   *)
(* it is a data descriptor.                                                *)
(***************************************************************************)

(* The descriptors of a chain, each by its entry and its place in it. *)
Descriptors(chain) == UNION {{i} \X DOMAIN chain[i].descriptors : i \in DOMAIN chain}
At(chain, p) == chain[p[1]].descriptors[p[2]]
End(chain, p) == At(chain, p).off + At(chain, p).len

AllowedExtent(current, chain) ==
  LET ceiling == current + Cardinality(Descriptors(chain)) * MAX_BLOCK_SIZE
      claimed == Max({0} \cup {chain[i].last : i \in DOMAIN chain})
      capped == IF claimed < ceiling THEN claimed ELSE ceiling
  IN  IF capped > current THEN capped ELSE current

DescriptorExtent(chain) == Max({0} \cup {End(chain, p) : p \in Descriptors(chain)})

ReplayedExtent(current, chain) ==
  LET allowed == AllowedExtent(current, chain)
      written == DescriptorExtent(chain)
  IN  IF written > allowed THEN written ELSE allowed

(* The whole chain is checked before the first write. *)
ChainFits(current, chain) ==
  \A p \in Descriptors(chain) : End(chain, p) <= AllowedExtent(current, chain)

-----------------------------------------------------------------------------
(***************************************************************************)
(* The device.  A granule whose content a write changes may be left in     *)
(* part, and of a log some entries.                                        *)
(***************************************************************************)
InPart(a) == IF file[a].kind = "log" THEN Remnants(file[a]) ELSE {Torn}
Tears(a, c) == IF may[a] = {c} THEN {} ELSE InPart(a)

WriteSpan(off, length, c) ==
  LET span == off .. off + length - 1 IN
  /\ file' = [a \in Granules |-> IF a \in span THEN c ELSE file[a]]
  /\ may' = [a \in Granules |-> IF a \in span THEN may[a] \cup {c} \cup Tears(a, c) ELSE may[a]]
  /\ UNCHANGED <<len, lenMay>>

(* A write that fails has reached a prefix of its granules, and may have   *)
(* torn the one it stopped at.  A log that begins where the write does may *)
(* reach past that, and be left in part as well.                           *)
FailSpan(off, length, c) ==
  \E k \in 0 .. length - 1 :
    LET reached == off .. off + k - 1
        last == off + k IN
    /\ \E first \in {c} \cup (IF file[off].kind = "log" THEN Remnants(file[off]) ELSE {}),
          stop \in {file[last]} \cup (IF file[last] = c THEN {} ELSE InPart(last)) :
         file' = [a \in Granules |-> IF a = last THEN stop ELSE IF a = off THEN first
                                     ELSE IF a \in reached THEN c ELSE file[a]]
    /\ may' = [a \in Granules |->
         IF a \in reached \cup {last} THEN may[a] \cup {file'[a]} \cup Tears(a, c) ELSE may[a]]
    /\ UNCHANGED <<len, lenMay>>

SetLen(n) ==
  /\ len' = n
  /\ lenMay' = lenMay \cup {n}
  /\ UNCHANGED <<file, may>>

Flush ==
  /\ may' = [a \in Granules |-> {file[a]}]
  /\ lenMay' = {len}
  /\ UNCHANGED <<file, len>>

LosePower ==
  \E n \in lenMay, f \in Survivors(file, may) :
    /\ len' = n
    /\ lenMay' = {n}
    /\ file' = [a \in Granules |-> IF a < n THEN f[a] ELSE Blank]
    /\ may' = [a \in Granules |-> {file'[a]}]

-----------------------------------------------------------------------------
(***************************************************************************)
(* open_inner.                                                             *)
(***************************************************************************)
RefuseSilently(e) ==
  /\ phase' = "refused"
  /\ outcome' = "none"
Refuse(e) ==
  /\ phase' = "refused"
  /\ outcome' = e

(* Step 3: `replay_capable` is asked for only when there is a chain.       *)
StageStale(chain, can) == IF chain = << >> \/ ~can THEN "regions" ELSE "grow"
Stage(chain, can) ==
  IF chain = << >> THEN "regions" ELSE IF can THEN "grow" ELSE "LogNeedsReplay"

(* Steps 1 to 3, up to the decision to replay. *)
OpenStart ==
  LET h == PickHeader(file, len)
      error == CheckBeforeReplay(file, len)
      chain == CollectReplayChain(file, h).chain IN
  /\ phase = "closed"
  /\ capable' \in BOOLEAN
  /\ header' = h
  /\ slot' = PickSlot(file, len)
  /\ devSize' = len
  /\ regions' = NoTable
  /\ reader' = NoReader
  /\ IF error # "ok"
     THEN /\ Refuse(error)
          /\ todo' = << >>
          /\ replayed' = FALSE
     ELSE LET stage == Stage(chain, capable') IN
          /\ todo' = chain
          /\ replayed' = (stage = "grow")
          /\ IF stage = "LogNeedsReplay" THEN Refuse(stage)
             ELSE phase' = stage /\ UNCHANGED outcome
  /\ UNCHANGED <<devVars, origin, halfErased, errors>>

(* apply_chain: the bounds, the room, the descriptors, a flush per entry.  *)
MakeRoomUnchecked ==
  /\ phase = "grow"
  /\ IF AllowedExtent(devSize, todo) > len
     THEN SetLen(AllowedExtent(devSize, todo)) ELSE UNCHANGED devVars
  /\ devSize' = ReplayedExtent(devSize, todo)
  /\ phase' = "apply"
  /\ UNCHANGED <<capable, header, slot, todo, replayed, regions, outcome, reader, origin,
                 halfErased, errors>>
MakeRoom ==
  /\ phase = "grow"
  /\ IF ~ChainFits(devSize, todo)
     THEN /\ Refuse("LogReplay")
          /\ UNCHANGED <<devVars, devSize>>
     ELSE /\ IF AllowedExtent(devSize, todo) > len
             THEN SetLen(AllowedExtent(devSize, todo)) ELSE UNCHANGED devVars
          /\ devSize' = ReplayedExtent(devSize, todo)
          /\ phase' = "apply"
          /\ UNCHANGED outcome
  /\ UNCHANGED <<capable, header, slot, todo, replayed, regions, reader, origin, halfErased, errors>>

Descriptor == todo[1].descriptors[1]

(* A zero descriptor of no length writes nothing, as WriteSpan then does.  *)
ApplyDescriptor ==
  /\ phase = "apply"
  /\ todo[1].descriptors # << >>
  /\ WriteSpan(Descriptor.off, Descriptor.len, Descriptor.content)
  /\ todo' = [todo EXCEPT ![1].descriptors = Tail(@)]
  /\ UNCHANGED <<phase, capable, header, slot, devSize, replayed, regions, outcome, reader,
                 origin, halfErased, errors>>

ApplyFlush ==
  /\ phase = "apply"
  /\ todo[1].descriptors = << >>
  /\ Flush
  /\ todo' = Tail(todo)
  /\ phase' = IF Tail(todo) = << >> THEN "regions" ELSE "apply"
  /\ UNCHANGED <<capable, header, slot, devSize, replayed, regions, outcome, reader,
                 origin, halfErased, errors>>

(* Steps 4 to 4b: the table is read again. *)
ReadRegions ==
  LET error == CheckRegions(file, devSize, header) IN
  /\ phase = "regions"
  /\ regions' = PickRegionTable(file, devSize)
  /\ IF error # "ok" THEN Refuse(error)
     ELSE phase' = (IF replayed THEN "erase" ELSE "tables") /\ UNCHANGED outcome
  /\ UNCHANGED <<devVars, capable, header, slot, devSize, todo, replayed, reader,
                 origin, halfErased, errors>>

(* Step 4c: zero_log_region and rewrite_header_clear_log. *)
EraseLog ==
  /\ phase = "erase"
  /\ WriteSpan(header.off, header.len, Blank)
  /\ phase' = "eraseFlush"
  /\ UNCHANGED <<localVars, outcome, reader, origin, halfErased, errors>>

EraseFlush ==
  /\ phase = "eraseFlush"
  /\ Flush
  /\ phase' = "clear"
  /\ UNCHANGED <<localVars, outcome, reader, origin, halfErased, errors>>

OtherSlotSame(s) == s
OtherSlot(s) == 3 - s
ClearedHeader == [header EXCEPT !.seq = (@ + 1) % SeqLimit, !.guid = NoGuid]

ClearHeader ==
  /\ phase = "clear"
  /\ WriteSpan(HeaderOffset(OtherSlot(slot)), 1, ClearedHeader)
  /\ phase' = "clearFlush"
  /\ UNCHANGED <<localVars, outcome, reader, origin, halfErased, errors>>

ClearFlushKeepsOld ==
  /\ phase = "clearFlush"
  /\ Flush
  /\ phase' = "tables"
  /\ UNCHANGED <<localVars, outcome, reader, origin, halfErased, errors>>
ClearFlush ==
  /\ phase = "clearFlush"
  /\ Flush
  /\ header' = ClearedHeader
  /\ slot' = OtherSlot(slot)
  /\ phase' = "tables"
  /\ UNCHANGED <<capable, devSize, todo, replayed, regions, outcome, reader,
                 origin, halfErased, errors>>

(* Steps 5 and 6. *)
ReadTables ==
  LET error == CheckTables(file, devSize, regions) IN
  /\ phase = "tables"
  /\ IF error # "ok"
     THEN Refuse(error) /\ UNCHANGED reader
     ELSE /\ phase' = "open"
          /\ reader' = Load(file, devSize, regions)
          /\ UNCHANGED outcome
  /\ UNCHANGED <<devVars, localVars, origin, halfErased, errors>>

(* Some of the log is left, and not all. *)
LeftInPart(f) ==
  LET off == PickHeader(origin.file, origin.len).off
  IN  off \in Granules /\ f[off].kind = "log" /\ f[off] # origin.file[off]

(* What the process forgets when the open is over, or is cut off. *)
Forget ==
  /\ phase' = "closed"
  /\ header' = NoHeader /\ slot' = 1 /\ devSize' = 0 /\ todo' = << >> /\ replayed' = FALSE
  /\ regions' = NoTable /\ capable' = FALSE
  /\ outcome' = "none" /\ reader' = NoReader
  /\ halfErased' = (halfErased \/ LeftInPart(file'))
  /\ UNCHANGED origin

(* A device call fails.  A failed read or flush has no effect. *)
DeviceError ==
  /\ phase \notin {"closed", "open", "refused"}
  /\ errors < MaxErrors
  /\ errors' = errors + 1
  /\ \/ UNCHANGED devVars
     \/ /\ phase = "grow" /\ ChainFits(devSize, todo)
        /\ AllowedExtent(devSize, todo) > len
        /\ SetLen(AllowedExtent(devSize, todo))
     \/ /\ phase = "apply" /\ todo[1].descriptors # << >>
        /\ FailSpan(Descriptor.off, Descriptor.len, Descriptor.content)
     \/ phase = "erase" /\ FailSpan(header.off, header.len, Blank)
     \/ phase = "clear" /\ FailSpan(HeaderOffset(OtherSlot(slot)), 1, ClearedHeader)
  /\ Forget

Close ==
  /\ phase \in {"open", "refused"}
  /\ UNCHANGED <<devVars, errors>>
  /\ Forget

Crash ==
  /\ phase # "closed"
  /\ LosePower
  /\ Forget
  /\ UNCHANGED errors

Init ==
  /\ origin \in Images
  /\ file = origin.file
  /\ may = [a \in Granules |-> {file[a]}]
  /\ len = origin.len
  /\ lenMay = {len}
  /\ phase = "closed"
  /\ capable = FALSE
  /\ header = NoHeader /\ slot = 1 /\ devSize = 0 /\ todo = << >> /\ replayed = FALSE
  /\ regions = NoTable
  /\ outcome = "none"
  /\ reader = NoReader
  /\ halfErased = FALSE
  /\ errors = 0

Next ==
  \/ OpenStart \/ MakeRoom \/ ApplyDescriptor \/ ApplyFlush \/ ReadRegions
  \/ EraseLog \/ EraseFlush \/ ClearHeader \/ ClearFlush \/ ReadTables
  \/ DeviceError \/ Close \/ Crash

Spec == Init /\ [][Next]_vars

-----------------------------------------------------------------------------
(***************************************************************************)
(* Properties.                                                             *)
(***************************************************************************)
Phases == {"closed", "grow", "apply", "regions", "erase", "eraseFlush", "clear", "clearFlush",
           "tables", "open", "refused"}
Outcomes == {"none", "NotVhdx", "NoValidHeader", "NoValidRegionTable", "Unsupported", "Corrupt",
             "BadMetadata", "LogUnassembled", "LogNeedsReplay", "LogReplay"}

(* Every variable has the type of the local it stands for; an error is     *)
(* given exactly when the open was refused.                                *)
OpenTypeOK ==
  /\ DOMAIN file = Granules /\ \A a \in Granules : file[a] \in may[a]
  /\ len \in MIB .. MaxLen /\ len \in lenMay
  /\ phase \in Phases /\ outcome \in Outcomes
  /\ phase = "refused" <=> outcome # "none"
  /\ phase = "open" <=> reader # NoReader
  /\ slot \in {1, 2} /\ devSize \in 0 .. MaxLen /\ halfErased \in BOOLEAN

(* What the image is once its log has been applied in one go: a granule    *)
(* holds what the last descriptor that covers it wrote.  And what          *)
(* open_inner makes of that.                                               *)
OriginChain ==
  CollectReplayChain(origin.file, PickHeader(origin.file, origin.len)).chain
Covers(d, a) == a \in d.off .. d.off + d.len - 1
Hits(chain, a) == {p \in Descriptors(chain) : Covers(At(chain, p), a)}
Later(p, q) == p[1] > q[1] \/ (p[1] = q[1] /\ p[2] > q[2])
LastHit(chain, a) == CHOOSE p \in Hits(chain, a) : \A q \in Hits(chain, a) : ~Later(q, p)
Replay(f, chain) ==
  [a \in DOMAIN f |-> IF Hits(chain, a) = {} THEN f[a] ELSE At(chain, LastHit(chain, a)).content]
ReplayedFile == Replay(origin.file, OriginChain)
ReplayedLen == ReplayedExtent(origin.len, OriginChain)
RefusedBefore ==
  \/ CheckBeforeReplay(origin.file, origin.len) # "ok"
  \/ OriginChain # << >> /\ ~ChainFits(origin.len, OriginChain)
Recoverable ==
  /\ ~RefusedBefore
  /\ CheckRegions(ReplayedFile, ReplayedLen, PickHeader(origin.file, origin.len)) = "ok"
  /\ CheckTables(ReplayedFile, ReplayedLen, PickRegionTable(ReplayedFile, ReplayedLen)) = "ok"

(* A reader is made of the replayed tables: never of those that were there *)
(* before the log was applied, nor of a mixture, whoever opened the image  *)
(* and wherever the replay was cut off (steps 3 to 6 of open_inner), as    *)
(* long as no erase was cut off that left some entries of the log: those   *)
(* are replayed once more by themselves (step 4c; see LogReplay).          *)
ReaderIsReplayed ==
  phase = "open" /\ ~halfErased =>
    /\ Recoverable
    /\ reader = Load(ReplayedFile, ReplayedLen, PickRegionTable(ReplayedFile, ReplayedLen))

(* An image that is sound once its log is applied is not turned away after *)
(* a power loss or a failed write in the middle of its replay: "a crash    *)
(* mid-replay leaves a partially-applied but recoverable state"            *)
(* (apply_chain).  The exception is an erase that was cut off and left     *)
(* some entries of the log, a head without the entry its tail names among  *)
(* them.  An opener that cannot write is told so only when there was       *)
(* something to apply.                                                     *)
RecoverableIsOpened ==
  phase = "refused" /\ ~halfErased =>
    \/ ~Recoverable
    \/ outcome = "LogNeedsReplay" /\ ~capable /\ OriginChain # << >>

(* An image that is refused for what can be seen before the replay is as   *)
(* it was found, after any number of opens: a log that cannot be assembled *)
(* ("Nothing has been written"), a log region that lies on a declared      *)
(* region, a chain of which any descriptor leaves the file.                *)
RefusedIsUntouched ==
  RefusedBefore =>
    /\ file = origin.file /\ len = origin.len
    /\ \A a \in Granules : may[a] = {file[a]}

(* No open changes a granule unless a descriptor of the log says so, those *)
(* of what a cut-off erase may leave of it included, but for the header    *)
(* slots and the log region; and not there either where the replayed file  *)
(* has put a region ("the reader destroys the image while reporting that   *)
(* it repaired it", step 4b and 4c).                                       *)
Declared(a) ==
  LET t == PickRegionTable(ReplayedFile, ReplayedLen)
  IN  \E i \in DOMAIN t.entries : a \in t.entries[i].off .. t.entries[i].off + t.entries[i].len - 1
InLog(a) ==
  LET h == PickHeader(origin.file, origin.len) IN a \in h.off .. h.off + h.len - 1
OriginChains ==
  LET off == PickHeader(origin.file, origin.len).off
  IN  {OriginChain} \cup
        (IF OriginChain = << >> THEN {} ELSE {l.chain : l \in origin.file[off].remains})
WrittenAt(a) == UNION {{At(c, p).content : p \in Hits(c, a)} : c \in OriginChains}
OnlyTheLogWrites ==
  \A a \in Granules \ {HeaderOffset(1), HeaderOffset(2)} :
    (InLog(a) /\ ~Declared(a)) \/
      may[a] \subseteq {origin.file[a]} \cup WrittenAt(a)
                        \cup (IF WrittenAt(a) = {} THEN {} ELSE {Torn})

(* Once a reader is handed out its replay is over: all of it is on stable  *)
(* storage, the header the reader goes on from is the one every later open *)
(* picks, and that one has nothing left to replay.                         *)
ReplayIsConsumed ==
  (phase = "open" /\ replayed) =>
    /\ \A a \in Granules : may[a] = {file[a]}
    /\ lenMay = {len} /\ devSize = len
    /\ slot = PickSlot(file, len) /\ header = PickHeader(file, len)
    /\ CollectReplayChain(file, header) = NoChain
=============================================================================

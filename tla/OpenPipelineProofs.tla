-------------------------- MODULE OpenPipelineProofs -------------------------
(***************************************************************************)
(* open_inner for every image: one that is refused for what can be seen    *)
(* before the replay is left alone, and one that is opened is the image    *)
(* with its log applied, wherever power was lost and whatever failed on    *)
(* the way, as often as it was tried, as long as no erase was cut off that *)
(* left part of the log.  What holds also after that comes second.         *)
(***************************************************************************)
EXTENDS OpenPipeline, DivisionProofs, WellFoundedInduction, FiniteSetTheorems

HeaderSlots == {HeaderOffset(1), HeaderOffset(2)}

(***************************************************************************)
(* What the theorems about the replay ask of an image.                     *)
(***************************************************************************)
HeaderOf(i) == PickHeader(i.file, i.len)
ChainOf(i) == CollectReplayChain(i.file, HeaderOf(i)).chain

(* The chain, and those a cut-off erase may leave of the log. *)
ChainsOf(i) == {ChainOf(i)} \cup {l.chain : l \in i.file[HeaderOf(i).off].remains}

(* No descriptor covers a header slot or a log, and none writes a log. *)
LogApart(i) ==
  \A chain \in ChainsOf(i), a \in Granules :
    /\ \/ a \in HeaderSlots
       \/ a \in HeaderOf(i).off .. HeaderOf(i).off + HeaderOf(i).len - 1
       \/ i.file[a].kind = "log"
       => Hits(chain, a) = {}
    /\ \A p \in Hits(chain, a) : At(chain, p).content.kind # "log"

(* The header's number can be bumped. *)
NumberLeft(i) == HeaderOf(i).seq + 1 < SeqLimit

(* A replay that starts from the longer file does not grow it again. *)
GrowsOnce(i) ==
  LET once == AllowedExtent(i.len, ChainOf(i)) IN AllowedExtent(once, ChainOf(i)) = once

ImagesReplayable ==
  \A i \in Images : ChainOf(i) # << >> => LogApart(i) /\ NumberLeft(i) /\ GrowsOnce(i)

(* No region of the replayed table lies on a header slot. *)
RegionsApart(i) ==
  LET n == ReplayedExtent(i.len, ChainOf(i))
      t == PickRegionTable(Replay(i.file, ChainOf(i)), n)
  IN  \A k \in DOMAIN t.entries, a \in HeaderSlots :
        a \notin t.entries[k].off .. t.entries[k].off + t.entries[k].len - 1
ImagesRegular == \A i \in Images : ChainOf(i) # << >> => RegionsApart(i)

(* A copy of the region table stands for as long as it is needed: no       *)
(* descriptor covers it, or all that do come in later entries than those   *)
(* that rewrite the other copy, each time with what is to stay.            *)
TableLasts(i, s) ==
  LET chain == ChainOf(i)
      kept == RegionTableOffset(s)
      other == RegionTableOffset(OtherSlot(s)) IN
  /\ TableParses(i.file, i.len, s)
  /\ \/ Hits(chain, kept) = {}
     \/ /\ Hits(chain, other) # {}
        /\ TableParses(Replay(i.file, chain), i.len, OtherSlot(s))
        /\ \A p \in Hits(chain, other) :
             /\ At(chain, p).content = Replay(i.file, chain)[other]
             /\ \A q \in Hits(chain, kept) : p[1] < q[1]

(* What an interrupted replay leaves passes the checks before the next: no *)
(* descriptor covers the file identifier, one copy of the region table     *)
(* lasts, and any that may be there is clear of the log.                   *)
TablesApart(i) ==
  /\ Hits(ChainOf(i), FILE_IDENTIFIER_OFFSET) = {}
  /\ \E s \in {1, 2} : TableLasts(i, s)
  /\ \A s \in {1, 2} :
       /\ i.file[RegionTableOffset(s)].kind = "table" =>
            LogRegionClear(i.file[RegionTableOffset(s)], HeaderOf(i))
       /\ \A p \in Hits(ChainOf(i), RegionTableOffset(s)) :
            At(ChainOf(i), p).content.kind = "table" =>
              LogRegionClear(At(ChainOf(i), p).content, HeaderOf(i))

(* It is asked of the images that a replay is begun on, and that are not   *)
(* refused for the table it leaves.                                        *)
ImagesRetryable ==
  \A i \in Images :
    /\ CheckBeforeReplay(i.file, i.len) = "ok" /\ ChainOf(i) # << >>
    /\ CheckRegions(Replay(i.file, ChainOf(i)), ReplayedExtent(i.len, ChainOf(i)), HeaderOf(i))
         = "ok"
    => TablesApart(i)

-----------------------------------------------------------------------------
(***************************************************************************)
(* The inductive invariant.                                                *)
(***************************************************************************)
FirstHeader == HeaderOf(origin)
FirstSlot == PickSlot(origin.file, origin.len)
SpareSlot == OtherSlot(FirstSlot)
Consumed == [FirstHeader EXCEPT !.seq = (@ + 1) % SeqLimit, !.guid = NoGuid]
LogSpan == FirstHeader.off .. FirstHeader.off + FirstHeader.len - 1
Aside == Granules \ (HeaderSlots \cup LogSpan)
LogGranule == origin.file[FirstHeader.off]
ReplayedTable == PickRegionTable(ReplayedFile, ReplayedLen)

(* A chain is a sequence of entries with sequences of descriptors. *)
ChainShape(chain) ==
  /\ chain \in Seq(Range(chain))
  /\ \A i \in DOMAIN chain :
       chain[i] \in [last : 0 .. MaxLen, descriptors : Seq(Range(chain[i].descriptors))]

(* There is no log to replay, or the image is refused before it is. *)
Idle == RefusedBefore \/ OriginChain = << >>

(* Then nothing is ever written. *)
IdleHolds ==
  /\ file = origin.file /\ len = origin.len /\ lenMay = {len} /\ ~halfErased
  /\ \A a \in Granules : may[a] = {file[a]}
  /\ phase \in {"closed", "grow", "regions", "tables", "open", "refused"}
  /\ phase = "grow" => todo = OriginChain /\ devSize = len /\ ~ChainFits(devSize, todo)
  /\ phase \in {"regions", "tables", "open"} =>
       /\ ~RefusedBefore /\ ~replayed /\ devSize = len /\ header = FirstHeader
       /\ phase # "regions" => regions = PickRegionTable(file, len)
                               /\ CheckRegions(file, len, header) = "ok"

(* What reads is one of the crash outcomes. *)
DeviceHolds ==
  /\ DOMAIN file = Granules /\ \A a \in Granules : file[a] \in may[a]
  /\ len \in lenMay /\ lenMay \subseteq {origin.len, ReplayedLen}

(* All of the log has been applied, and lasts. *)
Done == (\A a \in Aside : may[a] = {ReplayedFile[a]}) /\ lenMay = {ReplayedLen}

(* One header is the first, the other is made only once the log is gone.   *)
HeadersHold ==
  /\ may[FirstSlot] = {FirstHeader}
  /\ may[SpareSlot] \subseteq {origin.file[SpareSlot], Torn, Consumed}
  /\ may[SpareSlot] # {origin.file[SpareSlot]} => may[FirstHeader.off] = {Blank}

(* The log is erased only once it is done with, and where it may be.  It   *)
(* may be left in part when it is, but has not been yet.                   *)
Remains == {LogGranule, Blank} \cup Remnants(LogGranule)
LogHolds ==
  /\ may[FirstHeader.off] \subseteq Remains
  /\ file[FirstHeader.off] \in {LogGranule, Blank}
  /\ Blank \in may[FirstHeader.off] => file[FirstHeader.off] = Blank /\ Done
  /\ (\E a \in LogSpan : may[a] # {origin.file[a]}) =>
       CheckRegions(ReplayedFile, ReplayedLen, FirstHeader) = "ok"

(* The rest of the file. *)
AppliedAt(a) == {At(OriginChain, p).content : p \in Hits(OriginChain, a)}
AsideHolds ==
  \A a \in Aside :
    may[a] \subseteq {origin.file[a]} \cup AppliedAt(a)
                      \cup (IF AppliedAt(a) = {} THEN {} ELSE {Torn})

FileHolds == DeviceHolds /\ HeadersHold /\ LogHolds /\ AsideHolds

(* While a replay is under way. *)
Replaying == phase \in {"grow", "apply", "regions", "erase"} /\ replayed
ReplayHolds ==
  /\ phase \in {"grow", "apply"} => replayed
  /\ Replaying => /\ header = FirstHeader /\ slot = FirstSlot /\ devSize = len
                  /\ file[FirstHeader.off] = LogGranule
  /\ phase = "grow" => todo = OriginChain
  /\ phase = "apply" =>
       /\ todo # << >> /\ ChainShape(todo) /\ len = ReplayedLen
       /\ \A p \in Descriptors(todo) :
            \E q \in Descriptors(OriginChain) : At(todo, p) = At(OriginChain, q)
       /\ \A a \in Aside : Replay(file, todo)[a] = ReplayedFile[a]

(* Once all of the log has been applied. *)
EndHolds ==
  /\ phase \in {"regions", "erase", "eraseFlush", "clear", "clearFlush", "tables", "open"} =>
       Done /\ devSize = len
  /\ phase = "regions" => header \in {FirstHeader, Consumed}
  /\ phase \in {"erase", "eraseFlush", "clear", "clearFlush", "tables", "open"} =>
       /\ regions = ReplayedTable
       /\ CheckRegions(ReplayedFile, ReplayedLen, FirstHeader) = "ok"
  /\ phase \in {"erase", "eraseFlush", "clear", "clearFlush"} =>
       replayed /\ header = FirstHeader /\ slot = FirstSlot
  /\ phase \in {"eraseFlush", "clear", "clearFlush"} => file[FirstHeader.off] = Blank
  /\ phase \in {"clear", "clearFlush"} => may[FirstHeader.off] = {Blank}
  /\ phase = "clearFlush" => file[SpareSlot] = Consumed
  /\ phase \in {"tables", "open"} /\ replayed =>
       /\ header = Consumed /\ slot = SpareSlot /\ file[SpareSlot] = Consumed
       /\ \A a \in Granules : may[a] = {file[a]}

(* Until an erase is cut off that leaves a part of the log. *)
PipelineInv ==
  /\ origin \in Images
  /\ Idle => IdleHolds
  /\ ~Idle /\ ~halfErased => FileHolds /\ ReplayHolds /\ EndHolds

-----------------------------------------------------------------------------
(***************************************************************************)
(* Least and greatest numbers, and what is picked with them.               *)
(***************************************************************************)

(* A set of natural numbers has a least element. *)
LEMMA LeastNat ==
  ASSUME NEW S, S \subseteq Nat, S # {}
  PROVE  Min(S) \in S /\ \A y \in S : Min(S) <= y
<1> DEFINE R == {ss \in Nat \X Nat : ss[1] < ss[2]}
<1>0. IsWellFoundedOn(R, Nat)
  BY NatLessThanWellFounded, Zenon DEF OpToRel
<1> HIDE DEF R
<1>1. PICK x \in S : \A y \in S : ~(<<y, x>> \in R)
  BY <1>0, WFMin, Zenon
<1>2. ASSUME NEW y \in S PROVE x <= y
  <2>1. x \in Nat /\ y \in Nat
    OBVIOUS
  <2>2. ~(<<y, x>> \in R)
    BY <1>1
  <2> QED
    BY <2>1, <2>2 DEF R
<1> QED
  BY <1>2 DEF Min

(* A bounded one has a greatest. *)
LEMMA GreatestNat ==
  ASSUME NEW S, NEW bound \in Nat, S \subseteq 0 .. bound, S # {}
  PROVE  \E x \in S : \A y \in S : x >= y
<1> DEFINE T == {bound - x : x \in S}
<1>1. T \subseteq Nat
  OBVIOUS
<1>0. T # {}
  OBVIOUS
<1>2. Min(T) \in T /\ \A y \in T : Min(T) <= y
  BY <1>0, <1>1, LeastNat, Zenon
<1>3. PICK x \in S : Min(T) = bound - x
  BY <1>2
<1>4. \A y \in S : bound - x <= bound - y
  BY <1>2, <1>3
<1> QED
  BY <1>4

(* Max is that element. *)
LEMMA MaxNat ==
  ASSUME NEW S, NEW bound \in Nat, S \subseteq 0 .. bound, S # {}
  PROVE  Max(S) \in S /\ \A y \in S : Max(S) >= y
BY GreatestNat DEF Max

(* FirstError is "ok" exactly when no check fails. *)
LEMMA FirstErrorIs ==
  ASSUME NEW checks, Len(checks) \in Nat,
         \A i \in 1 .. Len(checks) : checks[i][1] => checks[i][2] # "ok"
  PROVE  /\ FirstError(checks) = "ok" <=> \A i \in 1 .. Len(checks) : ~checks[i][1]
         /\ FirstError(checks) = "ok" \/ \E i \in 1 .. Len(checks) :
              checks[i][1] /\ FirstError(checks) = checks[i][2]
<1> DEFINE I == {i \in 1 .. Len(checks) : checks[i][1]}
<1>1. CASE I = {}
  BY <1>1 DEF FirstError, SelectInSeq
<1>2. CASE I # {}
  <2>0. I \subseteq Nat
    OBVIOUS
  <2>1. Min(I) \in I
    BY <1>2, <2>0, LeastNat, Zenon
  <2>2. FirstError(checks) = checks[Min(I)][2]
    BY <1>2, <2>1 DEF FirstError, SelectInSeq
  <2> QED
    BY <2>1, <2>2
<1> QED
  BY <1>1, <1>2

(* The checks before the replay. *)
LEMMA BeforeIs ==
  ASSUME NEW f, NEW n
  PROVE  LET h == PickHeader(f, n)
             log == CollectReplayChain(f, h) IN
         /\ CheckBeforeReplay(f, n) = "ok" <=>
              /\ f[FILE_IDENTIFIER_OFFSET].kind = "identifier"
              /\ HasHeader(f, n) /\ h.version = 0 /\ ValidLogRegion(n, h)
              /\ HasTable(f, n) /\ LogRegionClear(PickRegionTable(f, n), h)
              /\ log.error = "ok"
         /\ CheckBeforeReplay(f, n) \in
              {"ok", "NotVhdx", "NoValidHeader", "Unsupported", "Corrupt", "NoValidRegionTable",
               log.error}
<1> DEFINE h == PickHeader(f, n)
           log == CollectReplayChain(f, h)
           t == PickRegionTable(f, n)
           checks == <<
             <<f[FILE_IDENTIFIER_OFFSET].kind # "identifier", "NotVhdx">>,
             <<~HasHeader(f, n), "NoValidHeader">>,
             <<h.version # 0, "Unsupported">>,
             <<~ValidLogRegion(n, h), "Corrupt">>,
             <<~HasTable(f, n), "NoValidRegionTable">>,
             <<~LogRegionClear(t, h), "Corrupt">>,
             <<log.error # "ok", log.error>> >>
<1>1. CheckBeforeReplay(f, n) = FirstError(checks)
  BY DEF CheckBeforeReplay
<1> HIDE DEF h, log, t
<1>2. Len(checks) = 7
  OBVIOUS
<1>3. /\ checks[1][1] <=> f[FILE_IDENTIFIER_OFFSET].kind # "identifier"
      /\ checks[2][1] <=> ~HasHeader(f, n)
      /\ checks[3][1] <=> h.version # 0
      /\ checks[4][1] <=> ~ValidLogRegion(n, h)
      /\ checks[5][1] <=> ~HasTable(f, n)
      /\ checks[6][1] <=> ~LogRegionClear(t, h)
      /\ checks[7][1] <=> log.error # "ok"
  OBVIOUS
<1>a. /\ checks[1][2] = "NotVhdx" /\ checks[2][2] = "NoValidHeader"
      /\ checks[3][2] = "Unsupported" /\ checks[4][2] = "Corrupt"
      /\ checks[5][2] = "NoValidRegionTable" /\ checks[6][2] = "Corrupt"
      /\ checks[7][2] = log.error
  OBVIOUS
<1> HIDE DEF checks
<1>4. Len(checks) \in Nat /\ \A i \in 1 .. Len(checks) : i \in {1, 2, 3, 4, 5, 6, 7}
  BY <1>2
<1>5. \A i \in 1 .. Len(checks) : checks[i][1] => checks[i][2] # "ok"
  BY <1>3, <1>a, <1>4
<1>6. /\ FirstError(checks) = "ok" <=> \A i \in 1 .. Len(checks) : ~checks[i][1]
      /\ FirstError(checks) = "ok" \/ \E i \in 1 .. Len(checks) :
           checks[i][1] /\ FirstError(checks) = checks[i][2]
  BY <1>4, <1>5, FirstErrorIs, Zenon
<1>7. (\A i \in 1 .. Len(checks) : ~checks[i][1]) <=>
        ~checks[1][1] /\ ~checks[2][1] /\ ~checks[3][1] /\ ~checks[4][1] /\ ~checks[5][1]
        /\ ~checks[6][1] /\ ~checks[7][1]
  BY <1>2, <1>4
<1>8. FirstError(checks) = "ok" <=>
        /\ f[FILE_IDENTIFIER_OFFSET].kind = "identifier"
        /\ HasHeader(f, n) /\ h.version = 0 /\ ValidLogRegion(n, h)
        /\ HasTable(f, n) /\ LogRegionClear(t, h) /\ log.error = "ok"
  BY <1>3, <1>6, <1>7
<1>9. FirstError(checks) \in {"ok", "NotVhdx", "NoValidHeader", "Unsupported", "Corrupt",
                              "NoValidRegionTable", log.error}
  BY <1>a, <1>4, <1>6
<1> QED
  BY <1>1, <1>8, <1>9 DEF h, log, t

(* The checks on the region table. *)
LEMMA RegionsIs ==
  ASSUME NEW f, NEW n, NEW h
  PROVE  LET t == PickRegionTable(f, n) IN
         /\ CheckRegions(f, n, h) = "ok" <=>
              /\ HasTable(f, n)
              /\ ~(UnknownRequiredRegion(t))
              /\ LogRegionClear(t, h)
         /\ CheckRegions(f, n, h) \in {"ok", "NoValidRegionTable", "Unsupported", "Corrupt"}
<1> DEFINE t == PickRegionTable(f, n)
           checks == <<
             <<~HasTable(f, n), "NoValidRegionTable">>,
             <<UnknownRequiredRegion(t), "Unsupported">>,
             <<~LogRegionClear(t, h), "Corrupt">> >>
<1>1. CheckRegions(f, n, h) = FirstError(checks)
  BY DEF CheckRegions
<1> HIDE DEF t
<1>2. Len(checks) = 3
  OBVIOUS
<1>3. /\ checks[1][1] <=> ~HasTable(f, n)
      /\ checks[2][1] <=> UnknownRequiredRegion(t)
      /\ checks[3][1] <=> ~LogRegionClear(t, h)
  OBVIOUS
<1>4. /\ checks[1][2] = "NoValidRegionTable"
      /\ checks[2][2] = "Unsupported"
      /\ checks[3][2] = "Corrupt"
  OBVIOUS
<1> HIDE DEF checks
<1>5. Len(checks) \in Nat /\ \A i \in 1 .. Len(checks) : i \in {1, 2, 3}
  BY <1>2
<1>6. \A i \in 1 .. Len(checks) : checks[i][1] => checks[i][2] # "ok"
  BY <1>4, <1>5
<1>7. /\ FirstError(checks) = "ok" <=> \A i \in 1 .. Len(checks) : ~checks[i][1]
      /\ FirstError(checks) = "ok" \/ \E i \in 1 .. Len(checks) :
           checks[i][1] /\ FirstError(checks) = checks[i][2]
  BY <1>5, <1>6, FirstErrorIs, Zenon
<1>8. (\A i \in 1 .. Len(checks) : ~checks[i][1]) <=>
        /\ ~checks[1][1]
        /\ ~checks[2][1]
        /\ ~checks[3][1]
  BY <1>2, <1>5
<1>9. FirstError(checks) = "ok" <=>
        /\ HasTable(f, n)
        /\ ~(UnknownRequiredRegion(t))
        /\ LogRegionClear(t, h)
  BY <1>3, <1>7, <1>8
<1>10. FirstError(checks) \in {"ok", "NoValidRegionTable", "Unsupported", "Corrupt"}
  BY <1>4, <1>5, <1>7
<1> QED
  BY <1>1, <1>9, <1>10 DEF t

(* The checks on the metadata region. *)
LEMMA MetadataIs ==
  ASSUME NEW f, NEW n, NEW t
  PROVE  LET r == Find(t, "metadata")
             m == MetadataAt(f, n, t) IN
         /\ CheckMetadata(f, n, t) = "ok" <=>
              /\ ~(Missing(t, "metadata"))
              /\ SpanInsideTheFile(n, r.off, r.len)
              /\ ~(r.len = 0 \/ m = NoMetadata)
              /\ ~(Len(m.items) > MAX_METADATA_ENTRIES)
              /\ ~(1 + Len(m.items) > r.len * EntriesPerGranule)
              /\ ItemData(m, "FileParameters").whole
              /\ ItemData(m, "VirtualDiskSize").whole
              /\ ItemData(m, "LogicalSectorSize").whole
         /\ CheckMetadata(f, n, t) \in {"ok", "Corrupt", "BadMetadata"}
<1> DEFINE r == Find(t, "metadata")
           m == MetadataAt(f, n, t)
           checks == <<
             <<Missing(t, "metadata"), "Corrupt">>,
             <<~SpanInsideTheFile(n, r.off, r.len), "Corrupt">>,
             <<r.len = 0 \/ m = NoMetadata, "BadMetadata">>,
             <<Len(m.items) > MAX_METADATA_ENTRIES, "BadMetadata">>,
             <<1 + Len(m.items) > r.len * EntriesPerGranule, "BadMetadata">>,
             <<~ItemData(m, "FileParameters").whole, "BadMetadata">>,
             <<~ItemData(m, "VirtualDiskSize").whole, "BadMetadata">>,
             <<~ItemData(m, "LogicalSectorSize").whole, "BadMetadata">> >>
<1>1. CheckMetadata(f, n, t) = FirstError(checks)
  BY DEF CheckMetadata
<1> HIDE DEF r, m
<1>2. Len(checks) = 8
  OBVIOUS
<1>3. /\ checks[1][1] <=> Missing(t, "metadata")
      /\ checks[2][1] <=> ~SpanInsideTheFile(n, r.off, r.len)
      /\ checks[3][1] <=> (r.len = 0 \/ m = NoMetadata)
      /\ checks[4][1] <=> Len(m.items) > MAX_METADATA_ENTRIES
      /\ checks[5][1] <=> 1 + Len(m.items) > r.len * EntriesPerGranule
      /\ checks[6][1] <=> ~ItemData(m, "FileParameters").whole
      /\ checks[7][1] <=> ~ItemData(m, "VirtualDiskSize").whole
      /\ checks[8][1] <=> ~ItemData(m, "LogicalSectorSize").whole
  OBVIOUS
<1>4. /\ checks[1][2] = "Corrupt"
      /\ checks[2][2] = "Corrupt"
      /\ checks[3][2] = "BadMetadata"
      /\ checks[4][2] = "BadMetadata"
      /\ checks[5][2] = "BadMetadata"
      /\ checks[6][2] = "BadMetadata"
      /\ checks[7][2] = "BadMetadata"
      /\ checks[8][2] = "BadMetadata"
  OBVIOUS
<1> HIDE DEF checks
<1>5. Len(checks) \in Nat /\ \A i \in 1 .. Len(checks) : i \in {1, 2, 3, 4, 5, 6, 7, 8}
  BY <1>2
<1>6. \A i \in 1 .. Len(checks) : checks[i][1] => checks[i][2] # "ok"
  BY <1>4, <1>5
<1>7. /\ FirstError(checks) = "ok" <=> \A i \in 1 .. Len(checks) : ~checks[i][1]
      /\ FirstError(checks) = "ok" \/ \E i \in 1 .. Len(checks) :
           checks[i][1] /\ FirstError(checks) = checks[i][2]
  BY <1>5, <1>6, FirstErrorIs, Zenon
<1>8. (\A i \in 1 .. Len(checks) : ~checks[i][1]) <=>
        /\ ~checks[1][1]
        /\ ~checks[2][1]
        /\ ~checks[3][1]
        /\ ~checks[4][1]
        /\ ~checks[5][1]
        /\ ~checks[6][1]
        /\ ~checks[7][1]
        /\ ~checks[8][1]
  BY <1>2, <1>5
<1>9. FirstError(checks) = "ok" <=>
        /\ ~(Missing(t, "metadata"))
        /\ SpanInsideTheFile(n, r.off, r.len)
        /\ ~(r.len = 0 \/ m = NoMetadata)
        /\ ~(Len(m.items) > MAX_METADATA_ENTRIES)
        /\ ~(1 + Len(m.items) > r.len * EntriesPerGranule)
        /\ ItemData(m, "FileParameters").whole
        /\ ItemData(m, "VirtualDiskSize").whole
        /\ ItemData(m, "LogicalSectorSize").whole
  BY <1>3, <1>7, <1>8
<1>10. FirstError(checks) \in {"ok", "Corrupt", "BadMetadata"}
  BY <1>4, <1>5, <1>7
<1> QED
  BY <1>1, <1>9, <1>10 DEF r, m

(* The checks on the metadata items and the BAT region. *)
LEMMA ParametersIs ==
  ASSUME NEW n, NEW t, NEW m
  PROVE  LET r == Find(t, "bat") IN
         /\ CheckParameters(n, t, m) = "ok" <=>
              /\ IsPowerOfTwo(Params(m).block)
              /\ ~(Params(m).block < MIN_BLOCK_SIZE \/ Params(m).block > MAX_BLOCK_SIZE)
              /\ ~(SectorSize(m) \notin SectorSizes)
              /\ ~(Params(m).parent)
              /\ ~(UnknownRequiredItem(m))
              /\ ~(ChunkRatio(Params(m).block, SectorSize(m)) = 0)
              /\ ~(Missing(t, "bat"))
              /\ SpanInsideTheFile(n, r.off, r.len)
         /\ CheckParameters(n, t, m) \in {"ok", "Corrupt", "Unsupported"}
<1> DEFINE r == Find(t, "bat")
           checks == <<
             <<~IsPowerOfTwo(Params(m).block), "Corrupt">>,
             <<Params(m).block < MIN_BLOCK_SIZE \/ Params(m).block > MAX_BLOCK_SIZE, "Corrupt">>,
             <<SectorSize(m) \notin SectorSizes, "Corrupt">>,
             <<Params(m).parent, "Unsupported">>,
             <<UnknownRequiredItem(m), "Unsupported">>,
             <<ChunkRatio(Params(m).block, SectorSize(m)) = 0, "Corrupt">>,
             <<Missing(t, "bat"), "Corrupt">>,
             <<~SpanInsideTheFile(n, r.off, r.len), "Corrupt">> >>
<1>1. CheckParameters(n, t, m) = FirstError(checks)
  BY DEF CheckParameters
<1> HIDE DEF r
<1>2. Len(checks) = 8
  OBVIOUS
<1>3. /\ checks[1][1] <=> ~IsPowerOfTwo(Params(m).block)
      /\ checks[2][1] <=> (Params(m).block < MIN_BLOCK_SIZE \/ Params(m).block > MAX_BLOCK_SIZE)
      /\ checks[3][1] <=> SectorSize(m) \notin SectorSizes
      /\ checks[4][1] <=> Params(m).parent
      /\ checks[5][1] <=> UnknownRequiredItem(m)
      /\ checks[6][1] <=> ChunkRatio(Params(m).block, SectorSize(m)) = 0
      /\ checks[7][1] <=> Missing(t, "bat")
      /\ checks[8][1] <=> ~SpanInsideTheFile(n, r.off, r.len)
  OBVIOUS
<1>4. /\ checks[1][2] = "Corrupt"
      /\ checks[2][2] = "Corrupt"
      /\ checks[3][2] = "Corrupt"
      /\ checks[4][2] = "Unsupported"
      /\ checks[5][2] = "Unsupported"
      /\ checks[6][2] = "Corrupt"
      /\ checks[7][2] = "Corrupt"
      /\ checks[8][2] = "Corrupt"
  OBVIOUS
<1> HIDE DEF checks
<1>5. Len(checks) \in Nat /\ \A i \in 1 .. Len(checks) : i \in {1, 2, 3, 4, 5, 6, 7, 8}
  BY <1>2
<1>6. \A i \in 1 .. Len(checks) : checks[i][1] => checks[i][2] # "ok"
  BY <1>4, <1>5
<1>7. /\ FirstError(checks) = "ok" <=> \A i \in 1 .. Len(checks) : ~checks[i][1]
      /\ FirstError(checks) = "ok" \/ \E i \in 1 .. Len(checks) :
           checks[i][1] /\ FirstError(checks) = checks[i][2]
  BY <1>5, <1>6, FirstErrorIs, Zenon
<1>8. (\A i \in 1 .. Len(checks) : ~checks[i][1]) <=>
        /\ ~checks[1][1]
        /\ ~checks[2][1]
        /\ ~checks[3][1]
        /\ ~checks[4][1]
        /\ ~checks[5][1]
        /\ ~checks[6][1]
        /\ ~checks[7][1]
        /\ ~checks[8][1]
  BY <1>2, <1>5
<1>9. FirstError(checks) = "ok" <=>
        /\ IsPowerOfTwo(Params(m).block)
        /\ ~(Params(m).block < MIN_BLOCK_SIZE \/ Params(m).block > MAX_BLOCK_SIZE)
        /\ ~(SectorSize(m) \notin SectorSizes)
        /\ ~(Params(m).parent)
        /\ ~(UnknownRequiredItem(m))
        /\ ~(ChunkRatio(Params(m).block, SectorSize(m)) = 0)
        /\ ~(Missing(t, "bat"))
        /\ SpanInsideTheFile(n, r.off, r.len)
  BY <1>3, <1>7, <1>8
<1>10. FirstError(checks) \in {"ok", "Corrupt", "Unsupported"}
  BY <1>4, <1>5, <1>7
<1> QED
  BY <1>1, <1>9, <1>10 DEF r

-----------------------------------------------------------------------------
(***************************************************************************)
(* The region table and the metadata.                                      *)
(***************************************************************************)

(* Find returns an entry of the table. *)
LEMMA FindIs ==
  ASSUME NEW t, NEW guid, t.entries \in Seq(Range(t.entries)), ~Missing(t, guid)
  PROVE  \E k \in DOMAIN t.entries : Find(t, guid) = t.entries[k]
<1> DEFINE I == {i \in 1 .. Len(t.entries) : t.entries[i].guid = guid}
<1>1. Len(t.entries) \in Nat /\ DOMAIN t.entries = 1 .. Len(t.entries)
  OBVIOUS
<1>2. FindIndex(t, guid) = IF I # {} THEN Min(I) ELSE 0
  BY DEF FindIndex, SelectInSeq
<1>3. I # {}
  BY <1>2 DEF Missing
<1>4. I \subseteq Nat
  BY <1>1
<1>5. Min(I) \in I
  BY <1>3, <1>4, LeastNat, Zenon
<1>6. FindIndex(t, guid) \in DOMAIN t.entries
  BY <1>1, <1>2, <1>3, <1>5
<1> QED
  BY <1>6 DEF Find

(* The numbers of a metadata item are numbers. *)
LEMMA ItemTyped ==
  ASSUME NEW m, NEW id, m.kind = "meta", Parsed(m)
  PROVE  ItemData(m, id).value.block \in Nat /\ ItemData(m, id).value.number \in Nat
<1> DEFINE I == {i \in 1 .. Len(m.items) : m.items[i].id = id}
           k == IF I # {} THEN Min(I) ELSE 0
<1>1. /\ m.items \in Seq(Range(m.items))
      /\ \A e \in Range(m.items) : e.value.block \in Nat /\ e.value.number \in Nat
  BY DEF Parsed
<1>2. Len(m.items) \in Nat /\ DOMAIN m.items = 1 .. Len(m.items)
  BY <1>1
<1>3. ItemData(m, id) = IF k = 0 \/ ~m.items[k].inside THEN NoItem ELSE m.items[k]
  BY DEF ItemData, SelectInSeq
<1>4. I \subseteq Nat
  BY <1>2
<1>5. I # {} => Min(I) \in I
  BY <1>4, LeastNat, Zenon
<1>6. k # 0 => k \in DOMAIN m.items
  BY <1>2, <1>5
<1> HIDE DEF k
<1>7. k # 0 => m.items[k] \in Range(m.items)
  BY <1>6 DEF Range
<1>8. CASE ItemData(m, id) = NoItem
  BY <1>8 DEF NoItem
<1>9. CASE k # 0 /\ ItemData(m, id) = m.items[k]
  BY <1>1, <1>7, <1>9
<1> QED
  BY <1>3, <1>8, <1>9

(* Two files that have the same region tables pass the same checks. *)
LEMMA SameTables ==
  ASSUME NEW f, NEW g, NEW n, NEW h,
         f[RegionTableOffset(1)] = g[RegionTableOffset(1)],
         f[RegionTableOffset(2)] = g[RegionTableOffset(2)]
  PROVE  /\ HasTable(f, n) = HasTable(g, n)
         /\ PickRegionTable(f, n) = PickRegionTable(g, n)
         /\ CheckRegions(f, n, h) = CheckRegions(g, n, h)
<1>1. \A s \in {1, 2} : TableParses(f, n, s) = TableParses(g, n, s)
  BY DEF TableParses, Parses
<1>2. HasTable(f, n) = HasTable(g, n)
  BY <1>1 DEF HasTable
<1>3. PickRegionTable(f, n) = PickRegionTable(g, n)
  BY <1>1 DEF PickRegionTable
<1> QED
  BY <1>2, <1>3 DEF CheckRegions

(* The table that is picked is one of the two copies. *)
LEMMA PickedTable ==
  ASSUME NEW f, NEW n, HasTable(f, n)
  PROVE  \E s \in {1, 2} : /\ PickRegionTable(f, n) = f[RegionTableOffset(s)]
                           /\ f[RegionTableOffset(s)].kind = "table"
BY DEF HasTable, PickRegionTable, TableParses, Parses

(* A chunk ratio is a natural number. *)
LEMMA RatioIsNat ==
  ASSUME NEW b \in Nat \ {0}, NEW k \in Nat
  PROVE  ChunkRatio(b, k) \in Nat
<1> DEFINE bits == 8388608 * k
<1>1. bits \in Nat
  BY SMT
<1> HIDE DEF bits
<1>2. bits \div b \in Nat
  BY <1>1, DivMod, SMT
<1> QED
  BY <1>2, SMT DEF ChunkRatio, bits

(* The disk a reader describes: its BAT entries lie in the BAT region. *)
LEMMA EntriesInside ==
  ASSUME NEW m, NEW r, m.kind = "meta", Parsed(m), r.len \in Nat,
         Params(m).block >= MIN_BLOCK_SIZE,
         DiskOf(m, r).ratio # 0, RegionCovers(DiskOf(m, r))
  PROVE  \A i \in 0 .. RequiredEntries(DiskOf(m, r)) - 1 : i \in 0 .. r.len - 1
<1> DEFINE d == DiskOf(m, r)
<1>1. /\ d.blockSize \in Nat \ {0} /\ d.size \in Nat /\ d.regionLen = r.len
      /\ d.ratio = ChunkRatio(d.blockSize, SectorSize(m)) /\ SectorSize(m) \in Nat
  BY ItemTyped, PipelineAssumption DEF DiskOf, Params, VirtualSize, SectorSize
<1> HIDE DEF d
<1>3. d.ratio \in Nat \ {0}
  BY <1>1, RatioIsNat DEF d
<1>4. RequiredEntries(d) \in Int
  <2>1. CASE d.size = 0
    BY <2>1 DEF RequiredEntries
  <2>2. CASE d.size # 0
    <3> DEFINE b == DivCeil(d.size, d.blockSize) - 1
    <3>1. d.size + d.blockSize - 1 \in Nat
      BY <1>1
    <3>5. (d.size + d.blockSize - 1) \div d.blockSize \in Nat
      BY <1>1, <3>1, DivMod, Zenon
    <3>2. b \in Int
      BY <3>5 DEF DivCeil
    <3> HIDE DEF b
    <3>3. b \div d.ratio \in Int /\ b % d.ratio \in Int
      BY <1>3, <3>2
    <3>4. (b \div d.ratio) * (d.ratio + 1) \in Int
      BY <1>3, <3>3
    <3> QED
      BY <2>2, <3>3, <3>4 DEF RequiredEntries, DataBatIndex, b
  <2> QED
    BY <2>1, <2>2
<1>5. RequiredEntries(d) <= r.len
  <2>1. CASE d.size = 0
    BY <2>1 DEF RequiredEntries
  <2>2. CASE d.size # 0
    <3> DEFINE E == BAT_ENTRY_SIZE
               q == r.len \div BAT_ENTRY_SIZE
    <3>1. RequiredEntries(d) <= q
      BY <1>1, <2>2 DEF RegionCovers, d
    <3>2. q \in Nat /\ r.len % E \in 0 .. E - 1 /\ r.len = E * q + (r.len % E) /\ E \in Nat \ {0}
      BY EntryAssumption, DivMod
    <3> HIDE DEF q, E
    <3>3. E * q >= q
      BY <3>2
    <3>4. E * q \in Nat
      BY <3>2
    <3>5. q <= r.len
      BY <3>2, <3>3, <3>4
    <3> QED
      BY <1>4, <3>1, <3>2, <3>5
  <2> QED
    BY <2>1, <2>2
<1> QED
  BY <1>4, <1>5 DEF d

(* What steps 5 and 6 may answer. *)
LEMMA TablesOutcome ==
  ASSUME NEW f, NEW n, NEW t
  PROVE  /\ CheckTables(f, n, t) \in {"ok", "Corrupt", "BadMetadata", "Unsupported"}
         /\ CheckTables(f, n, t) = "ok" =>
              LET m == MetadataAt(f, n, t)
                  r == Find(t, "bat") IN
              /\ ~Missing(t, "metadata") /\ ~Missing(t, "bat")
              /\ ~(Params(m).block < MIN_BLOCK_SIZE)
              /\ SpanInsideTheFile(n, r.off, r.len)
              /\ DiskOf(m, r).ratio # 0 /\ RegionCovers(DiskOf(m, r))
<1> DEFINE m == MetadataAt(f, n, t)
           r == Find(t, "bat")
<1>1. /\ CheckMetadata(f, n, t) = "ok" => ~Missing(t, "metadata")
      /\ CheckMetadata(f, n, t) \in {"ok", "Corrupt", "BadMetadata"}
  BY MetadataIs
<1>2. /\ CheckParameters(n, t, m) = "ok" =>
           /\ ~Missing(t, "bat") /\ SpanInsideTheFile(n, r.off, r.len)
           /\ ~(Params(m).block < MIN_BLOCK_SIZE)
           /\ ChunkRatio(Params(m).block, SectorSize(m)) # 0
      /\ CheckParameters(n, t, m) \in {"ok", "Corrupt", "Unsupported"}
  BY ParametersIs
<1>3. DiskOf(m, r).ratio = ChunkRatio(Params(m).block, SectorSize(m))
  BY DEF DiskOf
<1> QED
  BY <1>1, <1>2, <1>3 DEF CheckTables

(* Two files that agree on the regions a table declares make the same      *)
(* reader, or none.                                                        *)
LEMMA SameReader ==
  ASSUME NEW f, NEW g, NEW n \in Nat, NEW t,
         t.entries \in Seq(Range(t.entries)),
         \A e \in Range(t.entries) : e.off \in Nat /\ e.len \in Nat,
         \A a \in 0 .. n - 1 : Parsed(g[a]),
         \A k \in DOMAIN t.entries :
           \A a \in t.entries[k].off .. t.entries[k].off + t.entries[k].len - 1 :
             a < n => f[a] = g[a]
  PROVE  /\ CheckTables(f, n, t) = CheckTables(g, n, t)
         /\ CheckTables(g, n, t) = "ok" => Load(f, n, t) = Load(g, n, t)
<1>1. ASSUME NEW guid, ~Missing(t, guid)
      PROVE  LET r == Find(t, guid) IN
             /\ r.off \in Nat /\ r.len \in Nat
             /\ \A a \in r.off .. r.off + r.len - 1 : a < n => f[a] = g[a]
  <2>1. PICK k \in DOMAIN t.entries : Find(t, guid) = t.entries[k]
    BY <1>1, FindIs
  <2>2. t.entries[k] \in Range(t.entries)
    BY DEF Range
  <2> QED
    BY <2>1, <2>2
<1>2. MetadataAt(f, n, t) = MetadataAt(g, n, t)
  <2> DEFINE r == Find(t, "metadata")
  <2>1. CASE ~Missing(t, "metadata") /\ SpanInsideTheFile(n, r.off, r.len) /\ r.len > 0
    <3>1. r.off \in Nat /\ r.len \in Nat
          /\ \A a \in r.off .. r.off + r.len - 1 : a < n => f[a] = g[a]
      BY <1>1, <2>1
    <3>2. r.off \in r.off .. r.off + r.len - 1 /\ r.off < n
      BY <2>1, <3>1 DEF SpanInsideTheFile
    <3>3. f[r.off] = g[r.off]
      BY <3>1, <3>2
    <3> QED
      BY <3>3 DEF MetadataAt
  <2>2. CASE ~(~Missing(t, "metadata") /\ SpanInsideTheFile(n, r.off, r.len) /\ r.len > 0)
    BY <2>2 DEF MetadataAt
  <2> QED
    BY <2>1, <2>2
<1>3. CheckTables(f, n, t) = CheckTables(g, n, t)
  BY <1>2 DEF CheckTables, CheckMetadata
<1>4. ASSUME CheckTables(g, n, t) = "ok"
      PROVE  Load(f, n, t) = Load(g, n, t)
  <2> DEFINE m == MetadataAt(g, n, t)
             r == Find(t, "bat")
             d == DiskOf(m, r)
  <2>1. /\ ~Missing(t, "bat") /\ ~(Params(m).block < MIN_BLOCK_SIZE) /\ ~Missing(t, "metadata")
        /\ SpanInsideTheFile(n, r.off, r.len) /\ d.ratio # 0 /\ RegionCovers(d)
    BY <1>4, TablesOutcome
  <2>2. r.off \in Nat /\ r.len \in Nat
        /\ \A a \in r.off .. r.off + r.len - 1 : a < n => f[a] = g[a]
    BY <1>1, <2>1
  <2>3. m.kind = "meta" /\ Parsed(m)
    <3> DEFINE q == Find(t, "metadata")
    <3>1. CASE m = NoMetadata
      BY <3>1 DEF NoMetadata, Parsed, Range
    <3>2. CASE m # NoMetadata
      <4>1. SpanInsideTheFile(n, q.off, q.len) /\ q.len > 0 /\ g[q.off].kind = "meta"
            /\ m = g[q.off]
        BY <3>2 DEF MetadataAt
      <4>2. q.off \in Nat /\ q.len \in Nat
        BY <1>1, <2>1
      <4>3. q.off \in 0 .. n - 1
        BY <4>1, <4>2 DEF SpanInsideTheFile
      <4> QED
        BY <4>1, <4>3
    <3> QED
      BY <3>1, <3>2
  <2>4. Params(m).block \in Nat
    BY <2>3, ItemTyped DEF Params
  <2>5. \A i \in 0 .. RequiredEntries(d) - 1 : i \in 0 .. r.len - 1
    <3>1. Params(m).block >= MIN_BLOCK_SIZE
      BY <2>1, <2>4, PipelineAssumption
    <3> QED
      BY <2>1, <2>2, <2>3, <3>1, EntriesInside
  <2>6. \A i \in 0 .. RequiredEntries(d) - 1 : f[r.off + i] = g[r.off + i]
    <3> SUFFICES ASSUME NEW i \in 0 .. RequiredEntries(d) - 1
                 PROVE  f[r.off + i] = g[r.off + i]
      OBVIOUS
    <3>1. i \in 0 .. r.len - 1
      BY <2>5
    <3>2. r.off + i \in r.off .. r.off + r.len - 1 /\ r.off + i < n
      BY <2>1, <2>2, <3>1 DEF SpanInsideTheFile
    <3> QED
      BY <2>2, <3>2
  <2>7. [i \in 0 .. RequiredEntries(d) - 1 |-> f[r.off + i]]
          = [i \in 0 .. RequiredEntries(d) - 1 |-> g[r.off + i]]
    BY <2>6
  <2> QED
    BY <1>2, <2>7 DEF Load
<1> QED
  BY <1>3, <1>4

-----------------------------------------------------------------------------
(***************************************************************************)
(* Chains and what their replay makes of a file.                           *)
(***************************************************************************)

(* Its descriptors by their places. *)
LEMMA Places ==
  ASSUME NEW chain, ChainShape(chain)
  PROVE  /\ Len(chain) \in Nat /\ DOMAIN chain = 1 .. Len(chain)
         /\ \A i \in DOMAIN chain :
              /\ Len(chain[i].descriptors) \in Nat
              /\ DOMAIN chain[i].descriptors = 1 .. Len(chain[i].descriptors)
         /\ \A p \in Descriptors(chain) :
              /\ p = <<p[1], p[2]>>
              /\ p[1] \in 1 .. Len(chain) /\ p[2] \in 1 .. Len(chain[p[1]].descriptors)
              /\ p[1] \in Nat /\ p[2] \in Nat
         /\ \A i \in 1 .. Len(chain) : \A j \in 1 .. Len(chain[i].descriptors) :
              <<i, j>> \in Descriptors(chain)
<1>1. Len(chain) \in Nat /\ DOMAIN chain = 1 .. Len(chain)
  BY DEF ChainShape
<1>2. \A i \in DOMAIN chain :
        /\ Len(chain[i].descriptors) \in Nat
        /\ DOMAIN chain[i].descriptors = 1 .. Len(chain[i].descriptors)
  BY DEF ChainShape
<1>3. ASSUME NEW p \in Descriptors(chain)
      PROVE  /\ p = <<p[1], p[2]>>
             /\ p[1] \in 1 .. Len(chain) /\ p[2] \in 1 .. Len(chain[p[1]].descriptors)
             /\ p[1] \in Nat /\ p[2] \in Nat
  <2>1. PICK i \in DOMAIN chain : p \in {i} \X DOMAIN chain[i].descriptors
    BY DEF Descriptors
  <2>2. p = <<p[1], p[2]>> /\ p[1] = i /\ p[2] \in DOMAIN chain[i].descriptors
    BY <2>1
  <2> QED
    BY <1>1, <1>2, <2>2
<1>4. ASSUME NEW i \in 1 .. Len(chain), NEW j \in 1 .. Len(chain[i].descriptors)
      PROVE  <<i, j>> \in Descriptors(chain)
  <2>1. i \in DOMAIN chain /\ <<i, j>> \in {i} \X DOMAIN chain[i].descriptors
    BY <1>1, <1>2
  <2> QED
    BY <2>1 DEF Descriptors
<1> QED
  BY <1>1, <1>2, <1>3, <1>4

(* One of the descriptors that cover a granule is the last. *)
LEMMA LastHitIs ==
  ASSUME NEW chain, ChainShape(chain), NEW a, Hits(chain, a) # {}
  PROVE  /\ LastHit(chain, a) \in Hits(chain, a)
         /\ \A q \in Hits(chain, a) : ~Later(q, LastHit(chain, a))
<1> DEFINE H == Hits(chain, a)
           I == {p[1] : p \in H}
<1>0. H # {} /\ H \subseteq Descriptors(chain)
  BY DEF Hits
<1>1. \A p \in H : p[1] \in 1 .. Len(chain) /\ p[2] \in 1 .. Len(chain[p[1]].descriptors)
                   /\ p[1] \in Nat /\ p[2] \in Nat
  BY <1>0, Places
<1>2. Len(chain) \in Nat /\ DOMAIN chain = 1 .. Len(chain)
      /\ \A i \in 1 .. Len(chain) : Len(chain[i].descriptors) \in Nat
  BY Places
<1> HIDE DEF H
<1>3. \E i \in I : \A y \in I : i >= y
  <2>1. I \subseteq 0 .. Len(chain)
    BY <1>1, <1>2
  <2>2. I # {}
    BY <1>0
  <2> HIDE DEF I
  <2> QED
    BY <1>2, <2>1, <2>2, GreatestNat
<1>4. PICK i \in I : \A y \in I : i >= y
  BY <1>3
<1> DEFINE J == {p[2] : p \in {x \in H : x[1] = i}}
<1>5. i \in 1 .. Len(chain) /\ i \in Nat
  BY <1>1, <1>2
<1>6. \E j \in J : \A y \in J : j >= y
  <2>1. J \subseteq 0 .. Len(chain[i].descriptors)
    BY <1>1, <1>2, <1>5
  <2>2. J # {}
    BY <1>4
  <2>3. Len(chain[i].descriptors) \in Nat
    BY <1>2, <1>5
  <2> HIDE DEF J
  <2> QED
    BY <2>1, <2>2, <2>3, GreatestNat
<1>7. PICK j \in J : \A y \in J : j >= y
  BY <1>6
<1>8. PICK p \in H : p[1] = i /\ p[2] = j
  OBVIOUS
<1>9. ASSUME NEW q \in H PROVE ~Later(q, p)
  <2>1. q[1] \in Nat /\ q[2] \in Nat /\ p[1] \in Nat /\ p[2] \in Nat /\ i >= q[1]
    BY <1>1, <1>4
  <2>2. q[1] = i => j >= q[2]
    BY <1>7
  <2> QED
    BY <1>8, <2>1, <2>2 DEF Later
<1>10. \E x \in Hits(chain, a) : \A q \in Hits(chain, a) : ~Later(q, x)
  BY <1>9 DEF H
<1> QED
  BY <1>10 DEF LastHit

(* A chain d whose descriptors are those of c, in the same order, but for  *)
(* some that come before them all: where d hits, both replays write the    *)
(* same.                                                                   *)
LEMMA Reindex ==
  ASSUME NEW c, NEW d, ChainShape(c), ChainShape(d),
         NEW m \in [Descriptors(d) -> Descriptors(c)],
         \A p \in Descriptors(d) : At(d, p) = At(c, m[p]),
         \A p, q \in Descriptors(d) : Later(p, q) <=> Later(m[p], m[q]),
         \A q \in Descriptors(c) :
           \/ \E p \in Descriptors(d) : q = m[p]
           \/ \A p \in Descriptors(d) : ~Later(q, m[p]),
         NEW a, Hits(d, a) # {}
  PROVE  Hits(c, a) # {} /\ At(c, LastHit(c, a)) = At(d, LastHit(d, a))
<1> DEFINE p == LastHit(d, a)
           r == LastHit(c, a)
<1>1. p \in Hits(d, a) /\ \A q \in Hits(d, a) : ~Later(q, p)
  BY LastHitIs
<1>2. p \in Descriptors(d) /\ m[p] \in Hits(c, a)
  BY <1>1 DEF Hits
<1>3. r \in Hits(c, a) /\ \A q \in Hits(c, a) : ~Later(q, r)
  BY <1>2, LastHitIs
<1> HIDE DEF p, r
<1>4. r \in Descriptors(c) /\ Covers(At(c, r), a)
  BY <1>3 DEF Hits
<1>5. ~Later(r, m[p])
  <2>1. CASE \E q \in Descriptors(d) : r = m[q]
    <3>1. PICK q \in Descriptors(d) : r = m[q]
      BY <2>1
    <3>2. q \in Hits(d, a)
      BY <1>4, <3>1 DEF Hits
    <3> QED
      BY <1>1, <1>2, <3>1, <3>2
  <2>2. CASE \A q \in Descriptors(d) : ~Later(r, m[q])
    BY <1>2, <2>2
  <2> QED
    BY <1>4, <2>1, <2>2
<1>6. ~Later(m[p], r)
  BY <1>2, <1>3
<1>7. /\ r = <<r[1], r[2]>> /\ m[p] = <<m[p][1], m[p][2]>>
      /\ r[1] \in Nat /\ r[2] \in Nat /\ m[p][1] \in Nat /\ m[p][2] \in Nat
  BY <1>2, <1>4, Places DEF Hits
<1>8. r[1] = m[p][1] /\ r[2] = m[p][2]
  BY <1>5, <1>6, <1>7 DEF Later
<1>9. r = m[p]
  BY <1>7, <1>8
<1> QED
  BY <1>2, <1>9 DEF p, r

(* The tail of a sequence. *)
LEMMA TailIs ==
  ASSUME NEW S, NEW s \in Seq(S), s # << >>
  PROVE  /\ Len(s) \in Nat \ {0} /\ DOMAIN s = 1 .. Len(s)
         /\ Len(Tail(s)) = Len(s) - 1 /\ DOMAIN Tail(s) = 1 .. Len(s) - 1
         /\ \A j \in 1 .. Len(s) - 1 : Tail(s)[j] = s[j + 1]
         /\ Tail(s) \in Seq(Range(Tail(s)))
<1>1. Len(s) \in Nat \ {0} /\ DOMAIN s = 1 .. Len(s)
  OBVIOUS
<1>2. /\ Tail(s) \in Seq(S) /\ Len(Tail(s)) = Len(s) - 1
      /\ \A j \in 1 .. Len(s) - 1 : Tail(s)[j] = s[j + 1]
  BY <1>1
<1> DEFINE u == Tail(s)
<1>3. u \in Seq(S) /\ Len(u) = Len(s) - 1
  BY <1>2
<1> HIDE DEF u
<1>4. DOMAIN u = 1 .. Len(u) /\ Len(u) \in Nat
  BY <1>3
<1>5. u \in [1 .. Len(u) -> Range(u)]
  BY <1>3, <1>4 DEF Range
<1>6. u \in Seq(Range(u))
  BY <1>4, <1>5
<1> QED
  BY <1>1, <1>2, <1>3, <1>4, <1>6 DEF u

(* Applying the first descriptor of a chain leaves the same to be made. *)
LEMMA ApplyStep ==
  ASSUME NEW c, ChainShape(c), c # << >>, c[1].descriptors # << >>,
         NEW f, DOMAIN f = Granules
  PROVE  LET d == c[1].descriptors[1]
             t == [c EXCEPT ![1].descriptors = Tail(@)]
             g == [a \in Granules |-> IF a \in d.off .. d.off + d.len - 1
                                      THEN d.content ELSE f[a]] IN
         /\ ChainShape(t) /\ t # << >> /\ Len(t) = Len(c)
         /\ \A p \in Descriptors(t) :
              \E q \in Descriptors(c) : q[1] = p[1] /\ At(t, p) = At(c, q)
         /\ <<1, 1>> \in Descriptors(c) /\ d = At(c, <<1, 1>>)
         /\ \A a \in Granules : Replay(g, t)[a] = Replay(f, c)[a]
<1> DEFINE d == c[1].descriptors[1]
           t == [c EXCEPT ![1].descriptors = Tail(@)]
           g == [a \in Granules |-> IF a \in d.off .. d.off + d.len - 1 THEN d.content ELSE f[a]]
           D == c[1].descriptors
           m == [p \in Descriptors(t) |-> IF p[1] = 1 THEN <<1, p[2] + 1>> ELSE p]
<1>1. /\ Len(c) \in Nat \ {0} /\ DOMAIN c = 1 .. Len(c) /\ 1 \in DOMAIN c
      /\ c \in Seq(Range(c))
  BY DEF ChainShape
<1>2. \A i \in 1 .. Len(c) :
        c[i] \in [last : 0 .. MaxLen, descriptors : Seq(Range(c[i].descriptors))]
  BY <1>1 DEF ChainShape
<1>3. D \in Seq(Range(D)) /\ D # << >>
  BY <1>1, <1>2
<1>4. /\ Len(D) \in Nat \ {0} /\ DOMAIN D = 1 .. Len(D)
      /\ Len(Tail(D)) = Len(D) - 1 /\ DOMAIN Tail(D) = 1 .. Len(D) - 1
      /\ \A j \in 1 .. Len(D) - 1 : Tail(D)[j] = D[j + 1]
      /\ Tail(D) \in Seq(Range(Tail(D)))
  <2> HIDE DEF D
  <2> QED
    BY <1>3, TailIs
<1>5. /\ DOMAIN t = 1 .. Len(c)
      /\ \A i \in 1 .. Len(c) : i # 1 => t[i] = c[i]
      /\ t[1] = [c[1] EXCEPT !.descriptors = Tail(D)]
  BY <1>1
<1>6. /\ t[1].descriptors = Tail(D) /\ t[1].last = c[1].last
      /\ t[1] \in [last : 0 .. MaxLen, descriptors : Seq(Range(Tail(D)))]
  <2> HIDE DEF t, D
  <2>1. c[1] \in [last : 0 .. MaxLen, descriptors : Seq(Range(D))]
    BY <1>1, <1>2 DEF D
  <2> QED
    BY <1>4, <1>5, <2>1
<1> HIDE DEF t, D
<1>7. t \in Seq(Range(t)) /\ Len(t) = Len(c)
  <2>1. t \in [1 .. Len(c) -> Range(t)]
    BY <1>1, <1>5 DEF Range, t
  <2> QED
    BY <1>1, <2>1
<1>8. ChainShape(t)
  BY <1>2, <1>5, <1>6, <1>7 DEF ChainShape
<1>9. t # << >>
  BY <1>1, <1>7
<1>10. <<1, 1>> \in Descriptors(c) /\ d = At(c, <<1, 1>>)
  <2>1. 1 \in 1 .. Len(c) /\ 1 \in 1 .. Len(c[1].descriptors)
    BY <1>1, <1>4
  <2>2. <<1, 1>> \in Descriptors(c)
    BY <1>1, <2>1, Places
  <2>3. <<1, 1>>[1] = 1 /\ <<1, 1>>[2] = 1
    OBVIOUS
  <2> QED
    BY <2>2, <2>3, Zenon DEF At
<1> HIDE DEF d
<1>11. ASSUME NEW p \in Descriptors(t)
       PROVE  /\ m[p] \in Descriptors(c) /\ At(t, p) = At(c, m[p])
              /\ p[1] \in Nat \ {0} /\ p[2] \in Nat \ {0}
              /\ m[p][1] = p[1] /\ m[p][2] = IF p[1] = 1 THEN p[2] + 1 ELSE p[2]
  <2>1. p = <<p[1], p[2]>> /\ p[1] \in 1 .. Len(c) /\ p[2] \in 1 .. Len(t[p[1]].descriptors)
    BY <1>7, <1>8, Places
  <2>2. p[1] \in Nat \ {0} /\ p[2] \in Nat \ {0}
    BY <1>1, <1>5, <1>7, <1>8, <2>1, Places
  <2>3. CASE p[1] = 1
    <3>1. m[p] = <<1, p[2] + 1>> /\ p[2] \in 1 .. Len(D) - 1
      BY <1>4, <1>6, <2>1, <2>3
    <3>2. p[2] + 1 \in 1 .. Len(c[1].descriptors)
      BY <1>4, <3>1 DEF D
    <3>3. <<1, p[2] + 1>> \in Descriptors(c)
      BY <1>1, <3>2, Places
    <3>4. At(t, p) = Tail(D)[p[2]] /\ At(c, m[p]) = D[p[2] + 1]
      BY <1>6, <2>3, <3>1 DEF At, D
    <3> QED
      BY <1>4, <2>2, <2>3, <3>1, <3>3, <3>4
  <2>4. CASE p[1] # 1
    <3>1. m[p] = p /\ t[p[1]] = c[p[1]]
      BY <1>5, <2>1, <2>4
    <3>2. <<p[1], p[2]>> \in Descriptors(c)
      BY <2>1, <3>1, Places
    <3> QED
      BY <2>1, <2>2, <2>4, <3>1, <3>2 DEF At
  <2> QED
    BY <2>3, <2>4
<1>12. ASSUME NEW q \in Descriptors(c), q # <<1, 1>>
       PROVE  \E p \in Descriptors(t) : q = m[p]
  <2>1. /\ q = <<q[1], q[2]>> /\ q[1] \in 1 .. Len(c) /\ q[2] \in 1 .. Len(c[q[1]].descriptors)
        /\ q[1] \in Nat /\ q[2] \in Nat
    BY Places
  <2>2. CASE q[1] = 1
    <3>1. q[2] # 1
      BY <1>12, <2>1, <2>2
    <3>2. q[2] - 1 \in 1 .. Len(t[1].descriptors) /\ q[2] - 1 + 1 = q[2]
      BY <1>4, <1>6, <2>1, <2>2, <3>1 DEF D
    <3>3. <<1, q[2] - 1>> \in Descriptors(t)
      BY <1>1, <1>7, <1>8, <3>2, Places
    <3>4. m[<<1, q[2] - 1>>] = <<1, q[2]>>
      BY <3>2, <3>3
    <3> QED
      BY <2>1, <2>2, <3>3, <3>4
  <2>3. CASE q[1] # 1
    <3>1. t[q[1]] = c[q[1]]
      BY <1>5, <2>1, <2>3
    <3>2. <<q[1], q[2]>> \in Descriptors(t)
      BY <1>7, <1>8, <2>1, <3>1, Places
    <3> QED
      BY <2>1, <2>3, <3>2
  <2> QED
    BY <2>2, <2>3
<1> HIDE DEF m
<1>13. ASSUME NEW a \in Granules PROVE Replay(g, t)[a] = Replay(f, c)[a]
  <2>1. /\ Replay(g, t)[a] = IF Hits(t, a) = {} THEN g[a] ELSE At(t, LastHit(t, a)).content
        /\ Replay(f, c)[a] = IF Hits(c, a) = {} THEN f[a] ELSE At(c, LastHit(c, a)).content
    BY DEF Replay
  <2>2. CASE Hits(t, a) # {}
    <3>1. m \in [Descriptors(t) -> Descriptors(c)]
      BY <1>11 DEF m
    <3>2. \A p, q \in Descriptors(t) : Later(p, q) <=> Later(m[p], m[q])
      BY <1>11 DEF Later
    <3>3. \A q \in Descriptors(c) :
            \/ \E p \in Descriptors(t) : q = m[p]
            \/ \A p \in Descriptors(t) : ~Later(q, m[p])
      <4>1. \A p \in Descriptors(t) : ~Later(<<1, 1>>, m[p])
        BY <1>11 DEF Later
      <4> QED
        BY <1>12, <4>1
    <3>4. \A p \in Descriptors(t) : At(t, p) = At(c, m[p])
      BY <1>11
    <3>5. Hits(c, a) # {} /\ At(c, LastHit(c, a)) = At(t, LastHit(t, a))
      BY <1>8, <2>2, <3>1, <3>2, <3>3, <3>4, Reindex
    <3> QED
      BY <2>1, <2>2, <3>5
  <2>3. CASE Hits(t, a) = {}
    <3>1. ASSUME NEW q \in Hits(c, a) PROVE q = <<1, 1>>
      <4>1. SUFFICES ASSUME q # <<1, 1>> PROVE FALSE
        OBVIOUS
      <4>2. q \in Descriptors(c) /\ Covers(At(c, q), a)
        BY DEF Hits
      <4>3. PICK p \in Descriptors(t) : q = m[p]
        BY <1>12, <4>1, <4>2
      <4>4. p \in Hits(t, a)
        BY <1>11, <4>2, <4>3 DEF Hits
      <4> QED
        BY <2>3, <4>4
    <3>2. CASE Covers(d, a)
      <4>1. <<1, 1>> \in Hits(c, a)
        BY <1>10, <3>2 DEF Hits
      <4>2. LastHit(c, a) = <<1, 1>>
        BY <3>1, <4>1, LastHitIs
      <4>3. g[a] = d.content
        BY <3>2 DEF Covers
      <4> QED
        BY <1>10, <2>1, <2>3, <4>1, <4>2, <4>3
    <3>3. CASE ~Covers(d, a)
      <4>1. <<1, 1>> \notin Hits(c, a)
        BY <1>10, <3>3 DEF Hits
      <4>2. Hits(c, a) = {}
        BY <3>1, <4>1
      <4>3. g[a] = f[a]
        BY <3>3 DEF Covers
      <4> QED
        BY <2>1, <2>3, <4>2, <4>3
    <3> QED
      BY <3>2, <3>3
  <2> QED
    BY <2>2, <2>3
<1>14. \A p \in Descriptors(t) :
         \E q \in Descriptors(c) : q[1] = p[1] /\ At(t, p) = At(c, q)
  BY <1>11
<1> QED
  BY <1>7, <1>8, <1>9, <1>10, <1>13, <1>14 DEF d, t

(* An empty chain changes nothing. *)
LEMMA EmptyReplay ==
  ASSUME NEW f, NEW a \in DOMAIN f
  PROVE  Replay(f, << >>)[a] = f[a]
<1>1. DOMAIN << >> = {}
  OBVIOUS
<1>2. Hits(<< >>, a) = {}
  BY <1>1 DEF Hits, Descriptors
<1> QED
  BY <1>2 DEF Replay

(* Nor does dropping an entry whose descriptors have all been applied. *)
LEMMA FlushStep ==
  ASSUME NEW c, ChainShape(c), c # << >>, c[1].descriptors = << >>,
         NEW f, DOMAIN f = Granules
  PROVE  /\ ChainShape(Tail(c)) /\ Len(c) \in Nat \ {0} /\ Len(Tail(c)) = Len(c) - 1
         /\ \A p \in Descriptors(Tail(c)) :
              \E q \in Descriptors(c) : q[1] = p[1] + 1 /\ At(Tail(c), p) = At(c, q)
         /\ \A a \in Granules : Replay(f, Tail(c))[a] = Replay(f, c)[a]
<1> DEFINE t == Tail(c)
           m == [p \in Descriptors(t) |-> <<p[1] + 1, p[2]>>]
<1>1. /\ Len(c) \in Nat \ {0} /\ DOMAIN c = 1 .. Len(c)
      /\ Len(t) = Len(c) - 1 /\ DOMAIN t = 1 .. Len(c) - 1
      /\ \A j \in 1 .. Len(c) - 1 : t[j] = c[j + 1]
      /\ t \in Seq(Range(t))
  BY TailIs DEF ChainShape
<1> HIDE DEF t
<1>2. ChainShape(t)
  <2>1. \A i \in 1 .. Len(c) - 1 : i + 1 \in DOMAIN c /\ t[i] = c[i + 1]
    BY <1>1
  <2>2. \A i \in DOMAIN c :
          c[i] \in [last : 0 .. MaxLen, descriptors : Seq(Range(c[i].descriptors))]
    BY DEF ChainShape
  <2>3. \A i \in DOMAIN t :
          t[i] \in [last : 0 .. MaxLen, descriptors : Seq(Range(t[i].descriptors))]
    BY <1>1, <2>1, <2>2
  <2> QED
    BY <1>1, <2>3 DEF ChainShape
<1>3. ASSUME NEW p \in Descriptors(t)
      PROVE  /\ m[p] \in Descriptors(c) /\ At(t, p) = At(c, m[p])
             /\ p[1] \in Nat /\ p[2] \in Nat
             /\ m[p][1] = p[1] + 1 /\ m[p][2] = p[2]
  <2>1. /\ p = <<p[1], p[2]>> /\ p[1] \in 1 .. Len(c) - 1
        /\ p[2] \in 1 .. Len(t[p[1]].descriptors) /\ p[1] \in Nat /\ p[2] \in Nat
    BY <1>1, <1>2, Places
  <2>2. t[p[1]] = c[p[1] + 1] /\ p[1] + 1 \in 1 .. Len(c)
    BY <1>1, <2>1
  <2>3. <<p[1] + 1, p[2]>> \in Descriptors(c)
    BY <2>1, <2>2, Places
  <2> QED
    BY <2>1, <2>2, <2>3 DEF At
<1>4. ASSUME NEW q \in Descriptors(c)
      PROVE  \E p \in Descriptors(t) : q = m[p]
  <2>1. /\ q = <<q[1], q[2]>> /\ q[1] \in 1 .. Len(c) /\ q[2] \in 1 .. Len(c[q[1]].descriptors)
        /\ q[1] \in Nat /\ q[2] \in Nat
    BY Places
  <2>2. q[1] # 1
    BY <2>1
  <2>3. q[1] - 1 \in 1 .. Len(t) /\ t[q[1] - 1] = c[q[1]] /\ q[1] - 1 + 1 = q[1]
    BY <1>1, <2>1, <2>2
  <2>4. <<q[1] - 1, q[2]>> \in Descriptors(t)
    BY <1>2, <2>1, <2>3, Places
  <2>5. m[<<q[1] - 1, q[2]>>] = <<q[1], q[2]>>
    BY <2>3, <2>4
  <2> QED
    BY <2>1, <2>4, <2>5
<1> HIDE DEF m
<1>5. ASSUME NEW a \in Granules PROVE Replay(f, t)[a] = Replay(f, c)[a]
  <2>1. /\ Replay(f, t)[a] = IF Hits(t, a) = {} THEN f[a] ELSE At(t, LastHit(t, a)).content
        /\ Replay(f, c)[a] = IF Hits(c, a) = {} THEN f[a] ELSE At(c, LastHit(c, a)).content
    BY DEF Replay
  <2>2. CASE Hits(t, a) # {}
    <3>1. m \in [Descriptors(t) -> Descriptors(c)]
      BY <1>3 DEF m
    <3>2. \A p, q \in Descriptors(t) : Later(p, q) <=> Later(m[p], m[q])
      BY <1>3 DEF Later
    <3>3. \A p \in Descriptors(t) : At(t, p) = At(c, m[p])
      BY <1>3
    <3>4. Hits(c, a) # {} /\ At(c, LastHit(c, a)) = At(t, LastHit(t, a))
      BY <1>2, <1>4, <2>2, <3>1, <3>2, <3>3, Reindex
    <3> QED
      BY <2>1, <2>2, <3>4
  <2>3. CASE Hits(t, a) = {}
    <3>1. ASSUME NEW q \in Hits(c, a) PROVE FALSE
      <4>1. q \in Descriptors(c) /\ Covers(At(c, q), a)
        BY DEF Hits
      <4>2. PICK p \in Descriptors(t) : q = m[p]
        BY <1>4, <4>1
      <4>3. p \in Hits(t, a)
        BY <1>3, <4>1, <4>2 DEF Hits
      <4> QED
        BY <2>3, <4>3
    <3>2. Hits(c, a) = {}
      BY <3>1
    <3> QED
      BY <2>1, <2>3, <3>2
  <2> QED
    BY <2>2, <2>3
<1>6. \A p \in Descriptors(t) :
        \E q \in Descriptors(c) : q[1] = p[1] + 1 /\ At(t, p) = At(c, q)
  BY <1>3
<1> QED
  BY <1>1, <1>2, <1>5, <1>6 DEF t

(* The chain of a parsed log has that shape. *)
LEMMA ParsedShape ==
  ASSUME NEW c, ParsedChain(c)
  PROVE  /\ ChainShape(c)
         /\ \A p \in Descriptors(c) :
              At(c, p).off \in Nat /\ At(c, p).len \in Nat /\ Parsed(At(c, p).content)
<1>1. ChainShape(c)
  BY DEF ParsedChain, ChainShape, Range
<1>2. ASSUME NEW p \in Descriptors(c)
      PROVE  At(c, p).off \in Nat /\ At(c, p).len \in Nat /\ Parsed(At(c, p).content)
  <2>1. /\ p[1] \in DOMAIN c /\ p[2] \in DOMAIN c[p[1]].descriptors
    BY <1>1, Places
  <2>2. c[p[1]] \in Range(c) /\ At(c, p) \in Range(c[p[1]].descriptors)
    BY <2>1 DEF Range, At
  <2> QED
    BY <2>2 DEF ParsedChain
<1> QED
  BY <1>1, <1>2

(* A chain has finitely many descriptors. *)
LEMMA FiniteDescriptors ==
  ASSUME NEW c, ChainShape(c)
  PROVE  Cardinality(Descriptors(c)) \in Nat
<1> DEFINE T == {{i} \X DOMAIN c[i].descriptors : i \in DOMAIN c}
           f == [i \in DOMAIN c |-> {i} \X DOMAIN c[i].descriptors]
<1>1. IsFiniteSet(DOMAIN c)
  <2>1. 1 \in Int /\ Len(c) \in Int /\ DOMAIN c = 1 .. Len(c)
    BY Places
  <2> QED
    BY <2>1, FS_Interval
<1>2. f \in Surjection(DOMAIN c, T)
  BY DEF Surjection, Range
<1>3. IsFiniteSet(T)
  <2> HIDE DEF T, f
  <2> QED
    BY <1>1, <1>2, FS_Surjection, Zenon
<1>4. ASSUME NEW i \in DOMAIN c PROVE IsFiniteSet({i} \X DOMAIN c[i].descriptors)
  <2>1. IsFiniteSet(DOMAIN c[i].descriptors)
    <3>1. Len(c[i].descriptors) \in Int /\ DOMAIN c[i].descriptors = 1 .. Len(c[i].descriptors)
      BY Places
    <3> QED
      BY <3>1, FS_Interval
  <2>2. IsFiniteSet({i})
    BY FS_Singleton
  <2> QED
    BY <2>1, <2>2, FS_Product, Zenon
<1>5. \A s \in T : IsFiniteSet(s)
  BY <1>4
<1>6. IsFiniteSet(UNION T)
  <2> HIDE DEF T
  <2> QED
    BY <1>3, <1>5, FS_UNION, Zenon
<1>7. Descriptors(c) = UNION T
  BY DEF Descriptors
<1> QED
  BY <1>6, <1>7, FS_CardinalityType, Zenon

(* How long a replay makes the file. *)
LEMMA ExtentIs ==
  ASSUME NEW n \in 0 .. MaxLen, NEW c, ParsedChain(c)
  PROVE  /\ AllowedExtent(n, c) \in n .. MaxLen
         /\ ChainFits(n, c) => ReplayedExtent(n, c) = AllowedExtent(n, c)
<1> DEFINE allowed == AllowedExtent(n, c)
           L == {0} \cup {c[i].last : i \in DOMAIN c}
           E == {0} \cup {End(c, p) : p \in Descriptors(c)}
<1>0. MaxLen \in Nat /\ MAX_BLOCK_SIZE \in Nat
  BY PipelineAssumption
<1>1. Cardinality(Descriptors(c)) \in Nat
  BY ParsedShape, FiniteDescriptors
<1>2. n + Cardinality(Descriptors(c)) * MAX_BLOCK_SIZE \in Nat
  BY <1>0, <1>1
<1>3. L \subseteq 0 .. MaxLen /\ L # {}
  BY <1>0, ParsedShape DEF ChainShape
<1>4. Max(L) \in 0 .. MaxLen
  <2> HIDE DEF L
  <2> QED
    BY <1>0, <1>3, MaxNat
<1>5. allowed \in n .. MaxLen
  BY <1>0, <1>2, <1>4 DEF AllowedExtent
<1> HIDE DEF allowed
<1>6. ASSUME ChainFits(n, c)
      PROVE  ReplayedExtent(n, c) = allowed
  <2>1. \A p \in Descriptors(c) : End(c, p) \in 0 .. allowed
    BY <1>5, <1>6, ParsedShape DEF ChainFits, End, allowed
  <2>2. E \subseteq 0 .. allowed /\ E # {} /\ allowed \in Nat
    BY <1>5, <2>1
  <2>3. Max(E) \in 0 .. allowed
    <3> HIDE DEF E
    <3> QED
      BY <2>2, MaxNat
  <2> QED
    BY <2>2, <2>3 DEF ReplayedExtent, DescriptorExtent, allowed
<1> QED
  BY <1>5, <1>6 DEF allowed

-----------------------------------------------------------------------------
(***************************************************************************)
(* What stays, and what a power loss leaves.                               *)
(***************************************************************************)

(* No step changes the image that was there at first. *)
LEMMA OriginStays ==
  ASSUME [Next]_vars
  PROVE  /\ origin' = origin
         /\ OriginChain' = OriginChain /\ FirstHeader' = FirstHeader /\ FirstSlot' = FirstSlot
         /\ SpareSlot' = SpareSlot /\ Consumed' = Consumed /\ LogSpan' = LogSpan
         /\ Aside' = Aside /\ LogGranule' = LogGranule
         /\ ReplayedFile' = ReplayedFile /\ ReplayedLen' = ReplayedLen
         /\ ReplayedTable' = ReplayedTable
         /\ \A a : WrittenAt(a)' = WrittenAt(a) /\ AppliedAt(a)' = AppliedAt(a)
         /\ OriginChains' = OriginChains /\ Remains' = Remains
         /\ halfErased => halfErased'
         /\ RefusedBefore' = RefusedBefore /\ Idle' = Idle
<1>1. origin' = origin
  BY DEF Next, vars, OpenStart, MakeRoom, ApplyDescriptor, ApplyFlush, ReadRegions, EraseLog,
         EraseFlush, ClearHeader, ClearFlush, ReadTables, DeviceError, Close, Crash, Forget
<1>2. OriginChain' = OriginChain /\ FirstHeader' = FirstHeader /\ FirstSlot' = FirstSlot
  BY <1>1 DEF OriginChain, FirstHeader, HeaderOf, FirstSlot
<1>3. SpareSlot' = SpareSlot /\ Consumed' = Consumed /\ LogSpan' = LogSpan
      /\ LogGranule' = LogGranule
  BY <1>1, <1>2 DEF SpareSlot, Consumed, LogSpan, LogGranule
<1>4. Aside' = Aside
  BY <1>3 DEF Aside
<1>5. ReplayedFile' = ReplayedFile /\ ReplayedLen' = ReplayedLen
  BY <1>1, <1>2 DEF ReplayedFile, ReplayedLen
<1>6. ReplayedTable' = ReplayedTable
  BY <1>5 DEF ReplayedTable
<1>7. /\ OriginChains' = OriginChains /\ Remains' = Remains
      /\ \A a : WrittenAt(a)' = WrittenAt(a) /\ AppliedAt(a)' = AppliedAt(a)
  <2>1. OriginChains' = OriginChains
    BY <1>1, <1>2 DEF OriginChains
  <2>2. Remains' = Remains
    BY <1>3 DEF Remains
  <2> QED
    BY <1>2, <2>1, <2>2 DEF WrittenAt, AppliedAt
<1>8. RefusedBefore' = RefusedBefore
  BY <1>1, <1>2 DEF RefusedBefore
<1>9. Idle' = Idle
  BY <1>2, <1>8 DEF Idle
<1>10. halfErased => halfErased'
  BY DEF Next, vars, OpenStart, MakeRoom, ApplyDescriptor, ApplyFlush, ReadRegions, EraseLog,
         EraseFlush, ClearHeader, ClearFlush, ReadTables, DeviceError, Close, Crash, Forget
<1> QED
  BY <1>1, <1>2, <1>3, <1>4, <1>5, <1>6, <1>7, <1>8, <1>9, <1>10

(* A power loss leaves, of every granule, something it may have held. *)
LEMMA PowerLoss ==
  ASSUME LosePower, DOMAIN file = Granules
  PROVE  \E n \in lenMay :
           /\ len' = n /\ lenMay' = {n} /\ DOMAIN file' = Granules
           /\ may' = [a \in Granules |-> {file'[a]}]
           /\ \A a \in Granules : a < n => file'[a] \in may[a]
           /\ \A a \in Granules : ~(a < n) => file'[a] = Blank
<1>1. PICK n \in lenMay, f \in Survivors(file, may) :
        /\ len' = n /\ lenMay' = {n}
        /\ file' = [a \in Granules |-> IF a < n THEN f[a] ELSE Blank]
        /\ may' = [a \in Granules |-> {file'[a]}]
  BY DEF LosePower
<1>2. ASSUME NEW a \in Granules PROVE f[a] \in may[a]
  <2> DEFINE unsure == {x \in DOMAIN file : may[x] # {file[x]}}
             picks == {u \in [unsure -> UNION {may[x] : x \in unsure}] :
                         \A x \in unsure : u[x] \in may[x]}
  <2>1. PICK u \in picks : f = [x \in DOMAIN file |-> IF x \in unsure THEN u[x] ELSE file[x]]
    BY DEF Survivors
  <2>2. CASE a \in unsure
    <3>1. f[a] = u[a] /\ u[a] \in may[a]
      BY <2>1, <2>2
    <3> QED
      BY <3>1
  <2>3. CASE a \notin unsure
    <3>1. f[a] = file[a] /\ may[a] = {file[a]}
      BY <2>1, <2>3
    <3> QED
      BY <3>1
  <2> QED
    BY <2>2, <2>3
<1> QED
  BY <1>1, <1>2

(* What is known of an image. *)
LEMMA ImageIs ==
  ASSUME origin \in Images
  PROVE  /\ origin.len \in MIB .. MaxLen /\ MIB \in Nat /\ MIB >= 5 /\ MaxLen \in Nat
         /\ origin.file \in [Granules -> Range(origin.file)]
         /\ \A a \in Granules :
              /\ Parsed(origin.file[a])
              /\ a >= origin.len => origin.file[a] = Blank
              /\ origin.file[a].kind = "log" =>
                   /\ a >= MIB
                   /\ ParsedChain(origin.file[a].chain)
                   /\ origin.file[a].error \in {"ok", "Corrupt", "LogUnassembled"}
                   /\ \A l \in origin.file[a].remains :
                        /\ ParsedChain(l.chain)
                        /\ l.error \in {"ok", "Corrupt", "LogUnassembled"}
BY ImagesAssumption, PipelineAssumption

-----------------------------------------------------------------------------
(***************************************************************************)
(* Where there is nothing to replay.                                       *)
(***************************************************************************)
IdleInv == origin \in Images /\ (Idle => IdleHolds)

(* At first; and the checks before the replay will always read what was    *)
(* there then, so they answer the same at every open.                      *)
LEMMA IdleInit == ASSUME Init PROVE IdleInv
<1>1. origin.len \in MIB .. MaxLen /\ origin.file \in [Granules -> Range(origin.file)]
  BY ImageIs DEF Init
<1> QED
  BY <1>1 DEF Init, IdleInv, IdleHolds

(* Every step keeps it. *)
LEMMA IdleNext == ASSUME IdleInv, [Next]_vars PROVE IdleInv'
<1>1. SUFFICES ASSUME Idle PROVE IdleHolds'
  BY OriginStays DEF IdleInv
<1>2. IdleHolds /\ origin \in Images
  BY <1>1 DEF IdleInv
<1>3. /\ origin' = origin /\ OriginChain' = OriginChain /\ FirstHeader' = FirstHeader
      /\ RefusedBefore' = RefusedBefore
  BY OriginStays
<1>13. file' = origin.file /\ Forget => ~halfErased'
  BY <1>2 DEF Forget, LeftInPart, IdleHolds
<1>4. CASE OpenStart
  <2>1. PickHeader(file, len) = FirstHeader
        /\ CollectReplayChain(file, PickHeader(file, len)).chain = OriginChain
    BY <1>2 DEF IdleHolds, FirstHeader, HeaderOf, OriginChain
  <2>2. UNCHANGED devVars
    BY <1>4 DEF OpenStart
  <2>6. halfErased' = halfErased
    BY <1>4 DEF OpenStart
  <2>3. CASE CheckBeforeReplay(file, len) # "ok"
    BY <1>2, <1>4, <2>2, <2>3, <2>6 DEF OpenStart, Refuse, IdleHolds, devVars
  <2>4. CASE CheckBeforeReplay(file, len) = "ok" /\ OriginChain = << >>
    <3>1. phase' = "regions" /\ ~replayed' /\ devSize' = len /\ header' = FirstHeader
      BY <1>4, <2>1, <2>4 DEF OpenStart, Stage
    <3>2. ~RefusedBefore
      BY <1>2, <2>4 DEF RefusedBefore, IdleHolds
    <3> QED
      BY <1>2, <1>3, <2>2, <2>6, <3>1, <3>2 DEF IdleHolds, devVars
  <2>5. CASE CheckBeforeReplay(file, len) = "ok" /\ OriginChain # << >>
    <3>1. /\ phase' \in {"grow", "refused"} /\ todo' = OriginChain /\ devSize' = len
      BY <1>4, <2>1, <2>5 DEF OpenStart, Stage, Refuse
    <3>2. ~ChainFits(len, OriginChain)
      BY <1>1, <1>2, <2>5 DEF Idle, RefusedBefore, IdleHolds
    <3> QED
      BY <1>2, <1>3, <2>2, <2>6, <3>1, <3>2 DEF IdleHolds, devVars
  <2> QED
    BY <2>3, <2>4, <2>5
<1>5. CASE MakeRoom
  <2>1. phase' = "refused" /\ UNCHANGED devVars /\ halfErased' = halfErased
    BY <1>2, <1>5 DEF MakeRoom, IdleHolds, Refuse
  <2> QED
    BY <1>2, <1>3, <2>1 DEF IdleHolds, devVars
<1>6. CASE ApplyDescriptor \/ ApplyFlush \/ EraseLog \/ EraseFlush \/ ClearHeader \/ ClearFlush
  BY <1>2, <1>6 DEF ApplyDescriptor, ApplyFlush, EraseLog, EraseFlush, ClearHeader, ClearFlush,
                    IdleHolds
<1>7. CASE ReadRegions
  <2>1. UNCHANGED devVars /\ UNCHANGED <<header, devSize, replayed, halfErased>>
        /\ phase = "regions"
        /\ regions' = PickRegionTable(file, devSize)
    BY <1>7 DEF ReadRegions
  <2>2. ~RefusedBefore /\ ~replayed /\ devSize = len /\ header = FirstHeader
    BY <1>2, <2>1 DEF IdleHolds
  <2>3. CASE CheckRegions(file, devSize, header) # "ok"
    BY <1>2, <1>3, <1>7, <2>1, <2>3 DEF ReadRegions, Refuse, IdleHolds, devVars
  <2>4. CASE CheckRegions(file, devSize, header) = "ok"
    <3>1. phase' = "tables"
      BY <1>7, <2>2, <2>4 DEF ReadRegions
    <3> QED
      BY <1>2, <1>3, <2>1, <2>2, <2>4, <3>1 DEF IdleHolds, devVars
  <2> QED
    BY <2>3, <2>4
<1>8. CASE ReadTables
  <2>1. UNCHANGED devVars /\ UNCHANGED <<header, devSize, replayed, regions, halfErased>>
        /\ phase' \in {"open", "refused"} /\ phase = "tables"
    BY <1>8 DEF ReadTables, localVars, Refuse
  <2> QED
    BY <1>2, <1>3, <2>1 DEF IdleHolds, devVars
<1>9. CASE DeviceError
  <2>1. UNCHANGED devVars
    BY <1>2, <1>9 DEF DeviceError, IdleHolds
  <2>2. phase' = "closed" /\ Forget
    BY <1>9 DEF DeviceError, Forget
  <2>3. ~halfErased'
    BY <1>2, <1>13, <2>1, <2>2 DEF IdleHolds, devVars
  <2> QED
    BY <1>2, <1>3, <2>1, <2>2, <2>3 DEF IdleHolds, devVars
<1>10. CASE Close
  <2>1. UNCHANGED devVars /\ phase' = "closed" /\ Forget
    BY <1>10 DEF Close, Forget
  <2>2. ~halfErased'
    BY <1>2, <1>13, <2>1 DEF IdleHolds, devVars
  <2> QED
    BY <1>2, <1>3, <2>1, <2>2 DEF IdleHolds, devVars
<1>11. CASE Crash
  <2>1. LosePower /\ phase' = "closed" /\ Forget
    BY <1>11 DEF Crash, Forget
  <2>2. file \in [Granules -> Range(origin.file)] /\ DOMAIN file = Granules
    BY <1>2, ImageIs DEF IdleHolds
  <2>3. PICK n \in lenMay :
          /\ len' = n /\ lenMay' = {n} /\ DOMAIN file' = Granules
          /\ may' = [a \in Granules |-> {file'[a]}]
          /\ \A a \in Granules : a < n => file'[a] \in may[a]
          /\ \A a \in Granules : ~(a < n) => file'[a] = Blank
    BY <2>1, <2>2, PowerLoss
  <2>4. n = origin.len /\ n \in Nat
    BY <1>2, ImageIs DEF IdleHolds
  <2>5. ASSUME NEW a \in Granules PROVE file'[a] = file[a]
    <3>1. CASE a < n
      BY <1>2, <2>3, <3>1 DEF IdleHolds
    <3>2. CASE ~(a < n)
      <4>1. a >= origin.len
        BY <2>4, <3>2, ImageIs, <1>2 DEF Granules
      <4> QED
        BY <1>2, <2>3, <3>2, <4>1, ImageIs DEF IdleHolds
    <3> QED
      BY <3>1, <3>2
  <2>6. file' = file
    <3>1. file' = [a \in Granules |-> file'[a]]
      BY <2>1 DEF LosePower
    <3> QED
      BY <2>2, <2>5, <3>1
  <2>7. ~halfErased'
    BY <1>2, <1>13, <2>1, <2>6 DEF IdleHolds
  <2> QED
    BY <1>2, <1>3, <2>1, <2>3, <2>4, <2>6, <2>7 DEF IdleHolds
<1>12. CASE UNCHANGED vars
  BY <1>2, <1>3, <1>12 DEF IdleHolds, vars, devVars, localVars
<1> QED
  BY <1>4, <1>5, <1>6, <1>7, <1>8, <1>9, <1>10, <1>11, <1>12 DEF Next

(* So it is an invariant. *)
LEMMA IdleInvariant == Spec => []IdleInv
<1>1. Init => IdleInv
  BY IdleInit
<1>2. IdleInv /\ [Next]_vars => IdleInv'
  BY IdleNext
<1> QED
  BY <1>1, <1>2, PTL DEF Spec

(* RefusedIsUntouched: an image that the checks before the replay refuse   *)
(* is as it was found after any number of opens, failures and power        *)
(* losses, whatever image it is.                                           *)
THEOREM RefusedIsUntouchedAlways == Spec => []RefusedIsUntouched
<1>1. IdleInv => RefusedIsUntouched
  BY DEF IdleInv, Idle, IdleHolds, RefusedIsUntouched
<1> QED
  BY <1>1, IdleInvariant, PTL

-----------------------------------------------------------------------------
(***************************************************************************)
(* Where there is a log to replay: what is known of the image.             *)
(***************************************************************************)
Pending == origin \in Images /\ ~Idle

(* The two header slots are apart from each other. *)
LEMMA SlotsAre ==
  /\ FirstSlot \in {1, 2} /\ SpareSlot \in {1, 2} /\ SpareSlot = 3 - FirstSlot
  /\ SpareSlot # FirstSlot /\ FirstSlot = 3 - SpareSlot /\ HeaderSlots = {1, 2}
  /\ HeaderSlots = {FirstSlot, SpareSlot}
<1>1. FirstSlot \in {1, 2}
  BY DEF FirstSlot, PickSlot
<1>2. SpareSlot = 3 - FirstSlot /\ HeaderSlots = {1, 2}
  BY DEF SpareSlot, OtherSlot, HeaderSlots, HeaderOffset
<1> QED
  BY <1>1, <1>2

(* Every check before the replay has been passed. *)
LEMMA PendingChecks ==
  ASSUME Pending
  PROVE  /\ origin.file[FILE_IDENTIFIER_OFFSET].kind = "identifier"
         /\ HasHeader(origin.file, origin.len) /\ FirstHeader.version = 0
         /\ ValidLogRegion(origin.len, FirstHeader)
         /\ HasTable(origin.file, origin.len)
         /\ LogRegionClear(PickRegionTable(origin.file, origin.len), FirstHeader)
         /\ CollectReplayChain(origin.file, FirstHeader).error = "ok"
         /\ OriginChain # << >> /\ ChainFits(origin.len, OriginChain)
<1>1. /\ CheckBeforeReplay(origin.file, origin.len) = "ok"
      /\ OriginChain # << >> /\ ChainFits(origin.len, OriginChain)
  BY DEF Pending, Idle, RefusedBefore
<1> QED
  BY <1>1, BeforeIs DEF FirstHeader, HeaderOf

(* The header that was picked. *)
LEMMA PendingHeader ==
  ASSUME Pending
  PROVE  /\ FirstHeader = origin.file[FirstSlot]
         /\ FirstHeader \in [kind : {"header"}, seq : 0 .. SeqLimit - 1,
                             guid : {FirstHeader.guid}, version : {FirstHeader.version},
                             off : Nat, len : Nat]
         /\ 1 \in Granules /\ 2 \in Granules /\ 1 < origin.len /\ 2 < origin.len
<1>1. origin.len \in MIB .. MaxLen /\ MIB \in Nat /\ MIB >= 5 /\ MaxLen \in Nat
      /\ \A a \in Granules : Parsed(origin.file[a])
  BY ImageIs DEF Pending
<1>2. 1 \in Granules /\ 2 \in Granules /\ 1 < origin.len /\ 2 < origin.len
  BY <1>1 DEF Granules
<1>3. FirstHeader = origin.file[FirstSlot]
  <2>1. HasHeader(origin.file, origin.len)
    BY PendingChecks, Zenon
  <2> QED
    BY <2>1, Zenon DEF FirstHeader, HeaderOf, PickHeader, FirstSlot, HeaderOffset
<1>4. FirstHeader.kind = "header"
  BY <1>2, <1>3, PendingChecks DEF HasHeader, FirstSlot, PickSlot, Parses, HeaderOffset
<1>5. Parsed(FirstHeader)
  BY <1>1, <1>2, <1>3, SlotsAre
<1> QED
  BY <1>2, <1>3, <1>4, <1>5 DEF Parsed

(* The log region, and the chain in it. *)
LEMMA PendingLog ==
  ASSUME Pending
  PROVE  /\ FirstHeader.off \in Nat /\ FirstHeader.len \in Nat /\ FirstHeader.off >= MIB
         /\ FirstHeader.len > 0 /\ FirstHeader.off + FirstHeader.len <= origin.len
         /\ FirstHeader.guid # NoGuid
         /\ FirstHeader.off \in LogSpan /\ LogSpan \subseteq Granules
         /\ \A a \in LogSpan : a < origin.len
         /\ LogSpan \cap HeaderSlots = {}
         /\ LogGranule.kind = "log" /\ LogGranule.guid = FirstHeader.guid
         /\ LogGranule.error = "ok" /\ LogGranule.chain = OriginChain
         /\ LogGranule # Blank /\ Blank \notin Remnants(LogGranule)
         /\ ParsedChain(OriginChain)
<1>1. /\ origin.len \in MIB .. MaxLen /\ MIB \in Nat /\ MIB >= 5 /\ MaxLen \in Nat
      /\ \A a \in Granules : origin.file[a].kind = "log" => ParsedChain(origin.file[a].chain)
      /\ DOMAIN origin.file = Granules
  BY ImageIs DEF Pending
<1>2. FirstHeader.off \in Nat /\ FirstHeader.len \in Nat
  BY PendingHeader
<1>3. /\ FirstHeader.guid # NoGuid /\ FirstHeader.len > 0 /\ FirstHeader.off \in Granules
      /\ LogGranule.kind = "log" /\ LogGranule.guid = FirstHeader.guid
      /\ LogGranule.error = "ok" /\ LogGranule.chain = OriginChain
  <2>1. CollectReplayChain(origin.file, FirstHeader) # NoChain
    BY PendingChecks DEF OriginChain, NoChain, FirstHeader, HeaderOf
  <2>2. CollectReplayChain(origin.file, FirstHeader).chain = OriginChain
    BY DEF OriginChain, FirstHeader, HeaderOf
  <2>3. /\ FirstHeader.guid # NoGuid /\ FirstHeader.len > 0
        /\ FirstHeader.off \in DOMAIN origin.file
        /\ LogGranule.kind = "log" /\ LogGranule.guid = FirstHeader.guid
        /\ CollectReplayChain(origin.file, FirstHeader)
             = [error |-> LogGranule.error, chain |-> LogGranule.chain]
    BY <2>1 DEF CollectReplayChain, LogGranule
  <2>4. LogGranule.error = "ok" /\ LogGranule.chain = OriginChain
    BY <2>2, <2>3, PendingChecks
  <2> QED
    BY <1>1, <2>3, <2>4
<1>4. FirstHeader.off >= MIB /\ FirstHeader.off + FirstHeader.len <= origin.len
  <2>1. ValidLogRegion(origin.len, FirstHeader)
    BY PendingChecks, Zenon
  <2> QED
    BY <1>2, <1>3, <2>1 DEF ValidLogRegion, SpanInsideTheFile
<1>5. FirstHeader.off \in LogSpan /\ LogSpan \subseteq Granules
      /\ \A a \in LogSpan : a < origin.len
  BY <1>1, <1>2, <1>3, <1>4 DEF LogSpan, Granules
<1>6. LogSpan \cap HeaderSlots = {}
  BY <1>1, <1>2, <1>4, SlotsAre DEF LogSpan
<1>7. ParsedChain(OriginChain)
  BY <1>1, <1>3 DEF LogGranule
<1>8. LogGranule # Blank /\ Blank \notin Remnants(LogGranule)
  <2>1. LogGranule.kind = "log" /\ \A c \in Remnants(LogGranule) : c.kind = "log"
    BY <1>3 DEF Remnants
  <2>2. Blank.kind = "blank"
    BY DEF Blank
  <2> QED
    BY <2>1, <2>2
<1> QED
  BY <1>2, <1>3, <1>4, <1>5, <1>6, <1>7, <1>8

(* Five granules of the first megabyte, apart from the log. *)
LEMMA AsideIs ==
  ASSUME Pending
  PROVE  /\ 0 \in Aside /\ 3 \in Aside /\ 4 \in Aside /\ Aside \subseteq Granules
         /\ Granules = Aside \cup HeaderSlots \cup LogSpan
         /\ FirstSlot \notin Aside /\ SpareSlot \notin Aside
         /\ \A a \in LogSpan : a \notin Aside /\ a # FirstSlot /\ a # SpareSlot
<1>1. {0, 3, 4} \subseteq Granules /\ HeaderSlots \subseteq Granules
  BY ImageIs, SlotsAre DEF Pending, Granules
<1>2. 0 \notin LogSpan /\ 3 \notin LogSpan /\ 4 \notin LogSpan
  BY PendingLog, PipelineAssumption DEF LogSpan
<1> QED
  BY <1>1, <1>2, SlotsAre, PendingLog DEF Aside

(* The header the replay ends with is newer than both that were there. *)
LEMMA ConsumedIs ==
  ASSUME Pending, ImagesReplayable
  PROVE  /\ Consumed.kind = "header" /\ Consumed.seq = FirstHeader.seq + 1
         /\ Consumed.guid = NoGuid /\ Consumed.version = FirstHeader.version
         /\ Consumed.off = FirstHeader.off /\ Consumed.len = FirstHeader.len
         /\ origin.file[SpareSlot].kind = "header" =>
              /\ origin.file[SpareSlot].seq \in Nat
              /\ origin.file[SpareSlot].seq <= FirstHeader.seq
              /\ SpareSlot = 1 => origin.file[SpareSlot].seq < FirstHeader.seq
         /\ FirstHeader.seq \in Nat
         /\ Consumed # origin.file[SpareSlot] /\ Consumed # Torn /\ Consumed # FirstHeader
<1>1. FirstHeader.seq \in Nat /\ FirstHeader.seq + 1 < SeqLimit
  <2>1. FirstHeader.seq \in Nat
    BY PendingHeader, PipelineAssumption
  <2>2. OriginChain # << >>
    BY PendingChecks, Zenon
  <2> QED
    BY <2>1, <2>2
       DEF Pending, ImagesReplayable, NumberLeft, FirstHeader, ChainOf, OriginChain, HeaderOf
<1>2. (FirstHeader.seq + 1) % SeqLimit = FirstHeader.seq + 1
  <2>1. SeqLimit \in Nat \ {0} /\ FirstHeader.seq + 1 \in 0 .. SeqLimit - 1
    BY <1>1, PipelineAssumption
  <2> HIDE DEF FirstHeader
  <2>2. FirstHeader.seq + 1 = SeqLimit * 0 + (FirstHeader.seq + 1)
    BY <2>1
  <2> QED
    BY <2>1, <2>2, DivModUnique
<1>3. /\ Consumed.kind = "header" /\ Consumed.seq = FirstHeader.seq + 1
      /\ Consumed.guid = NoGuid /\ Consumed.version = FirstHeader.version
      /\ Consumed.off = FirstHeader.off /\ Consumed.len = FirstHeader.len
  BY <1>2, PendingHeader DEF Consumed
<1>4. ASSUME origin.file[SpareSlot].kind = "header"
      PROVE  /\ origin.file[SpareSlot].seq \in Nat
             /\ origin.file[SpareSlot].seq <= FirstHeader.seq
             /\ SpareSlot = 1 => origin.file[SpareSlot].seq < FirstHeader.seq
  <2>1. origin.file[SpareSlot].seq \in Nat
    <3>1. Parsed(origin.file[SpareSlot])
      BY ImageIs, PendingHeader, SlotsAre DEF Pending
    <3> QED
      BY <1>4, <3>1, PipelineAssumption DEF Parsed
  <2>2. /\ FirstSlot = IF /\ Parses(origin.file, origin.len, 1, "header")
                          /\ Parses(origin.file, origin.len, 2, "header") =>
                               origin.file[1].seq >= origin.file[2].seq
                       THEN 1 ELSE 2
    BY DEF FirstSlot, PickSlot, HeaderOffset
  <2>3. Parses(origin.file, origin.len, 1, "header") /\ Parses(origin.file, origin.len, 2, "header")
    BY <1>4, SlotsAre, PendingHeader DEF Parses
  <2>4. CASE FirstSlot = 1
    <3>1. SpareSlot = 2 /\ origin.file[1].seq >= origin.file[2].seq
      BY <2>2, <2>3, <2>4, SlotsAre
    <3> QED
      BY <1>1, <2>1, <2>4, <3>1, PendingHeader
  <2>5. CASE FirstSlot = 2
    <3>1. SpareSlot = 1 /\ ~(origin.file[1].seq >= origin.file[2].seq)
      BY <2>2, <2>3, <2>5, SlotsAre
    <3> QED
      BY <1>1, <2>1, <2>5, <3>1, PendingHeader
  <2> QED
    BY <2>4, <2>5, SlotsAre
<1>5. Consumed # origin.file[SpareSlot] /\ Consumed # FirstHeader
  BY <1>1, <1>3, <1>4
<1>6. Consumed # Torn
  BY <1>3 DEF Torn
<1> QED
  BY <1>1, <1>3, <1>4, <1>5, <1>6

(* The file once the log has been applied. *)
LEMMA PendingReplay ==
  ASSUME Pending, ImagesReplayable
  PROVE  /\ ReplayedLen \in origin.len .. MaxLen
         /\ \A n \in {origin.len, ReplayedLen} :
              /\ AllowedExtent(n, OriginChain) = ReplayedLen
              /\ ReplayedExtent(n, OriginChain) = ReplayedLen
              /\ ChainFits(n, OriginChain)
         /\ \A a \in HeaderSlots \cup LogSpan : Hits(OriginChain, a) = {}
         /\ \A a \in Granules : Hits(OriginChain, a) = {} => ReplayedFile[a] = origin.file[a]
         /\ \A a \in Granules : a >= ReplayedLen => ReplayedFile[a] = Blank
         /\ DOMAIN ReplayedFile = Granules
         /\ \A a \in Granules : Parsed(ReplayedFile[a])
<1>0. /\ origin.len \in 0 .. MaxLen /\ MaxLen \in Nat /\ ParsedChain(OriginChain)
      /\ DOMAIN origin.file = Granules /\ ChainShape(OriginChain)
      /\ ChainOf(origin) = OriginChain
  BY ImageIs, PendingLog, ParsedShape DEF Pending, ChainOf, OriginChain, HeaderOf
<1>1. AllowedExtent(origin.len, OriginChain) \in origin.len .. MaxLen
      /\ ReplayedLen = AllowedExtent(origin.len, OriginChain)
  BY <1>0, ExtentIs, PendingChecks DEF ReplayedLen
<1>2. AllowedExtent(ReplayedLen, OriginChain) = ReplayedLen
  BY <1>0, <1>1, PendingChecks DEF Pending, ImagesReplayable, GrowsOnce
<1>3. ChainFits(origin.len, OriginChain) /\ ChainFits(ReplayedLen, OriginChain)
  BY <1>1, <1>2, PendingChecks DEF ChainFits
<1>4. ReplayedExtent(ReplayedLen, OriginChain) = ReplayedLen
  BY <1>0, <1>1, <1>2, <1>3, ExtentIs
<1>5. \A a \in HeaderSlots \cup LogSpan : Hits(OriginChain, a) = {}
  <2>1. LogApart(origin)
    BY <1>0, PendingChecks DEF Pending, ImagesReplayable
  <2>2. HeaderSlots \cup LogSpan \subseteq Granules
    BY AsideIs
  <2> QED
    BY <1>0, <2>1, <2>2 DEF LogApart, ChainsOf, LogSpan, FirstHeader
<1>6. \A a \in Granules :
        ReplayedFile[a] = IF Hits(OriginChain, a) = {} THEN origin.file[a]
                          ELSE At(OriginChain, LastHit(OriginChain, a)).content
  BY <1>0 DEF ReplayedFile, Replay
<1>7. ASSUME NEW a \in Granules, a >= ReplayedLen PROVE ReplayedFile[a] = Blank
  <2>1. Hits(OriginChain, a) = {}
    <3>1. SUFFICES ASSUME NEW p \in Hits(OriginChain, a) PROVE FALSE
      OBVIOUS
    <3>2. p \in Descriptors(OriginChain) /\ Covers(At(OriginChain, p), a)
      BY <3>1 DEF Hits
    <3>3. At(OriginChain, p).off \in Nat /\ At(OriginChain, p).len \in Nat
      BY <1>0, <3>2, ParsedShape
    <3>4. At(OriginChain, p).off + At(OriginChain, p).len <= ReplayedLen
      BY <1>1, <1>3, <3>2 DEF ChainFits, End
    <3> QED
      BY <1>0, <1>1, <1>7, <3>2, <3>3, <3>4 DEF Covers, Granules
  <2>2. a >= origin.len
    BY <1>0, <1>1, <1>7 DEF Granules
  <2> QED
    BY <1>6, <2>1, <2>2, ImageIs DEF Pending
<1>8. DOMAIN ReplayedFile = Granules
  BY <1>0 DEF ReplayedFile, Replay
<1>9. ASSUME NEW a \in Granules PROVE Parsed(ReplayedFile[a])
  <2>1. CASE Hits(OriginChain, a) = {}
    BY <1>6, <2>1, ImageIs DEF Pending
  <2>2. CASE Hits(OriginChain, a) # {}
    <3>1. LastHit(OriginChain, a) \in Descriptors(OriginChain)
      BY <1>0, <2>2, LastHitIs DEF Hits
    <3> QED
      BY <1>0, <1>6, <2>2, <3>1, ParsedShape
  <2> QED
    BY <2>1, <2>2
<1>10. \A a \in Granules : Hits(OriginChain, a) = {} => ReplayedFile[a] = origin.file[a]
  BY <1>6
<1>11. \A n \in {origin.len, ReplayedLen} :
         /\ AllowedExtent(n, OriginChain) = ReplayedLen
         /\ ReplayedExtent(n, OriginChain) = ReplayedLen
         /\ ChainFits(n, OriginChain)
  BY <1>1, <1>2, <1>3, <1>4 DEF ReplayedLen
<1> QED
  BY <1>1, <1>5, <1>7, <1>8, <1>9, <1>10, <1>11

-----------------------------------------------------------------------------
(***************************************************************************)
(* What the device calls do to the file of such an image.                  *)
(***************************************************************************)

(* A write of c to the granules of S, or a part of it. *)
Touched(S, c) ==
  /\ DOMAIN file' = Granules /\ len' = len /\ lenMay' = lenMay
  /\ \A a \in Granules : a \notin S => file'[a] = file[a] /\ may'[a] = may[a]
  /\ \A a \in Granules : file'[a] \in may'[a]
  /\ \A a \in Granules : file[a].kind # "log" => may'[a] \subseteq may[a] \cup {c, Torn}
  /\ \A a \in Granules : file[a].kind = "log" =>
       /\ file'[a] \in {c, file[a]} \cup Remnants(file[a])
       /\ may'[a] \subseteq may[a] \cup {file'[a]} \cup Remnants(file[a])

(* A write that goes through is one. *)
LEMMA WriteTouches ==
  ASSUME \A a \in Granules : file[a] \in may[a],
         NEW off, NEW n, NEW c, WriteSpan(off, n, c)
  PROVE  /\ Touched(off .. off + n - 1, c)
         /\ \A a \in Granules : a \in off .. off + n - 1 => file'[a] = c
<1> DEFINE S == off .. off + n - 1
<1>1. /\ file' = [a \in Granules |-> IF a \in S THEN c ELSE file[a]]
      /\ may' = [a \in Granules |-> IF a \in S THEN may[a] \cup {c} \cup Tears(a, c)
                                               ELSE may[a]]
      /\ len' = len /\ lenMay' = lenMay
  BY DEF WriteSpan
<1> HIDE DEF S
<1>2. \A a \in Granules :
        /\ file[a].kind # "log" => Tears(a, c) \subseteq {Torn}
        /\ file[a].kind = "log" => Tears(a, c) \subseteq Remnants(file[a])
  BY DEF Tears, InPart
<1>3. ASSUME NEW a \in Granules
      PROVE  /\ a \notin S => file'[a] = file[a] /\ may'[a] = may[a]
             /\ a \in S => file'[a] = c
             /\ file'[a] \in may'[a]
             /\ file[a].kind # "log" => may'[a] \subseteq may[a] \cup {c, Torn}
             /\ file[a].kind = "log" =>
                  /\ file'[a] \in {c, file[a]} \cup Remnants(file[a])
                  /\ may'[a] \subseteq may[a] \cup {file'[a]} \cup Remnants(file[a])
  BY <1>1, <1>2
<1>4. DOMAIN file' = Granules
  BY <1>1
<1> QED
  BY <1>1, <1>3, <1>4 DEF Touched, S

(* A write that failed at the granule off + k. *)
FailedAt(k, off, c) ==
  LET reached == off .. off + k - 1
      last == off + k
      log == IF file[off].kind = "log" THEN Remnants(file[off]) ELSE {} IN
  /\ \E first \in {c} \cup log,
        stop \in {file[last]} \cup (IF file[last] = c THEN {} ELSE InPart(last)) :
       file' = [a \in Granules |-> IF a = last THEN stop ELSE IF a = off THEN first
                                   ELSE IF a \in reached THEN c ELSE file[a]]
  /\ may' = [a \in Granules |->
       IF a \in reached \cup {last} THEN may[a] \cup {file'[a]} \cup Tears(a, c) ELSE may[a]]
  /\ UNCHANGED <<len, lenMay>>
LEMMA FailedIs ==
  ASSUME NEW off, NEW n, NEW c, FailSpan(off, n, c)
  PROVE  \E k \in 0 .. n - 1 : FailedAt(k, off, c)
BY DEF FailSpan, FailedAt

(* So is one that fails. *)
LEMMA FailTouches ==
  ASSUME \A a \in Granules : file[a] \in may[a],
         NEW off \in Nat, NEW n \in Nat, NEW c, FailSpan(off, n, c)
  PROVE  Touched(off .. off + n - 1, c)
<1>1. PICK k \in 0 .. n - 1 : FailedAt(k, off, c)
  BY FailedIs
<1> DEFINE S == off .. off + n - 1
           reached == off .. off + k - 1
           last == off + k
<1>2. reached \cup {last} \subseteq S
  OBVIOUS
<1> HIDE DEF S
<1>3. \A a \in Granules :
        /\ file[a].kind # "log" => Tears(a, c) \subseteq {Torn}
        /\ file[a].kind = "log" => Tears(a, c) \subseteq Remnants(file[a])
  BY DEF Tears, InPart
<1>4. ASSUME NEW a \in Granules
      PROVE  /\ a \notin reached \cup {last} => file'[a] = file[a]
             /\ file[a].kind # "log" => file'[a] \in {c, Torn, file[a]}
             /\ file[a].kind = "log" => file'[a] \in {c, file[a]} \cup Remnants(file[a])
             /\ may'[a] = IF a \in reached \cup {last} THEN may[a] \cup {file'[a]} \cup Tears(a, c)
                          ELSE may[a]
  BY <1>1 DEF FailedAt, InPart
<1> HIDE DEF reached, last
<1>5. ASSUME NEW a \in Granules
      PROVE  /\ a \notin S => file'[a] = file[a] /\ may'[a] = may[a]
             /\ file'[a] \in may'[a]
             /\ file[a].kind # "log" => may'[a] \subseteq may[a] \cup {c, Torn}
             /\ file[a].kind = "log" =>
                  /\ file'[a] \in {c, file[a]} \cup Remnants(file[a])
                  /\ may'[a] \subseteq may[a] \cup {file'[a]} \cup Remnants(file[a])
  <2>1. CASE a \notin reached \cup {last}
    BY <1>4, <2>1
  <2>2. CASE a \in reached \cup {last}
    <3>1. a \in S /\ may'[a] = may[a] \cup {file'[a]} \cup Tears(a, c)
      BY <1>2, <1>4, <2>2
    <3>2. CASE file[a].kind # "log"
      BY <1>3, <1>4, <3>1, <3>2
    <3>3. CASE file[a].kind = "log"
      BY <1>3, <1>4, <3>1, <3>3
    <3> QED
      BY <3>2, <3>3
  <2> QED
    BY <2>1, <2>2
<1>6. DOMAIN file' = Granules /\ len' = len /\ lenMay' = lenMay
  BY <1>1 DEF FailedAt
<1> QED
  BY <1>5, <1>6 DEF Touched, S

(* A step that leaves the device alone. *)
LEMMA FileSame ==
  ASSUME FileHolds, [Next]_vars, UNCHANGED devVars
  PROVE  FileHolds' /\ (Done => Done')
<1>1. file' = file /\ may' = may /\ len' = len /\ lenMay' = lenMay
  BY DEF devVars
<1>2. Done' = Done
  BY <1>1, OriginStays DEF Done
<1>3. DeviceHolds'
  BY <1>1, OriginStays DEF FileHolds, DeviceHolds
<1>4. HeadersHold'
  BY <1>1, OriginStays DEF FileHolds, HeadersHold
<1>5. LogHolds'
  BY <1>1, <1>2, OriginStays DEF FileHolds, LogHolds
<1>6. AsideHolds'
  BY <1>1, OriginStays DEF FileHolds, AsideHolds
<1> QED
  BY <1>2, <1>3, <1>4, <1>5, <1>6 DEF FileHolds

(* A flush. *)
LEMMA FileFlush ==
  ASSUME Pending, FileHolds, [Next]_vars, Flush
  PROVE  FileHolds' /\ (Done => Done') /\ \A a \in Granules : may'[a] = {file'[a]}
<1>1. /\ file' = file /\ len' = len /\ lenMay' = {len}
      /\ \A a \in Granules : may'[a] = {file[a]} /\ may[a] # {} /\ file[a] \in may[a]
      /\ len \in lenMay
  BY DEF Flush, FileHolds, DeviceHolds
<1>2. Aside \subseteq Granules /\ FirstSlot \in Granules /\ SpareSlot \in Granules
      /\ LogSpan \subseteq Granules /\ FirstHeader.off \in LogSpan
  BY AsideIs, PendingLog, SlotsAre
<1>3. Done => Done'
  BY <1>1, <1>2, OriginStays DEF Done
<1>4. DeviceHolds'
  BY <1>1, OriginStays DEF FileHolds, DeviceHolds
<1>5. HeadersHold'
  <2>1. may'[FirstSlot] = {FirstHeader}
    BY <1>1, <1>2 DEF FileHolds, HeadersHold
  <2>2. may'[SpareSlot] \subseteq {origin.file[SpareSlot], Torn, Consumed}
    BY <1>1, <1>2 DEF FileHolds, HeadersHold
  <2>3. ASSUME may'[SpareSlot] # {origin.file[SpareSlot]}
        PROVE  may'[FirstHeader.off] = {Blank}
    <3>1. may[SpareSlot] # {origin.file[SpareSlot]}
      BY <1>1, <1>2, <2>3
    <3>2. may[FirstHeader.off] = {Blank}
      BY <3>1 DEF FileHolds, HeadersHold
    <3> QED
      BY <1>1, <1>2, <3>2
  <2> QED
    BY <2>1, <2>2, <2>3, OriginStays DEF HeadersHold
<1>6. LogHolds'
  <2>1. may'[FirstHeader.off] \subseteq Remains /\ file'[FirstHeader.off] \in {LogGranule, Blank}
    BY <1>1, <1>2 DEF FileHolds, LogHolds, Remains
  <2>2. Blank \in may'[FirstHeader.off] => file'[FirstHeader.off] = Blank /\ Done'
    BY <1>1, <1>2, <1>3 DEF FileHolds, LogHolds
  <2>3. (\E a \in LogSpan : may'[a] # {origin.file[a]}) =>
          \E a \in LogSpan : may[a] # {origin.file[a]}
    BY <1>1, <1>2
  <2> QED
    BY <2>1, <2>2, <2>3, OriginStays DEF FileHolds, LogHolds
<1>7. AsideHolds'
  BY <1>1, <1>2, OriginStays DEF FileHolds, AsideHolds
<1> QED
  BY <1>1, <1>3, <1>4, <1>5, <1>6, <1>7 DEF FileHolds

(* A power loss. *)
LEMMA FileCrash ==
  ASSUME Pending, ImagesReplayable, FileHolds, [Next]_vars, LosePower,
         file'[FirstHeader.off] \in {LogGranule, Blank}
  PROVE  FileHolds'
<1>1. PICK n \in lenMay :
        /\ len' = n /\ lenMay' = {n} /\ DOMAIN file' = Granules
        /\ may' = [a \in Granules |-> {file'[a]}]
        /\ \A a \in Granules : a < n => file'[a] \in may[a]
        /\ \A a \in Granules : ~(a < n) => file'[a] = Blank
  BY PowerLoss DEF FileHolds, DeviceHolds
<1>2. \A a \in Granules : may'[a] = {file'[a]}
  BY <1>1
<1>3. n \in {origin.len, ReplayedLen} /\ n \in Nat /\ n >= origin.len /\ origin.len \in Nat
      /\ ReplayedLen \in Nat
  BY ImageIs, PendingReplay DEF FileHolds, DeviceHolds, Pending
<1>4. Aside \subseteq Granules /\ FirstSlot \in Granules /\ SpareSlot \in Granules
      /\ LogSpan \subseteq Granules /\ FirstHeader.off \in LogSpan
  BY AsideIs, PendingLog, SlotsAre
<1>5. FirstSlot < n /\ SpareSlot < n /\ \A a \in LogSpan : a < n
  <2>1. FirstSlot < origin.len /\ SpareSlot < origin.len
    BY PendingHeader, SlotsAre
  <2>2. \A a \in LogSpan : a \in Nat /\ a < origin.len
    BY <1>4, PendingLog DEF Granules
  <2> QED
    BY <1>3, <2>1, <2>2, SlotsAre
<1>6. Done => Done'
  <2> SUFFICES ASSUME Done PROVE Done'
    OBVIOUS
  <2>1. n = ReplayedLen
    BY DEF Done
  <2>2. ASSUME NEW a \in Aside PROVE may'[a] = {ReplayedFile[a]}
    <3>1. CASE a < n
      BY <1>1, <1>2, <1>4, <3>1 DEF Done
    <3>2. CASE ~(a < n)
      <4>1. a \in Granules /\ a >= ReplayedLen
        BY <1>3, <1>4, <2>1, <3>2 DEF Granules
      <4> QED
        BY <1>1, <1>2, <3>2, <4>1, PendingReplay
    <3> QED
      BY <3>1, <3>2
  <2> QED
    BY <1>1, <2>1, <2>2, OriginStays DEF Done
<1>7. DeviceHolds'
  BY <1>1, <1>2, <1>3, OriginStays DEF DeviceHolds
<1>8. HeadersHold'
  <2>1. may'[FirstSlot] = {FirstHeader}
    BY <1>1, <1>2, <1>4, <1>5 DEF FileHolds, HeadersHold
  <2>2. file'[SpareSlot] \in may[SpareSlot] /\ may'[SpareSlot] = {file'[SpareSlot]}
    BY <1>1, <1>2, <1>4, <1>5
  <2>3. file'[FirstHeader.off] \in may[FirstHeader.off]
        /\ may'[FirstHeader.off] = {file'[FirstHeader.off]}
    BY <1>1, <1>2, <1>4, <1>5
  <2>4. may'[SpareSlot] # {origin.file[SpareSlot]} => may'[FirstHeader.off] = {Blank}
    BY <2>2, <2>3 DEF FileHolds, HeadersHold
  <2>5. may'[SpareSlot] \subseteq {origin.file[SpareSlot], Torn, Consumed}
    BY <2>2 DEF FileHolds, HeadersHold
  <2> QED
    BY <2>1, <2>4, <2>5, OriginStays DEF HeadersHold
<1>9. LogHolds'
  <2>1. \A a \in LogSpan : file'[a] \in may[a] /\ may'[a] = {file'[a]}
    BY <1>1, <1>2, <1>4, <1>5
  <2>2. may'[FirstHeader.off] \subseteq Remains
    BY <1>4, <2>1 DEF FileHolds, LogHolds, Remains
  <2>3. Blank \in may'[FirstHeader.off] => file'[FirstHeader.off] = Blank /\ Done'
    BY <1>4, <1>6, <2>1 DEF FileHolds, LogHolds
  <2>4. (\E a \in LogSpan : may'[a] # {origin.file[a]}) =>
          \E a \in LogSpan : may[a] # {origin.file[a]}
    BY <2>1
  <2> QED
    BY <2>2, <2>3, <2>4, OriginStays DEF FileHolds, LogHolds
<1>10. AsideHolds'
  <2> SUFFICES ASSUME NEW a \in Aside
               PROVE  may'[a] \subseteq {origin.file[a]} \cup AppliedAt(a)
                                         \cup (IF AppliedAt(a) = {} THEN {} ELSE {Torn})
    BY OriginStays DEF AsideHolds
  <2>1. CASE a < n
    BY <1>1, <1>2, <1>4, <2>1 DEF FileHolds, AsideHolds
  <2>2. CASE ~(a < n)
    <3>1. a \in Granules /\ a >= origin.len
      BY <1>3, <1>4, <2>2 DEF Granules
    <3>2. origin.file[a] = Blank
      BY <3>1, ImageIs DEF Pending
    <3> QED
      BY <1>1, <1>2, <2>2, <3>1, <3>2
  <2> QED
    BY <2>1, <2>2
<1> QED
  BY <1>7, <1>8, <1>9, <1>10 DEF FileHolds

(* The file is made as long as the log needs. *)
LEMMA FileGrows ==
  ASSUME Pending, ImagesReplayable, FileHolds, [Next]_vars, SetLen(ReplayedLen),
         file[FirstHeader.off] = LogGranule
  PROVE  FileHolds'
<1>1. file' = file /\ may' = may /\ len' = ReplayedLen /\ lenMay' = lenMay \cup {ReplayedLen}
  BY DEF SetLen
<1>2. Blank \notin may[FirstHeader.off]
  BY PendingLog DEF FileHolds, LogHolds
<1>3. DeviceHolds'
  BY <1>1, OriginStays DEF FileHolds, DeviceHolds
<1>4. HeadersHold'
  BY <1>1, OriginStays DEF FileHolds, HeadersHold
<1>5. LogHolds'
  BY <1>1, <1>2, OriginStays DEF FileHolds, LogHolds
<1>6. AsideHolds'
  BY <1>1, OriginStays DEF FileHolds, AsideHolds
<1> QED
  BY <1>3, <1>4, <1>5, <1>6 DEF FileHolds

(* Where a descriptor writes there is no log. *)
LEMMA NoLogAside ==
  ASSUME Pending, ImagesReplayable, DeviceHolds, AsideHolds, NEW a \in Aside,
         Hits(OriginChain, a) # {}
  PROVE  file[a].kind # "log"
<1>1. a \in Granules /\ file[a] \in may[a]
  BY AsideIs DEF DeviceHolds
<1>2. LogApart(origin) /\ ChainOf(origin) = OriginChain
  BY PendingChecks DEF Pending, ImagesReplayable, ChainOf, OriginChain, HeaderOf
<1>3. /\ origin.file[a].kind # "log"
      /\ \A p \in Hits(OriginChain, a) : At(OriginChain, p).content.kind # "log"
  BY <1>1, <1>2 DEF LogApart, ChainsOf
<1>4. file[a] \in {origin.file[a]} \cup AppliedAt(a) \cup {Torn}
  BY <1>1 DEF AsideHolds
<1> QED
  BY <1>3, <1>4 DEF AppliedAt, Torn

(* A descriptor of the log is written, in full or in part. *)
LEMMA FileApplies ==
  ASSUME Pending, ImagesReplayable, FileHolds, [Next]_vars,
         file[FirstHeader.off] = LogGranule,
         NEW q \in Descriptors(OriginChain),
         Touched(At(OriginChain, q).off .. At(OriginChain, q).off + At(OriginChain, q).len - 1,
                 At(OriginChain, q).content)
  PROVE  FileHolds' /\ file'[FirstHeader.off] = LogGranule
<1> DEFINE d == At(OriginChain, q)
           S == d.off .. d.off + d.len - 1
<1>1. \A a \in Granules : a \in S => q \in Hits(OriginChain, a) /\ d.content \in AppliedAt(a)
  BY DEF Hits, Covers, AppliedAt
<1>2. \A a \in HeaderSlots \cup LogSpan : a \in Granules /\ a \notin S
  BY <1>1, AsideIs, PendingReplay
<1>3. Touched(S, d.content)
  OBVIOUS
<1>11. \A a \in Aside : a \in S => file[a].kind # "log"
  BY <1>1, AsideIs, NoLogAside DEF FileHolds
<1> HIDE DEF S, d
<1>4. \A a \in HeaderSlots \cup LogSpan : file'[a] = file[a] /\ may'[a] = may[a]
  BY <1>2, <1>3 DEF Touched
<1>5. FirstSlot \in HeaderSlots /\ SpareSlot \in HeaderSlots /\ FirstHeader.off \in LogSpan
  BY SlotsAre, PendingLog
<1>6. Blank \notin may'[FirstHeader.off] /\ file'[FirstHeader.off] = LogGranule
      /\ may'[FirstHeader.off] \subseteq Remains
  BY <1>4, <1>5, PendingLog DEF FileHolds, LogHolds
<1>7. DeviceHolds'
  BY <1>3, OriginStays DEF FileHolds, DeviceHolds, Touched
<1>8. HeadersHold'
  BY <1>4, <1>5, OriginStays DEF FileHolds, HeadersHold
<1>9. LogHolds'
  <2>1. (\E a \in LogSpan : may'[a] # {origin.file[a]}) =>
          \E a \in LogSpan : may[a] # {origin.file[a]}
    BY <1>4
  <2> QED
    BY <1>6, <2>1, OriginStays DEF FileHolds, LogHolds
<1>10. AsideHolds'
  <2> SUFFICES ASSUME NEW a \in Aside
               PROVE  may'[a] \subseteq {origin.file[a]} \cup AppliedAt(a)
                                         \cup (IF AppliedAt(a) = {} THEN {} ELSE {Torn})
    BY OriginStays DEF AsideHolds
  <2>0. a \in Granules
    BY AsideIs
  <2>1. CASE a \notin S
    BY <1>3, <2>0, <2>1 DEF FileHolds, AsideHolds, Touched
  <2>2. CASE a \in S
    <3>1. may'[a] \subseteq may[a] \cup {d.content, Torn} /\ d.content \in AppliedAt(a)
      BY <1>1, <1>3, <1>11, <2>0, <2>2 DEF Touched
    <3>2. may[a] \subseteq {origin.file[a]} \cup AppliedAt(a) \cup {Torn}
      BY DEF FileHolds, AsideHolds
    <3> QED
      BY <3>1, <3>2
  <2> QED
    BY <2>1, <2>2
<1> QED
  BY <1>6, <1>7, <1>8, <1>9, <1>10 DEF FileHolds

(* The log is erased, in full or in part. *)
LEMMA FileErases ==
  ASSUME Pending, FileHolds, [Next]_vars, file[FirstHeader.off] = LogGranule, Done,
         CheckRegions(ReplayedFile, ReplayedLen, FirstHeader) = "ok",
         Touched(LogSpan, Blank), file'[FirstHeader.off] \in {LogGranule, Blank}
  PROVE  FileHolds' /\ Done'
<1>1. \A a \in Granules : a \notin LogSpan => file'[a] = file[a] /\ may'[a] = may[a]
  BY DEF Touched
<1>2. Done'
  BY <1>1, AsideIs, OriginStays DEF Done, Touched
<1>3. /\ FirstHeader.off \in Granules /\ may[FirstHeader.off] \subseteq Remains
      /\ Blank \notin may[FirstHeader.off]
  BY PendingLog DEF FileHolds, LogHolds
<1>4. /\ may'[FirstHeader.off] \subseteq Remains
      /\ file'[FirstHeader.off] = Blank \/ Blank \notin may'[FirstHeader.off]
  BY <1>3, PendingLog DEF Touched, Remains
<1>5. DeviceHolds'
  BY OriginStays DEF FileHolds, DeviceHolds, Touched
<1>6. HeadersHold'
  <2>1. FirstSlot \in Granules \ LogSpan /\ SpareSlot \in Granules \ LogSpan
    BY AsideIs, SlotsAre
  <2>2. may[SpareSlot] = {origin.file[SpareSlot]}
    BY <1>3, PendingLog DEF FileHolds, HeadersHold, DeviceHolds
  <2>3. may'[FirstSlot] = may[FirstSlot] /\ may'[SpareSlot] = may[SpareSlot]
    BY <1>1, <2>1
  <2> QED
    BY <2>2, <2>3, OriginStays DEF FileHolds, HeadersHold
<1>7. LogHolds'
  <2>1. Blank \in may'[FirstHeader.off] => file'[FirstHeader.off] = Blank /\ Done'
    BY <1>2, <1>4, PendingLog
  <2> QED
    BY <1>4, <2>1, OriginStays DEF LogHolds
<1>8. AsideHolds'
  BY <1>1, AsideIs, OriginStays DEF FileHolds, AsideHolds
<1> QED
  BY <1>2, <1>5, <1>6, <1>7, <1>8 DEF FileHolds

(* Nor is there one in a header slot. *)
LEMMA NoLogSpare ==
  ASSUME Pending, ImagesReplayable, HeadersHold, \A a \in Granules : file[a] \in may[a]
  PROVE  file[SpareSlot].kind # "log"
<1>1. SpareSlot \in Granules /\ ~(SpareSlot >= MIB)
  BY PendingHeader, SlotsAre, PipelineAssumption
<1>2. origin.file[SpareSlot].kind # "log"
  BY <1>1, ImageIs DEF Pending
<1>3. file[SpareSlot] \in {origin.file[SpareSlot], Torn, Consumed}
  BY <1>1 DEF HeadersHold
<1> QED
  BY <1>2, <1>3, ConsumedIs DEF Torn

(* The header that says there is no log is written, or torn. *)
LEMMA FileClears ==
  ASSUME Pending, ImagesReplayable, FileHolds, [Next]_vars, may[FirstHeader.off] = {Blank}, Done,
         Touched({SpareSlot}, Consumed)
  PROVE  FileHolds' /\ Done' /\ may'[FirstHeader.off] = {Blank}
         /\ file'[FirstHeader.off] = file[FirstHeader.off]
<1>1. \A a \in Granules : a # SpareSlot => file'[a] = file[a] /\ may'[a] = may[a]
  BY DEF Touched
<1>2. Done'
  BY <1>1, AsideIs, OriginStays DEF Done, Touched
<1>3. LogSpan \subseteq Granules /\ FirstHeader.off \in LogSpan /\ SpareSlot \notin LogSpan
      /\ FirstSlot \in Granules /\ FirstSlot # SpareSlot /\ SpareSlot \in Granules
  BY AsideIs, SlotsAre, PendingLog
<1>4. \A a \in LogSpan : file'[a] = file[a] /\ may'[a] = may[a]
  BY <1>1, <1>3
<1>5. DeviceHolds'
  BY OriginStays DEF FileHolds, DeviceHolds, Touched
<1>6. HeadersHold'
  <2>0. file[SpareSlot].kind # "log"
    BY NoLogSpare DEF FileHolds, DeviceHolds
  <2>1. may'[SpareSlot] \subseteq {origin.file[SpareSlot], Torn, Consumed}
    BY <1>3, <2>0 DEF FileHolds, HeadersHold, Touched
  <2>2. may'[FirstSlot] = {FirstHeader}
    BY <1>1, <1>3 DEF FileHolds, HeadersHold
  <2>3. may'[FirstHeader.off] = {Blank}
    BY <1>3, <1>4
  <2> QED
    BY <2>1, <2>2, <2>3, OriginStays DEF HeadersHold
<1>7. LogHolds'
  <2>1. (\E a \in LogSpan : may'[a] # {origin.file[a]}) =>
          \E a \in LogSpan : may[a] # {origin.file[a]}
    BY <1>4
  <2>2. may'[FirstHeader.off] = may[FirstHeader.off]
        /\ file'[FirstHeader.off] = file[FirstHeader.off]
    BY <1>3, <1>4
  <2> QED
    BY <1>2, <2>1, <2>2, OriginStays DEF FileHolds, LogHolds
<1>8. AsideHolds'
  BY <1>1, AsideIs, OriginStays DEF FileHolds, AsideHolds
<1> QED
  BY <1>2, <1>3, <1>4, <1>5, <1>6, <1>7, <1>8 DEF FileHolds

-----------------------------------------------------------------------------
(***************************************************************************)
(* What an open finds in such a file.                                      *)
(***************************************************************************)

(* The length is the first one or the last one. *)
LEMMA LengthIs ==
  ASSUME Pending, ImagesReplayable, DeviceHolds
  PROVE  /\ len \in {origin.len, ReplayedLen} /\ len \in MIB .. MaxLen /\ len >= origin.len
         /\ len \in Nat /\ 0 < len /\ 1 < len /\ 2 < len /\ 3 < len /\ 4 < len
         /\ lenMay \subseteq MIB .. MaxLen
<1>1. origin.len \in MIB .. MaxLen /\ MIB \in Nat /\ MIB >= 5 /\ MaxLen \in Nat
  BY ImageIs DEF Pending
<1>2. ReplayedLen \in origin.len .. MaxLen
  BY PendingReplay
<1> QED
  BY <1>1, <1>2 DEF DeviceHolds

(* The header an open picks is the first, until the replay has written     *)
(* its own.                                                                *)
LEMMA HeaderPicked ==
  ASSUME Pending, ImagesReplayable, HeadersHold, \A a \in Granules : file[a] \in may[a],
         len \in Nat, 2 < len
  PROVE  /\ HasHeader(file, len)
         /\ file[SpareSlot] # Consumed =>
              PickSlot(file, len) = FirstSlot /\ PickHeader(file, len) = FirstHeader
         /\ file[SpareSlot] = Consumed =>
              PickSlot(file, len) = SpareSlot /\ PickHeader(file, len) = Consumed
<1>1. 1 < len /\ 2 < len
  OBVIOUS
<1>2. FirstSlot \in Granules /\ SpareSlot \in Granules
  BY PendingHeader, SlotsAre
<1>3. file[FirstSlot] = FirstHeader /\ file[SpareSlot] \in {origin.file[SpareSlot], Torn, Consumed}
  BY <1>2 DEF HeadersHold
<1>4. FirstHeader.kind = "header" /\ FirstHeader.seq \in Nat
  BY PendingHeader, ConsumedIs
<1>5. HasHeader(file, len)
  BY <1>1, <1>3, <1>4, SlotsAre DEF HasHeader, Parses, HeaderOffset
<1>6. ASSUME file[SpareSlot] # Consumed
      PROVE  PickSlot(file, len) = FirstSlot
  <2>1. file[SpareSlot].kind = "header" => file[SpareSlot] = origin.file[SpareSlot]
    BY <1>3, <1>6 DEF Torn
  <2>2. file[SpareSlot].kind = "header" =>
          /\ file[SpareSlot].seq \in Nat /\ file[SpareSlot].seq <= FirstHeader.seq
          /\ SpareSlot = 1 => file[SpareSlot].seq < FirstHeader.seq
    BY <2>1, ConsumedIs
  <2>3. CASE FirstSlot = 1
    BY <1>1, <1>3, <1>4, <2>2, <2>3, SlotsAre DEF PickSlot, Parses, HeaderOffset
  <2>4. CASE FirstSlot = 2
    BY <1>1, <1>3, <1>4, <2>2, <2>4, SlotsAre DEF PickSlot, Parses, HeaderOffset
  <2> QED
    BY <2>3, <2>4, SlotsAre
<1>7. ASSUME file[SpareSlot] = Consumed
      PROVE  PickSlot(file, len) = SpareSlot
  <2>1. file[SpareSlot].kind = "header" /\ file[SpareSlot].seq = FirstHeader.seq + 1
    BY <1>7, ConsumedIs
  <2>2. CASE FirstSlot = 1
    BY <1>1, <1>3, <1>4, <2>1, <2>2, SlotsAre DEF PickSlot, Parses, HeaderOffset
  <2>3. CASE FirstSlot = 2
    BY <1>1, <1>3, <1>4, <2>1, <2>3, SlotsAre DEF PickSlot, Parses, HeaderOffset
  <2> QED
    BY <2>2, <2>3, SlotsAre
<1> QED
  BY <1>3, <1>5, <1>6, <1>7 DEF PickHeader, HeaderOffset

(* It finds the whole chain or none, and none only when it is done with.   *)
LEMMA ChainFound ==
  ASSUME Pending, ImagesReplayable, FileHolds
  PROVE  LET found == CollectReplayChain(file, PickHeader(file, len)) IN
         \/ /\ found = [error |-> "ok", chain |-> OriginChain]
            /\ PickHeader(file, len) = FirstHeader /\ PickSlot(file, len) = FirstSlot
            /\ file[FirstHeader.off] = LogGranule
         \/ /\ found = NoChain /\ Done
            /\ PickHeader(file, len) \in {FirstHeader, Consumed}
<1> DEFINE h == PickHeader(file, len)
<1>1. FirstHeader.off \in Granules /\ file[FirstHeader.off] \in may[FirstHeader.off]
      /\ DOMAIN file = Granules
  BY PendingLog DEF FileHolds, DeviceHolds
<1>0. HeadersHold /\ (\A a \in Granules : file[a] \in may[a]) /\ len \in Nat /\ 2 < len
  BY LengthIs DEF FileHolds, DeviceHolds
<1>2. CASE file[SpareSlot] = Consumed
  <2>1. h = Consumed /\ Consumed.guid = NoGuid
    BY <1>0, <1>2, HeaderPicked, ConsumedIs
  <2>2. CollectReplayChain(file, h) = NoChain
    BY <2>1 DEF CollectReplayChain
  <2>3. may[SpareSlot] # {origin.file[SpareSlot]}
    BY <1>2, SlotsAre, PendingHeader, ConsumedIs DEF FileHolds, DeviceHolds
  <2>4. Done
    BY <2>3 DEF FileHolds, HeadersHold, LogHolds
  <2> QED
    BY <2>1, <2>2, <2>4
<1>3. CASE file[SpareSlot] # Consumed /\ file[FirstHeader.off] = Blank
  <2>1. h = FirstHeader
    BY <1>0, <1>3, HeaderPicked
  <2>2. file[h.off].kind # "log"
    BY <1>3, <2>1 DEF Blank
  <2>3. CollectReplayChain(file, h) = NoChain
    BY <2>2 DEF CollectReplayChain
  <2>4. Done
    BY <1>1, <1>3 DEF FileHolds, LogHolds
  <2> QED
    BY <2>1, <2>3, <2>4
<1>4. CASE file[SpareSlot] # Consumed /\ file[FirstHeader.off] # Blank
  <2>1. h = FirstHeader /\ PickSlot(file, len) = FirstSlot
    BY <1>0, <1>4, HeaderPicked
  <2>2. file[FirstHeader.off] = LogGranule
    BY <1>1, <1>4 DEF FileHolds, LogHolds
  <2>3. FirstHeader.len > 0 /\ FirstHeader.off > 0 /\ FirstHeader.guid # NoGuid
    BY PendingLog, PipelineAssumption
  <2>4. LogGranule.kind = "log" /\ LogGranule.guid = FirstHeader.guid
        /\ LogGranule.error = "ok" /\ LogGranule.chain = OriginChain
    BY PendingLog
  <2>5. CollectReplayChain(file, FirstHeader) = [error |-> "ok", chain |-> OriginChain]
    BY <1>1, <2>2, <2>3, <2>4 DEF CollectReplayChain
  <2> QED
    BY <2>1, <2>2, <2>5
<1> QED
  BY <1>2, <1>3, <1>4

(* Where the log has been applied, the tables are the replayed ones. *)
LEMMA TableFound ==
  ASSUME Pending, ImagesReplayable, FileHolds, Done, NEW h \in {FirstHeader, Consumed}
  PROVE  /\ len = ReplayedLen /\ PickRegionTable(file, len) = ReplayedTable
         /\ CheckRegions(file, len, h) = CheckRegions(ReplayedFile, ReplayedLen, FirstHeader)
<1>1. len = ReplayedLen
  BY DEF FileHolds, DeviceHolds, Done
<1>2. \A a \in Aside : file[a] = ReplayedFile[a]
  BY AsideIs DEF FileHolds, DeviceHolds, Done
<1>3. file[3] = ReplayedFile[3] /\ file[4] = ReplayedFile[4]
  BY <1>2, AsideIs
<1>4. RegionTableOffset(1) = 3 /\ RegionTableOffset(2) = 4
  BY DEF RegionTableOffset
<1>5. /\ PickRegionTable(file, len) = ReplayedTable
      /\ CheckRegions(file, len, h) = CheckRegions(ReplayedFile, ReplayedLen, h)
  BY <1>1, <1>3, <1>4, SameTables DEF ReplayedTable
<1>6. h.off = FirstHeader.off /\ h.len = FirstHeader.len
  BY ConsumedIs
<1>7. \A t : LogRegionClear(t, h) = LogRegionClear(t, FirstHeader)
  BY <1>6 DEF LogRegionClear
<1>8. CheckRegions(ReplayedFile, ReplayedLen, h)
        = CheckRegions(ReplayedFile, ReplayedLen, FirstHeader)
  BY <1>7 DEF CheckRegions
<1> QED
  BY <1>1, <1>5, <1>8

-----------------------------------------------------------------------------
(***************************************************************************)
(* The invariant of such an image, action by action.                       *)
(***************************************************************************)
PendingHolds == FileHolds /\ ReplayHolds /\ EndHolds

(* Nothing is asked of an open that is over. *)
LEMMA Over ==
  ASSUME phase' \in {"closed", "refused"}
  PROVE  ReplayHolds' /\ EndHolds'
<1>1. ReplayHolds'
  BY DEF ReplayHolds, Replaying
<1>2. EndHolds'
  BY DEF EndHolds
<1> QED
  BY <1>1, <1>2

(* The first image satisfies it. *)
LEMMA PendingInit ==
  ASSUME Init, ~Idle, ImagesReplayable
  PROVE  PendingHolds
<1>0. Pending
  BY DEF Init, Pending
<1>1. /\ file = origin.file /\ len = origin.len /\ lenMay = {len} /\ phase = "closed"
      /\ \A a \in Granules : may[a] = {file[a]}
      /\ DOMAIN file = Granules
  BY ImageIs DEF Init
<1>2. Aside \subseteq Granules /\ FirstSlot \in Granules /\ SpareSlot \in Granules
      /\ LogSpan \subseteq Granules /\ FirstHeader.off \in LogSpan
  BY <1>0, AsideIs, PendingLog, SlotsAre
<1>3. DeviceHolds
  BY <1>1 DEF DeviceHolds
<1>4. HeadersHold
  BY <1>0, <1>1, <1>2, PendingHeader DEF HeadersHold
<1>5. LogHolds
  <2>1. file[FirstHeader.off] = LogGranule /\ LogGranule # Blank
    BY <1>0, <1>1, <1>2, PendingLog DEF LogGranule
  <2>2. \A a \in LogSpan : may[a] = {origin.file[a]}
    BY <1>1, <1>2
  <2> QED
    BY <1>1, <1>2, <2>1, <2>2 DEF LogHolds, Remains
<1>6. AsideHolds
  BY <1>1, <1>2 DEF AsideHolds
<1>7. ReplayHolds /\ EndHolds
  BY <1>1 DEF ReplayHolds, EndHolds, Replaying
<1> QED
  BY <1>3, <1>4, <1>5, <1>6, <1>7 DEF PendingHolds, FileHolds

(* OpenStart: the first open, or one that finds what another left. *)
LEMMA PendingOpenStart ==
  ASSUME Pending, ImagesReplayable, PendingHolds, [Next]_vars, OpenStart
  PROVE  PendingHolds'
<1>1. UNCHANGED devVars
  BY DEF OpenStart
<1>2. FileHolds' /\ (Done => Done')
  BY <1>1, FileSame DEF PendingHolds
<1> DEFINE found == CollectReplayChain(file, PickHeader(file, len))
<1>3. header' = PickHeader(file, len) /\ slot' = PickSlot(file, len) /\ devSize' = len
      /\ len' = len /\ may' = may /\ file' = file
  BY <1>1 DEF OpenStart, devVars
<1>4. CASE CheckBeforeReplay(file, len) # "ok"
  <2>1. phase' = "refused"
    BY <1>4 DEF OpenStart, Refuse
  <2> QED
    BY <1>2, <2>1, Over DEF PendingHolds
<1>5. CASE CheckBeforeReplay(file, len) = "ok" /\ found = NoChain
  <2>0. found.chain = << >>
    BY <1>5 DEF NoChain
  <2>1. phase' = "regions" /\ ~replayed'
    BY <1>5, <2>0 DEF OpenStart, Stage
  <2>2. Done /\ PickHeader(file, len) \in {FirstHeader, Consumed}
    <3>1. OriginChain # << >>
      BY PendingChecks
    <3> QED
      BY <1>5, <3>1, ChainFound DEF NoChain, PendingHolds
  <2>3. ReplayHolds'
    BY <2>1 DEF ReplayHolds, Replaying
  <2>4. EndHolds'
    BY <1>2, <1>3, <2>1, <2>2, OriginStays DEF EndHolds
  <2> QED
    BY <1>2, <2>3, <2>4 DEF PendingHolds
<1>6. CASE CheckBeforeReplay(file, len) = "ok" /\ found # NoChain
  <2>1. /\ found = [error |-> "ok", chain |-> OriginChain]
        /\ PickHeader(file, len) = FirstHeader /\ PickSlot(file, len) = FirstSlot
        /\ file[FirstHeader.off] = LogGranule /\ OriginChain # << >>
    BY <1>6, ChainFound, PendingChecks DEF PendingHolds
  <2>2. \/ phase' = "refused"
        \/ phase' = "grow" /\ replayed' = TRUE /\ todo' = OriginChain
    BY <1>6, <2>1 DEF OpenStart, Stage, Refuse
  <2>3. CASE phase' = "grow" /\ replayed' = TRUE /\ todo' = OriginChain
    <3>1. ReplayHolds'
      BY <1>3, <2>1, <2>3, OriginStays DEF ReplayHolds, Replaying
    <3>2. EndHolds'
      BY <2>3 DEF EndHolds
    <3> QED
      BY <1>2, <3>1, <3>2 DEF PendingHolds
  <2> QED
    BY <1>2, <2>2, <2>3, Over DEF PendingHolds
<1> QED
  BY <1>4, <1>5, <1>6

(* What there is left of an untouched chain makes the replayed file. *)
LEMMA WholeChain ==
  ASSUME Pending, ImagesReplayable, FileHolds
  PROVE  \A a \in Aside : Replay(file, OriginChain)[a] = ReplayedFile[a]
<1> SUFFICES ASSUME NEW a \in Aside PROVE Replay(file, OriginChain)[a] = ReplayedFile[a]
  OBVIOUS
<1>1. a \in Granules /\ DOMAIN file = Granules /\ file[a] \in may[a]
  BY AsideIs DEF FileHolds, DeviceHolds
<1>2. Replay(file, OriginChain)[a] = IF Hits(OriginChain, a) = {} THEN file[a]
                                     ELSE At(OriginChain, LastHit(OriginChain, a)).content
  BY <1>1 DEF Replay
<1>3. ReplayedFile[a] = IF Hits(OriginChain, a) = {} THEN origin.file[a]
                        ELSE At(OriginChain, LastHit(OriginChain, a)).content
  <2>1. DOMAIN origin.file = Granules
    BY ImageIs DEF Pending
  <2> QED
    BY <1>1, <2>1 DEF ReplayedFile, Replay
<1>4. Hits(OriginChain, a) = {} => file[a] = origin.file[a]
  <2> SUFFICES ASSUME Hits(OriginChain, a) = {} PROVE file[a] = origin.file[a]
    OBVIOUS
  <2>1. AppliedAt(a) = {}
    BY DEF AppliedAt
  <2> QED
    BY <1>1, <2>1 DEF FileHolds, AsideHolds
<1> QED
  BY <1>2, <1>3, <1>4

(* The chain fits a file of either length, and asks for the last one. *)
LEMMA RoomFits ==
  ASSUME Pending, ImagesReplayable, PendingHolds, phase = "grow"
  PROVE  /\ replayed /\ todo = OriginChain /\ devSize = len
         /\ header = FirstHeader /\ slot = FirstSlot /\ file[FirstHeader.off] = LogGranule
         /\ len \in Nat /\ ReplayedLen \in Nat /\ len <= ReplayedLen
         /\ AllowedExtent(devSize, todo) = ReplayedLen
         /\ ReplayedExtent(devSize, todo) = ReplayedLen
         /\ ChainFits(devSize, todo)
<1>1. /\ replayed /\ todo = OriginChain /\ devSize = len
      /\ header = FirstHeader /\ slot = FirstSlot /\ file[FirstHeader.off] = LogGranule
  BY DEF PendingHolds, ReplayHolds, Replaying
<1>2. len \in {origin.len, ReplayedLen} /\ len \in Nat /\ ReplayedLen \in Nat
      /\ origin.len <= ReplayedLen
  BY LengthIs, PendingReplay DEF PendingHolds, FileHolds
<1>3. /\ AllowedExtent(devSize, todo) = ReplayedLen /\ ReplayedExtent(devSize, todo) = ReplayedLen
      /\ ChainFits(devSize, todo)
  BY <1>1, <1>2, PendingReplay
<1> QED
  BY <1>1, <1>2, <1>3

(* MakeRoom: the file gets its last length, whichever it has. *)
LEMMA PendingMakeRoom ==
  ASSUME Pending, ImagesReplayable, PendingHolds, [Next]_vars, MakeRoom
  PROVE  PendingHolds'
<1>1. /\ phase = "grow" /\ replayed /\ todo = OriginChain /\ devSize = len
      /\ header = FirstHeader /\ slot = FirstSlot /\ file[FirstHeader.off] = LogGranule
      /\ len \in Nat /\ ReplayedLen \in Nat /\ len <= ReplayedLen
  BY RoomFits DEF MakeRoom
<1>3. /\ AllowedExtent(devSize, todo) = ReplayedLen /\ ReplayedExtent(devSize, todo) = ReplayedLen
      /\ ChainFits(devSize, todo)
  BY <1>1, RoomFits
<1>4. /\ phase' = "apply" /\ devSize' = ReplayedLen
      /\ UNCHANGED <<header, slot, todo, replayed>>
      /\ IF ReplayedLen > len THEN SetLen(ReplayedLen) ELSE UNCHANGED devVars
  BY <1>3 DEF MakeRoom
<1>5. /\ FileHolds' /\ len' = ReplayedLen /\ may' = may /\ file' = file
  <2>1. CASE ReplayedLen > len
    BY <1>1, <1>4, <2>1, FileGrows DEF PendingHolds, SetLen
  <2>2. CASE ~(ReplayedLen > len)
    <3>1. len = ReplayedLen
      BY <1>1, <2>2
    <3> QED
      BY <1>4, <2>2, <3>1, FileSame DEF PendingHolds, devVars
  <2> QED
    BY <2>1, <2>2
<1>6. /\ OriginChain # << >> /\ ChainShape(OriginChain)
      /\ \A a \in Aside : Replay(file, OriginChain)[a] = ReplayedFile[a]
  BY PendingChecks, PendingLog, ParsedShape, WholeChain DEF PendingHolds
<1>7. ReplayHolds'
  BY <1>1, <1>4, <1>5, <1>6, OriginStays DEF ReplayHolds, Replaying
<1>8. EndHolds'
  BY <1>4 DEF EndHolds
<1> QED
  BY <1>5, <1>7, <1>8 DEF PendingHolds

(* The next descriptor is one of the log's. *)
LEMMA NextDescriptor ==
  ASSUME Pending, PendingHolds, phase = "apply", todo[1].descriptors # << >>
  PROVE  /\ \E q \in Descriptors(OriginChain) : Descriptor = At(OriginChain, q)
         /\ Descriptor.off \in Nat /\ Descriptor.len \in Nat
<1>1. /\ todo # << >> /\ ChainShape(todo)
      /\ \A p \in Descriptors(todo) :
           \E q \in Descriptors(OriginChain) : At(todo, p) = At(OriginChain, q)
      /\ DOMAIN file = Granules
  BY DEF PendingHolds, ReplayHolds, FileHolds, DeviceHolds
<1>2. <<1, 1>> \in Descriptors(todo) /\ Descriptor = At(todo, <<1, 1>>)
  BY <1>1, ApplyStep DEF Descriptor
<1>3. PICK q \in Descriptors(OriginChain) : Descriptor = At(OriginChain, q)
  BY <1>1, <1>2
<1> QED
  BY <1>3, PendingLog, ParsedShape

(* ApplyDescriptor. *)
LEMMA PendingApplyDescriptor ==
  ASSUME Pending, ImagesReplayable, PendingHolds, [Next]_vars, ApplyDescriptor
  PROVE  PendingHolds'
<1>1. /\ phase = "apply" /\ todo[1].descriptors # << >>
      /\ WriteSpan(Descriptor.off, Descriptor.len, Descriptor.content)
      /\ todo' = [todo EXCEPT ![1].descriptors = Tail(@)]
      /\ UNCHANGED <<phase, header, slot, devSize, replayed>>
  BY DEF ApplyDescriptor
<1>2. /\ replayed /\ header = FirstHeader /\ slot = FirstSlot /\ devSize = len
      /\ file[FirstHeader.off] = LogGranule /\ todo # << >> /\ ChainShape(todo)
      /\ len = ReplayedLen
      /\ \A p \in Descriptors(todo) :
           \E q \in Descriptors(OriginChain) : At(todo, p) = At(OriginChain, q)
      /\ \A a \in Aside : Replay(file, todo)[a] = ReplayedFile[a]
  BY <1>1 DEF PendingHolds, ReplayHolds, Replaying
<1>3. DOMAIN file = Granules /\ \A a \in Granules : file[a] \in may[a]
  BY DEF PendingHolds, FileHolds, DeviceHolds
<1>4. FileHolds' /\ file'[FirstHeader.off] = LogGranule /\ len' = len
  <2>1. PICK q \in Descriptors(OriginChain) : Descriptor = At(OriginChain, q)
    BY <1>1, NextDescriptor
  <2>2. Touched(Descriptor.off .. Descriptor.off + Descriptor.len - 1, Descriptor.content)
    BY <1>1, <1>3, WriteTouches
  <2>3. FileHolds' /\ file'[FirstHeader.off] = LogGranule
    BY <1>2, <2>1, <2>2, FileApplies DEF PendingHolds
  <2> QED
    BY <2>2, <2>3 DEF Touched
<1>5. /\ ChainShape(todo') /\ todo' # << >>
      /\ \A p \in Descriptors(todo') : \E q \in Descriptors(todo) : At(todo', p) = At(todo, q)
      /\ \A a \in Granules : Replay(file', todo')[a] = Replay(file, todo)[a]
  <2>1. file' = [a \in Granules |-> IF a \in Descriptor.off .. Descriptor.off + Descriptor.len - 1
                                    THEN Descriptor.content ELSE file[a]]
    BY <1>1 DEF WriteSpan
  <2> DEFINE t == [todo EXCEPT ![1].descriptors = Tail(@)]
             g == [a \in Granules |-> IF a \in Descriptor.off .. Descriptor.off + Descriptor.len - 1
                                      THEN Descriptor.content ELSE file[a]]
  <2>4. ChainShape(todo) /\ todo # << >> /\ todo[1].descriptors # << >>
        /\ DOMAIN file = Granules
    BY <1>1, <1>2, <1>3
  <2>2. /\ ChainShape(t) /\ t # << >>
        /\ \A p \in Descriptors(t) : \E q \in Descriptors(todo) : At(t, p) = At(todo, q)
        /\ \A a \in Granules : Replay(g, t)[a] = Replay(file, todo)[a]
    BY <2>4, ApplyStep, ZenonT(60) DEF Descriptor
  <2>3. todo' = t /\ file' = g
    BY <1>1, <2>1
  <2> HIDE DEF t, g
  <2> QED
    BY <2>2, <2>3
<1>6. \A p \in Descriptors(todo') :
        \E q \in Descriptors(OriginChain) : At(todo', p) = At(OriginChain, q)
  BY <1>2, <1>5
<1>7. \A a \in Aside : Replay(file', todo')[a] = ReplayedFile[a]
  BY <1>2, <1>5, AsideIs
<1>8. ReplayHolds'
  <2>1. /\ phase' = "apply" /\ replayed' /\ header' = FirstHeader' /\ slot' = FirstSlot'
        /\ devSize' = len' /\ len' = ReplayedLen'
        /\ file'[FirstHeader.off'] = LogGranule'
    BY <1>1, <1>2, <1>4, OriginStays
  <2>2. /\ \A p \in Descriptors(todo') :
             \E q \in Descriptors(OriginChain') : At(todo', p) = At(OriginChain', q)
        /\ \A a \in Aside' : Replay(file', todo')[a] = ReplayedFile'[a]
    BY <1>6, <1>7, OriginStays
  <2> QED
    BY <1>5, <2>1, <2>2 DEF ReplayHolds, Replaying
<1>9. EndHolds'
  BY <1>1 DEF EndHolds
<1> QED
  BY <1>4, <1>8, <1>9 DEF PendingHolds

(* ApplyFlush: after the last entry all of the log lasts. *)
LEMMA PendingApplyFlush ==
  ASSUME Pending, ImagesReplayable, PendingHolds, [Next]_vars, ApplyFlush
  PROVE  PendingHolds'
<1>1. /\ phase = "apply" /\ todo[1].descriptors = << >> /\ Flush
      /\ todo' = Tail(todo)
      /\ phase' = IF Tail(todo) = << >> THEN "regions" ELSE "apply"
      /\ UNCHANGED <<header, slot, devSize, replayed>>
  BY DEF ApplyFlush
<1>2. /\ replayed /\ header = FirstHeader /\ slot = FirstSlot /\ devSize = len
      /\ file[FirstHeader.off] = LogGranule /\ todo # << >> /\ ChainShape(todo)
      /\ len = ReplayedLen
      /\ \A p \in Descriptors(todo) :
           \E q \in Descriptors(OriginChain) : At(todo, p) = At(OriginChain, q)
      /\ \A a \in Aside : Replay(file, todo)[a] = ReplayedFile[a]
  BY <1>1 DEF PendingHolds, ReplayHolds, Replaying
<1>3. DOMAIN file = Granules /\ \A a \in Granules : file[a] \in may[a]
  BY DEF PendingHolds, FileHolds, DeviceHolds
<1>4. FileHolds' /\ \A a \in Granules : may'[a] = {file'[a]}
  BY <1>1, FileFlush DEF PendingHolds
<1>5. file' = file /\ len' = len /\ lenMay' = {len}
  BY <1>1 DEF Flush
<1>6. file'[FirstHeader.off] = LogGranule
  BY <1>2, <1>3, <1>4, <1>5, PendingLog
<1>7. /\ ChainShape(todo')
      /\ \A p \in Descriptors(todo') : \E q \in Descriptors(todo) : At(todo', p) = At(todo, q)
      /\ \A a \in Granules : Replay(file', todo')[a] = Replay(file, todo)[a]
  <2> DEFINE t == Tail(todo)
  <2>1. /\ ChainShape(t)
        /\ \A p \in Descriptors(t) : \E q \in Descriptors(todo) : At(t, p) = At(todo, q)
        /\ \A a \in Granules : Replay(file, t)[a] = Replay(file, todo)[a]
    BY <1>1, <1>2, <1>3, FlushStep
  <2>2. todo' = t /\ file' = file
    BY <1>1, <1>5
  <2> HIDE DEF t
  <2> QED
    BY <2>1, <2>2
<1>8. \A p \in Descriptors(todo') :
        \E q \in Descriptors(OriginChain) : At(todo', p) = At(OriginChain, q)
  BY <1>2, <1>7
<1>9. \A a \in Aside : Replay(file', todo')[a] = ReplayedFile[a]
  BY <1>2, <1>7, AsideIs
<1>10. CASE Tail(todo) = << >>
  <2>1. phase' = "regions"
    BY <1>1, <1>10
  <2>2. \A a \in Aside : may'[a] = {ReplayedFile[a]}
    <3> SUFFICES ASSUME NEW a \in Aside PROVE may'[a] = {ReplayedFile[a]}
      OBVIOUS
    <3>1. a \in Granules /\ a \in DOMAIN file'
      BY <1>3, <1>5, AsideIs
    <3>2. Replay(file', << >>)[a] = file'[a]
      BY <3>1, EmptyReplay
    <3> QED
      BY <1>1, <1>4, <1>9, <1>10, <3>1, <3>2
  <2>3. Done'
    BY <1>2, <1>5, <2>2, OriginStays DEF Done
  <2>4. ReplayHolds'
    BY <1>1, <1>2, <1>5, <1>6, <2>1, OriginStays DEF ReplayHolds, Replaying
  <2>5. EndHolds'
    BY <1>1, <1>2, <1>5, <2>1, <2>3, OriginStays DEF EndHolds
  <2> QED
    BY <1>4, <2>4, <2>5 DEF PendingHolds
<1>11. CASE Tail(todo) # << >>
  <2>1. phase' = "apply" /\ todo' # << >>
    BY <1>1, <1>11
  <2>2. ReplayHolds'
    BY <1>1, <1>2, <1>5, <1>6, <1>7, <1>8, <1>9, <2>1, OriginStays DEF ReplayHolds, Replaying
  <2>3. EndHolds'
    BY <2>1 DEF EndHolds
  <2> QED
    BY <1>4, <2>2, <2>3 DEF PendingHolds
<1> QED
  BY <1>10, <1>11

(* ReadRegions: the table that is read is the replayed one. *)
LEMMA PendingReadRegions ==
  ASSUME Pending, ImagesReplayable, PendingHolds, [Next]_vars, ReadRegions
  PROVE  PendingHolds'
<1>1. /\ phase = "regions" /\ regions' = PickRegionTable(file, devSize)
      /\ UNCHANGED devVars /\ UNCHANGED <<header, slot, devSize, replayed>>
  BY DEF ReadRegions
<1>2. FileHolds' /\ (Done => Done') /\ len' = len /\ may' = may /\ file' = file
  BY <1>1, FileSame DEF PendingHolds, devVars
<1>3. Done /\ devSize = len /\ header \in {FirstHeader, Consumed}
  BY <1>1 DEF PendingHolds, EndHolds
<1>4. /\ regions' = ReplayedTable
      /\ CheckRegions(file, devSize, header)
           = CheckRegions(ReplayedFile, ReplayedLen, FirstHeader)
  BY <1>1, <1>3, TableFound DEF PendingHolds
<1>5. CASE CheckRegions(file, devSize, header) # "ok"
  <2>1. phase' = "refused"
    BY <1>5 DEF ReadRegions, Refuse
  <2> QED
    BY <1>2, <2>1, Over DEF PendingHolds
<1>6. CASE CheckRegions(file, devSize, header) = "ok"
  <2>1. phase' = IF replayed THEN "erase" ELSE "tables"
    BY <1>6 DEF ReadRegions
  <2>2. CASE replayed
    <3>1. header = FirstHeader /\ slot = FirstSlot /\ file[FirstHeader.off] = LogGranule
      BY <1>1, <2>2 DEF PendingHolds, ReplayHolds, Replaying
    <3>2. ReplayHolds'
      BY <1>1, <1>2, <1>3, <2>1, <2>2, <3>1, OriginStays DEF ReplayHolds, Replaying
    <3>3. EndHolds'
      BY <1>1, <1>2, <1>3, <1>4, <1>6, <2>1, <2>2, <3>1, OriginStays DEF EndHolds
    <3> QED
      BY <1>2, <3>2, <3>3 DEF PendingHolds
  <2>3. CASE ~replayed
    <3>1. phase' = "tables" /\ ~replayed'
      BY <1>1, <2>1, <2>3
    <3>2. ReplayHolds'
      BY <3>1 DEF ReplayHolds, Replaying
    <3>3. EndHolds'
      BY <1>1, <1>2, <1>3, <1>4, <1>6, <3>1, OriginStays DEF EndHolds
    <3> QED
      BY <1>2, <3>2, <3>3 DEF PendingHolds
  <2> QED
    BY <2>2, <2>3
<1> QED
  BY <1>5, <1>6

(* What is known at the erasure and the header rewrite. *)
LEMMA AtTheEnd ==
  ASSUME PendingHolds, phase \in {"erase", "eraseFlush", "clear", "clearFlush"}
  PROVE  /\ replayed /\ header = FirstHeader /\ slot = FirstSlot
         /\ Done /\ devSize = len /\ regions = ReplayedTable
         /\ CheckRegions(ReplayedFile, ReplayedLen, FirstHeader) = "ok"
         /\ phase = "erase" => file[FirstHeader.off] = LogGranule
         /\ phase # "erase" => file[FirstHeader.off] = Blank
         /\ phase \in {"clear", "clearFlush"} => may[FirstHeader.off] = {Blank}
         /\ phase = "clearFlush" => file[SpareSlot] = Consumed
         /\ ClearedHeader = Consumed /\ HeaderOffset(OtherSlot(slot)) = SpareSlot
         /\ header.off .. header.off + header.len - 1 = LogSpan
<1>1. /\ replayed /\ header = FirstHeader /\ slot = FirstSlot
      /\ Done /\ devSize = len /\ regions = ReplayedTable
      /\ CheckRegions(ReplayedFile, ReplayedLen, FirstHeader) = "ok"
      /\ phase # "erase" => file[FirstHeader.off] = Blank
      /\ phase \in {"clear", "clearFlush"} => may[FirstHeader.off] = {Blank}
      /\ phase = "clearFlush" => file[SpareSlot] = Consumed
  BY DEF PendingHolds, EndHolds
<1>2. phase = "erase" => file[FirstHeader.off] = LogGranule
  BY <1>1 DEF PendingHolds, ReplayHolds, Replaying
<1>3. ClearedHeader = Consumed /\ HeaderOffset(OtherSlot(slot)) = SpareSlot
  BY <1>1 DEF ClearedHeader, Consumed, HeaderOffset, SpareSlot
<1>4. header.off .. header.off + header.len - 1 = LogSpan
  BY <1>1 DEF LogSpan
<1> QED
  BY <1>1, <1>2, <1>3, <1>4

(* EraseLog and EraseFlush. *)
LEMMA PendingErase ==
  ASSUME Pending, ImagesReplayable, PendingHolds, [Next]_vars, EraseLog \/ EraseFlush
  PROVE  PendingHolds'
<1>0. \A a \in Granules : file[a] \in may[a]
  BY DEF PendingHolds, FileHolds, DeviceHolds
<1>1. CASE EraseLog
  <2>1. /\ phase = "erase" /\ phase' = "eraseFlush" /\ UNCHANGED localVars
        /\ WriteSpan(header.off, header.len, Blank)
    BY <1>1 DEF EraseLog
  <2>2. Touched(LogSpan, Blank) /\ \A a \in LogSpan : file'[a] = Blank
    <3>1. /\ Touched(header.off .. header.off + header.len - 1, Blank)
          /\ \A a \in Granules : a \in header.off .. header.off + header.len - 1 => file'[a] = Blank
      BY <1>0, <2>1, WriteTouches, Zenon
    <3>2. header.off .. header.off + header.len - 1 = LogSpan /\ LogSpan \subseteq Granules
      BY <2>1, AtTheEnd, PendingLog
    <3> QED
      BY <3>1, <3>2
  <2>4. file'[FirstHeader.off] = Blank
    BY <2>2, PendingLog
  <2>3. FileHolds' /\ Done' /\ len' = len
    BY <2>1, <2>2, <2>4, AtTheEnd, FileErases DEF PendingHolds, Touched
  <2>5. ReplayHolds'
    BY <2>1 DEF ReplayHolds, Replaying
  <2>6. EndHolds'
    BY <2>1, <2>3, <2>4, AtTheEnd, OriginStays DEF EndHolds, localVars
  <2> QED
    BY <2>3, <2>5, <2>6 DEF PendingHolds
<1>2. CASE EraseFlush
  <2>1. phase = "eraseFlush" /\ phase' = "clear" /\ UNCHANGED localVars /\ Flush
    BY <1>2 DEF EraseFlush
  <2>2. /\ FileHolds' /\ (Done => Done') /\ len' = len /\ file' = file
        /\ \A a \in Granules : may'[a] = {file'[a]}
    BY <2>1, FileFlush DEF PendingHolds, Flush
  <2>3. file'[FirstHeader.off] = Blank /\ may'[FirstHeader.off] = {Blank}
    BY <2>1, <2>2, AtTheEnd, PendingLog
  <2>4. ReplayHolds'
    BY <2>1 DEF ReplayHolds, Replaying
  <2>5. EndHolds'
    BY <2>1, <2>2, <2>3, AtTheEnd, OriginStays DEF EndHolds, localVars
  <2> QED
    BY <2>2, <2>4, <2>5 DEF PendingHolds
<1> QED
  BY <1>1, <1>2

(* ClearHeader and ClearFlush. *)
LEMMA PendingClear ==
  ASSUME Pending, ImagesReplayable, PendingHolds, [Next]_vars, ClearHeader \/ ClearFlush
  PROVE  PendingHolds'
<1>0. \A a \in Granules : file[a] \in may[a]
  BY DEF PendingHolds, FileHolds, DeviceHolds
<1>1. CASE ClearHeader
  <2>1. /\ phase = "clear" /\ phase' = "clearFlush" /\ UNCHANGED localVars
        /\ WriteSpan(SpareSlot, 1, Consumed)
    BY <1>1, AtTheEnd DEF ClearHeader
  <2>2. SpareSlot .. SpareSlot + 1 - 1 = {SpareSlot} /\ SpareSlot \in Granules
    BY SlotsAre, PendingHeader
  <2>3. Touched({SpareSlot}, Consumed) /\ file'[SpareSlot] = Consumed
    <3>1. /\ Touched(SpareSlot .. SpareSlot + 1 - 1, Consumed)
          /\ \A a \in Granules : a \in SpareSlot .. SpareSlot + 1 - 1 => file'[a] = Consumed
      BY <1>0, <2>1, WriteTouches, Zenon
    <3> QED
      BY <2>2, <3>1
  <2>4. /\ FileHolds' /\ Done' /\ may'[FirstHeader.off] = {Blank}
        /\ file'[FirstHeader.off] = Blank /\ len' = len
    BY <2>1, <2>3, AtTheEnd, FileClears DEF PendingHolds, Touched
  <2>5. ReplayHolds'
    BY <2>1 DEF ReplayHolds, Replaying
  <2>6. EndHolds'
    BY <2>1, <2>3, <2>4, AtTheEnd, OriginStays DEF EndHolds, localVars
  <2> QED
    BY <2>4, <2>5, <2>6 DEF PendingHolds
<1>2. CASE ClearFlush
  <2>1. /\ phase = "clearFlush" /\ phase' = "tables" /\ Flush
        /\ header' = ClearedHeader /\ slot' = OtherSlot(slot)
        /\ UNCHANGED <<devSize, replayed, regions>>
    BY <1>2 DEF ClearFlush
  <2>2. /\ FileHolds' /\ (Done => Done') /\ len' = len /\ file' = file
        /\ \A a \in Granules : may'[a] = {file'[a]}
    BY <2>1, FileFlush DEF PendingHolds, Flush
  <2>3. header' = Consumed /\ slot' = SpareSlot /\ file'[SpareSlot] = Consumed
    BY <2>1, <2>2, AtTheEnd DEF HeaderOffset
  <2>4. ReplayHolds'
    BY <2>1 DEF ReplayHolds, Replaying
  <2>5. EndHolds'
    BY <2>1, <2>2, <2>3, AtTheEnd, OriginStays DEF EndHolds
  <2> QED
    BY <2>2, <2>4, <2>5 DEF PendingHolds
<1> QED
  BY <1>1, <1>2

(* ReadTables. *)
LEMMA PendingReadTables ==
  ASSUME Pending, ImagesReplayable, PendingHolds, [Next]_vars, ReadTables
  PROVE  PendingHolds'
<1>1. /\ phase = "tables" /\ phase' \in {"open", "refused"} /\ UNCHANGED devVars
      /\ UNCHANGED localVars
  BY DEF ReadTables, Refuse
<1>2. FileHolds' /\ (Done => Done')
  BY <1>1, FileSame DEF PendingHolds
<1>3. CASE phase' = "refused"
  BY <1>2, <1>3, Over DEF PendingHolds
<1>4. CASE phase' = "open"
  <2>1. ReplayHolds'
    BY <1>4 DEF ReplayHolds, Replaying
  <2>2. EndHolds'
    BY <1>1, <1>2, <1>4, OriginStays DEF PendingHolds, EndHolds, devVars, localVars
  <2> QED
    BY <1>2, <2>1, <2>2 DEF PendingHolds
<1> QED
  BY <1>1, <1>3, <1>4

(* What is left of the log when an open is cut off, if not a part. *)
LEMMA WholeOrGone ==
  ASSUME Pending, Forget, ~halfErased', file'[FirstHeader.off] \in Remains
  PROVE  file'[FirstHeader.off] \in {LogGranule, Blank}
<1>1. ~LeftInPart(file')
  BY DEF Forget
<1>2. FirstHeader.off \in Granules
  BY PendingLog
<1>3. file'[FirstHeader.off].kind # "log" \/ file'[FirstHeader.off] = LogGranule
  BY <1>1, <1>2 DEF LeftInPart, FirstHeader, HeaderOf, LogGranule
<1>4. \A c \in Remnants(LogGranule) : c.kind = "log"
  BY DEF Remnants
<1> QED
  BY <1>3, <1>4 DEF Remains

(* DeviceError: wherever it strikes. *)
LEMMA PendingDeviceError ==
  ASSUME Pending, ImagesReplayable, PendingHolds, [Next]_vars, DeviceError, ~halfErased'
  PROVE  PendingHolds'
<1>0. /\ \A a \in Granules : file[a] \in may[a]
      /\ phase' = "closed" /\ Forget
  BY DEF PendingHolds, FileHolds, DeviceHolds, DeviceError, Forget
<1>1. SUFFICES FileHolds'
  BY <1>0, Over DEF PendingHolds
<1>2. CASE UNCHANGED devVars
  BY <1>2, FileSame DEF PendingHolds
<1>3. CASE /\ phase = "grow" /\ AllowedExtent(devSize, todo) > len
           /\ SetLen(AllowedExtent(devSize, todo))
  <2>1. /\ todo = OriginChain /\ devSize = len /\ file[FirstHeader.off] = LogGranule
    BY <1>3 DEF PendingHolds, ReplayHolds, Replaying
  <2>2. AllowedExtent(devSize, todo) = ReplayedLen
    BY <2>1, LengthIs, PendingReplay DEF PendingHolds, FileHolds
  <2> QED
    BY <1>3, <2>1, <2>2, FileGrows DEF PendingHolds
<1>4. CASE /\ phase = "apply" /\ todo[1].descriptors # << >>
           /\ FailSpan(Descriptor.off, Descriptor.len, Descriptor.content)
  <2>1. PICK q \in Descriptors(OriginChain) : Descriptor = At(OriginChain, q)
    BY <1>4, NextDescriptor
  <2>2. Descriptor.off \in Nat /\ Descriptor.len \in Nat
    BY <1>4, NextDescriptor
  <2>3. Touched(Descriptor.off .. Descriptor.off + Descriptor.len - 1, Descriptor.content)
    BY <1>0, <1>4, <2>2, FailTouches
  <2>4. file[FirstHeader.off] = LogGranule
    BY <1>4 DEF PendingHolds, ReplayHolds, Replaying
  <2> QED
    BY <2>1, <2>3, <2>4, FileApplies DEF PendingHolds
<1>5. CASE phase = "erase" /\ FailSpan(header.off, header.len, Blank)
  <2>1. header.off \in Nat /\ header.len \in Nat
    BY <1>5, AtTheEnd, PendingLog
  <2>2. Touched(LogSpan, Blank)
    BY <1>0, <1>5, <2>1, AtTheEnd, FailTouches
  <2>3. file'[FirstHeader.off] \in Remains
    BY <1>5, <2>2, AtTheEnd, PendingLog DEF Touched, Remains
  <2>4. file'[FirstHeader.off] \in {LogGranule, Blank}
    BY <1>0, <2>3, WholeOrGone
  <2> QED
    BY <1>5, <2>2, <2>4, AtTheEnd, FileErases DEF PendingHolds
<1>6. CASE phase = "clear" /\ FailSpan(HeaderOffset(OtherSlot(slot)), 1, ClearedHeader)
  <2>1. SpareSlot .. SpareSlot + 1 - 1 = {SpareSlot} /\ SpareSlot \in Nat
    BY SlotsAre
  <2>2. Touched({SpareSlot}, Consumed)
    <3>1. FailSpan(SpareSlot, 1, Consumed) /\ 1 \in Nat
      BY <1>6, AtTheEnd
    <3>2. Touched(SpareSlot .. SpareSlot + 1 - 1, Consumed)
      BY <1>0, <2>1, <3>1, FailTouches, Zenon
    <3> QED
      BY <2>1, <3>2
  <2> QED
    BY <1>6, <2>2, AtTheEnd, FileClears DEF PendingHolds
<1> QED
  BY <1>2, <1>3, <1>4, <1>5, <1>6 DEF DeviceError

(* A power loss leaves all of the log, a part of it or nothing. *)
LEMMA LogSurvives ==
  ASSUME Pending, LosePower, DeviceHolds, may[FirstHeader.off] \subseteq Remains
  PROVE  file'[FirstHeader.off] \in Remains
<1>1. PICK n \in lenMay :
        /\ \A a \in Granules : a < n => file'[a] \in may[a]
        /\ \A a \in Granules : ~(a < n) => file'[a] = Blank
  BY PowerLoss DEF DeviceHolds
<1>2. FirstHeader.off \in Granules
  BY PendingLog
<1>3. CASE FirstHeader.off < n
  BY <1>1, <1>2, <1>3
<1>4. CASE ~(FirstHeader.off < n)
  BY <1>1, <1>2, <1>4 DEF Remains
<1> QED
  BY <1>3, <1>4

(* Every step. *)
LEMMA PendingNext ==
  ASSUME Pending, ImagesReplayable, PendingHolds, [Next]_vars, ~halfErased'
  PROVE  PendingHolds'
<1>1. CASE Close
  <2>1. UNCHANGED devVars /\ phase' = "closed"
    BY <1>1 DEF Close, Forget
  <2> QED
    BY <2>1, FileSame, Over DEF PendingHolds
<1>2. CASE Crash
  <2>1. LosePower /\ phase' = "closed" /\ Forget
    BY <1>2 DEF Crash, Forget
  <2>2. file'[FirstHeader.off] \in Remains
    BY <2>1, LogSurvives DEF PendingHolds, FileHolds, LogHolds
  <2>3. file'[FirstHeader.off] \in {LogGranule, Blank}
    BY <2>1, <2>2, WholeOrGone
  <2> QED
    BY <2>1, <2>3, FileCrash, Over DEF PendingHolds
<1>3. CASE UNCHANGED vars
  <2>1. UNCHANGED devVars /\ UNCHANGED localVars /\ phase' = phase
    BY <1>3 DEF vars
  <2>2. FileHolds' /\ (Done => Done')
    BY <2>1, FileSame DEF PendingHolds
  <2>3. ReplayHolds'
    BY <2>1, OriginStays DEF PendingHolds, ReplayHolds, Replaying, devVars, localVars
  <2>4. EndHolds'
    BY <2>1, <2>2, OriginStays DEF PendingHolds, EndHolds, devVars, localVars
  <2> QED
    BY <2>2, <2>3, <2>4 DEF PendingHolds
<1> QED
  BY <1>1, <1>2, <1>3, PendingOpenStart, PendingMakeRoom, PendingApplyDescriptor,
     PendingApplyFlush, PendingReadRegions, PendingErase, PendingClear, PendingReadTables,
     PendingDeviceError DEF Next

(* PipelineInv: what is known of the file and of the open in every state,  *)
(* of every image whose log can be replayed.                               *)
THEOREM PipelineInvariant ==
  ASSUME ImagesReplayable
  PROVE  Spec => []PipelineInv
<1>1. Init => PipelineInv
  <2> SUFFICES ASSUME Init PROVE PipelineInv
    OBVIOUS
  <2>1. origin \in Images /\ (Idle => IdleHolds)
    BY IdleInit DEF IdleInv
  <2> QED
    BY <2>1, PendingInit DEF PipelineInv, PendingHolds
<1>2. PipelineInv /\ [Next]_vars => PipelineInv'
  <2> SUFFICES ASSUME PipelineInv, [Next]_vars PROVE PipelineInv'
    OBVIOUS
  <2>1. origin' \in Images /\ (Idle' => IdleHolds')
    BY IdleNext DEF IdleInv, PipelineInv
  <2>2. ~Idle /\ ~halfErased' => PendingHolds'
    BY PendingNext, OriginStays DEF PipelineInv, PendingHolds, Pending
  <2> QED
    BY <2>1, <2>2, OriginStays DEF PipelineInv, PendingHolds
<1> QED
  BY <1>1, <1>2, PTL DEF Spec

-----------------------------------------------------------------------------
(***************************************************************************)
(* What holds with a part of the log in its place as well.                 *)
(***************************************************************************)
Sound == CheckRegions(ReplayedFile, ReplayedLen, FirstHeader) = "ok"
FromTheLog(d) == \E c \in OriginChains : \E q \in Descriptors(c) : d = At(c, q)

PartDevice ==
  /\ DOMAIN file = Granules /\ \A a \in Granules : file[a] \in may[a]
  /\ len \in lenMay /\ lenMay \subseteq origin.len .. MaxLen

PartLog ==
  /\ may[FirstHeader.off] \subseteq Remains
  /\ (\E a \in LogSpan : may[a] # {origin.file[a]}) => Sound
  /\ halfErased => Sound

PartAside ==
  \A a \in Aside :
    may[a] \subseteq {origin.file[a]} \cup WrittenAt(a)
                      \cup (IF WrittenAt(a) = {} THEN {} ELSE {Torn})

PartFile == PartDevice /\ HeadersHold /\ PartLog /\ PartAside

PartReplay ==
  /\ phase \in {"grow", "apply"} => replayed
  /\ Replaying => /\ header = FirstHeader /\ slot = FirstSlot /\ devSize = len
                  /\ file[FirstHeader.off].kind = "log"
  /\ phase = "grow" => todo \in OriginChains /\ todo # << >>
  /\ phase = "apply" => /\ todo # << >> /\ ChainShape(todo)
                        /\ \A p \in Descriptors(todo) : FromTheLog(At(todo, p))

PartEnd ==
  /\ phase \in {"regions", "erase", "eraseFlush", "clear", "clearFlush", "tables", "open"} =>
       devSize = len
  /\ phase \in {"erase", "eraseFlush", "clear", "clearFlush"} =>
       replayed /\ header = FirstHeader /\ slot = FirstSlot
  /\ phase \in {"eraseFlush", "clear", "clearFlush"} => file[FirstHeader.off] = Blank
  /\ phase \in {"clear", "clearFlush"} => may[FirstHeader.off] = {Blank}
  /\ phase = "clearFlush" => file[SpareSlot] = Consumed
  /\ phase \in {"tables", "open"} /\ replayed =>
       /\ header = Consumed /\ slot = SpareSlot /\ file[SpareSlot] = Consumed
       /\ lenMay = {len} /\ \A a \in Granules : may[a] = {file[a]}

PartHolds == PartFile /\ PartReplay /\ PartEnd

(* Every chain that may be found is a parsed one, and is apart from the    *)
(* header slots and from logs.                                             *)
LEMMA ChainsAre ==
  ASSUME Pending, ImagesReplayable, NEW c \in OriginChains
  PROVE  /\ ParsedChain(c)
         /\ \A a \in HeaderSlots \cup LogSpan : Hits(c, a) = {}
         /\ \A a \in Granules : \A p \in Hits(c, a) :
              origin.file[a].kind # "log" /\ At(c, p).content.kind # "log"
<1>1. /\ LogGranule.kind = "log" /\ FirstHeader.off \in Granules /\ OriginChain # << >>
      /\ ParsedChain(OriginChain)
  BY PendingLog, PendingChecks
<1>2. \A l \in LogGranule.remains : ParsedChain(l.chain)
  BY <1>1, ImageIs DEF Pending, LogGranule
<1>3. c \in ChainsOf(origin) /\ ParsedChain(c)
  BY <1>1, <1>2 DEF OriginChains, ChainsOf, ChainOf, OriginChain, HeaderOf, LogGranule,
                    FirstHeader
<1>4. LogApart(origin)
  BY <1>1 DEF Pending, ImagesReplayable, ChainOf, OriginChain, HeaderOf
<1>5. HeaderSlots \cup LogSpan \subseteq Granules
  BY AsideIs
<1> QED
  BY <1>3, <1>4, <1>5 DEF LogApart, LogSpan, FirstHeader

(* What is left of a part of the log is a part of the log. *)
LEMMA RemnantsAre ==
  ASSUME NEW c \in Remains, c.kind = "log"
  PROVE  Remnants(c) = Remnants(LogGranule)
<1>1. CASE c \in Remnants(LogGranule)
  BY <1>1 DEF Remnants
<1>2. Blank.kind = "blank"
  BY DEF Blank
<1> QED
  BY <1>1, <1>2 DEF Remains

(* The length of the file. *)
LEMMA PartLength ==
  ASSUME Pending, PartDevice
  PROVE  /\ len \in Nat /\ len \in 0 .. MaxLen /\ 2 < len /\ len \in MIB .. MaxLen
         /\ \A n \in lenMay : n \in Nat /\ n >= origin.len
         /\ origin.len \in Nat
BY ImageIs DEF PartDevice, Pending

(* The chain that is found, and the header it is found by. *)
LEMMA PartFound ==
  ASSUME Pending, ImagesReplayable, PartFile
  PROVE  LET found == CollectReplayChain(file, PickHeader(file, len)) IN
         /\ found.error \in {"ok", "Corrupt", "LogUnassembled"}
         /\ found.chain # << >> =>
              /\ found.chain \in OriginChains /\ file[FirstHeader.off].kind = "log"
              /\ PickHeader(file, len) = FirstHeader /\ PickSlot(file, len) = FirstSlot
<1> DEFINE h == PickHeader(file, len)
           log == file[FirstHeader.off]
           found == CollectReplayChain(file, h)
<1>1. /\ HeadersHold /\ (\A a \in Granules : file[a] \in may[a]) /\ len \in Nat /\ 2 < len
  BY PartLength DEF PartFile, PartDevice
<1>2. FirstHeader.off \in Granules /\ log \in Remains
  BY <1>1, PendingLog DEF PartFile, PartLog
<1>3. CASE file[SpareSlot] = Consumed
  <2>1. h.guid = NoGuid
    BY <1>1, <1>3, HeaderPicked, ConsumedIs
  <2>2. found = NoChain
    BY <2>1 DEF CollectReplayChain
  <2> QED
    BY <2>2 DEF NoChain
<1>4. CASE file[SpareSlot] # Consumed
  <2>1. h = FirstHeader /\ PickSlot(file, len) = FirstSlot
    BY <1>1, <1>4, HeaderPicked
  <2>2. found = NoChain \/ (log.kind = "log" /\ found = [error |-> log.error, chain |-> log.chain])
    BY <2>1 DEF CollectReplayChain
  <2>3. ASSUME log.kind = "log"
        PROVE  log.chain \in OriginChains /\ log.error \in {"ok", "Corrupt", "LogUnassembled"}
    <3>1. LogGranule.chain = OriginChain /\ LogGranule.kind = "log" /\ OriginChain # << >>
          /\ LogGranule.error = "ok"
      BY PendingLog, PendingChecks
    <3>2. CASE log = LogGranule
      BY <3>1, <3>2 DEF OriginChains
    <3>3. CASE log \in Remnants(LogGranule)
      <4>0. PICK l \in LogGranule.remains :
              log = [kind |-> "log", guid |-> LogGranule.guid, error |-> l.error,
                     chain |-> l.chain, remains |-> LogGranule.remains]
        BY <3>3 DEF Remnants
      <4>1. log.error = l.error /\ log.chain = l.chain
        BY <4>0
      <4>2. l.error \in {"ok", "Corrupt", "LogUnassembled"}
        BY <1>2, <3>1, ImageIs DEF Pending, LogGranule
      <4> QED
        BY <3>1, <4>1, <4>2 DEF OriginChains, LogGranule, FirstHeader, HeaderOf
    <3>4. log # Blank
      BY <2>3 DEF Blank
    <3> QED
      BY <1>2, <3>2, <3>3, <3>4 DEF Remains
  <2> HIDE DEF found, h
  <2>4. found.error \in {"ok", "Corrupt", "LogUnassembled"}
        /\ (found.chain # << >> => found.chain \in OriginChains /\ log.kind = "log")
    BY <2>2, <2>3 DEF NoChain
  <2> QED
    BY <2>1, <2>4 DEF found, h
<1> QED
  BY <1>3, <1>4

(* What is known of the log after a step. *)
LEMMA PartLogKept ==
  ASSUME Pending, PartLog, [Next]_vars, may'[FirstHeader.off] \subseteq Remains,
         file'[FirstHeader.off] \in may'[FirstHeader.off],
         (\E a \in LogSpan : may'[a] # {origin.file[a]}) => Sound
  PROVE  PartLog'
<1>1. Sound' = Sound
  BY OriginStays DEF Sound
<1>2. halfErased' => Sound
  <2>1. halfErased' => halfErased \/ LeftInPart(file')
    BY DEF Next, vars, OpenStart, MakeRoom, ApplyDescriptor, ApplyFlush, ReadRegions, EraseLog,
           EraseFlush, ClearHeader, ClearFlush, ReadTables, DeviceError, Close, Crash, Forget
  <2>2. ASSUME LeftInPart(file') PROVE Sound
    <3>1. file'[FirstHeader.off] # origin.file[FirstHeader.off]
      BY <2>2 DEF LeftInPart, FirstHeader, HeaderOf
    <3>2. FirstHeader.off \in LogSpan
      BY PendingLog
    <3> QED
      BY <3>1, <3>2
  <2> QED
    BY <2>1, <2>2 DEF PartLog
<1> QED
  BY <1>1, <1>2, OriginStays DEF PartLog

(* A step that leaves the device alone. *)
LEMMA PartSame ==
  ASSUME Pending, PartFile, [Next]_vars, UNCHANGED devVars
  PROVE  PartFile'
<1>1. file' = file /\ may' = may /\ len' = len /\ lenMay' = lenMay
  BY DEF devVars
<1>2. FirstHeader.off \in Granules
  BY PendingLog
<1>3. PartDevice' /\ HeadersHold'
  BY <1>1, OriginStays DEF PartFile, PartDevice, HeadersHold
<1>4. PartLog'
  <2>1. PartLog /\ may'[FirstHeader.off] \subseteq Remains
        /\ file'[FirstHeader.off] \in may'[FirstHeader.off]
        /\ ((\E a \in LogSpan : may'[a] # {origin.file[a]}) => Sound)
    BY <1>1, <1>2 DEF PartFile, PartDevice, PartLog
  <2> QED
    BY <2>1, PartLogKept
<1>5. PartAside'
  BY <1>1, OriginStays DEF PartFile, PartAside
<1> QED
  BY <1>3, <1>4, <1>5 DEF PartFile

(* A flush. *)
LEMMA PartFlush ==
  ASSUME Pending, PartFile, [Next]_vars, Flush
  PROVE  PartFile' /\ lenMay' = {len'} /\ \A a \in Granules : may'[a] = {file'[a]}
<1>1. /\ file' = file /\ len' = len /\ lenMay' = {len}
      /\ \A a \in Granules : may'[a] = {file[a]} /\ file[a] \in may[a]
      /\ len \in lenMay
  BY DEF Flush, PartFile, PartDevice
<1>2. Aside \subseteq Granules /\ FirstSlot \in Granules /\ SpareSlot \in Granules
      /\ LogSpan \subseteq Granules /\ FirstHeader.off \in LogSpan
  BY AsideIs, PendingLog, SlotsAre
<1>3. PartDevice'
  BY <1>1, OriginStays DEF PartFile, PartDevice
<1>4. HeadersHold'
  <2>1. may'[FirstSlot] = {FirstHeader}
        /\ may'[SpareSlot] \subseteq {origin.file[SpareSlot], Torn, Consumed}
    BY <1>1, <1>2 DEF PartFile, HeadersHold
  <2>2. ASSUME may'[SpareSlot] # {origin.file[SpareSlot]}
        PROVE  may'[FirstHeader.off] = {Blank}
    <3>1. may[SpareSlot] # {origin.file[SpareSlot]}
      BY <1>1, <1>2, <2>2
    <3>2. may[FirstHeader.off] = {Blank}
      BY <3>1 DEF PartFile, HeadersHold
    <3> QED
      BY <1>1, <1>2, <3>2
  <2> QED
    BY <2>1, <2>2, OriginStays DEF HeadersHold
<1>5. PartLog'
  <2>1. /\ PartLog /\ may'[FirstHeader.off] \subseteq Remains
        /\ file'[FirstHeader.off] \in may'[FirstHeader.off]
    BY <1>1, <1>2 DEF PartFile, PartLog
  <2>2. (\E a \in LogSpan : may'[a] # {origin.file[a]}) =>
          \E a \in LogSpan : may[a] # {origin.file[a]}
    BY <1>1, <1>2
  <2> QED
    BY <2>1, <2>2, PartLogKept DEF PartLog
<1>6. PartAside'
  BY <1>1, <1>2, OriginStays DEF PartFile, PartAside
<1> QED
  BY <1>1, <1>3, <1>4, <1>5, <1>6 DEF PartFile

(* A power loss. *)
LEMMA PartCrash ==
  ASSUME Pending, PartFile, [Next]_vars, LosePower
  PROVE  PartFile'
<1>1. PICK n \in lenMay :
        /\ len' = n /\ lenMay' = {n} /\ DOMAIN file' = Granules
        /\ may' = [a \in Granules |-> {file'[a]}]
        /\ \A a \in Granules : a < n => file'[a] \in may[a]
        /\ \A a \in Granules : ~(a < n) => file'[a] = Blank
  BY PowerLoss DEF PartFile, PartDevice
<1>2. \A a \in Granules : may'[a] = {file'[a]}
  BY <1>1
<1>3. n \in origin.len .. MaxLen /\ n \in Nat /\ n >= origin.len /\ origin.len \in Nat
  BY PartLength DEF PartFile, PartDevice
<1>4. Aside \subseteq Granules /\ FirstSlot \in Granules /\ SpareSlot \in Granules
      /\ LogSpan \subseteq Granules /\ FirstHeader.off \in LogSpan
  BY AsideIs, PendingLog, SlotsAre
<1>5. FirstSlot < n /\ SpareSlot < n /\ \A a \in LogSpan : a < n
  <2>1. FirstSlot < origin.len /\ SpareSlot < origin.len
    BY PendingHeader, SlotsAre
  <2>2. \A a \in LogSpan : a \in Nat /\ a < origin.len
    BY <1>4, PendingLog DEF Granules
  <2> QED
    BY <1>3, <2>1, <2>2, SlotsAre
<1>6. PartDevice'
  BY <1>1, <1>2, <1>3, OriginStays DEF PartDevice
<1>7. HeadersHold'
  <2>1. may'[FirstSlot] = {FirstHeader}
    BY <1>1, <1>2, <1>4, <1>5 DEF PartFile, HeadersHold
  <2>2. file'[SpareSlot] \in may[SpareSlot] /\ may'[SpareSlot] = {file'[SpareSlot]}
    BY <1>1, <1>2, <1>4, <1>5
  <2>3. file'[FirstHeader.off] \in may[FirstHeader.off]
        /\ may'[FirstHeader.off] = {file'[FirstHeader.off]}
    BY <1>1, <1>2, <1>4, <1>5
  <2>4. may'[SpareSlot] # {origin.file[SpareSlot]} => may'[FirstHeader.off] = {Blank}
    BY <2>2, <2>3 DEF PartFile, HeadersHold
  <2>5. may'[SpareSlot] \subseteq {origin.file[SpareSlot], Torn, Consumed}
    BY <2>2 DEF PartFile, HeadersHold
  <2> QED
    BY <2>1, <2>4, <2>5, OriginStays DEF HeadersHold
<1>8. PartLog'
  <2>1. \A a \in LogSpan : file'[a] \in may[a] /\ may'[a] = {file'[a]}
    BY <1>1, <1>2, <1>4, <1>5
  <2>2. /\ PartLog /\ may'[FirstHeader.off] \subseteq Remains
        /\ file'[FirstHeader.off] \in may'[FirstHeader.off]
    BY <1>4, <2>1 DEF PartFile, PartLog
  <2>3. (\E a \in LogSpan : may'[a] # {origin.file[a]}) =>
          \E a \in LogSpan : may[a] # {origin.file[a]}
    BY <2>1
  <2> QED
    BY <2>2, <2>3, PartLogKept DEF PartLog
<1>9. PartAside'
  <2> SUFFICES ASSUME NEW a \in Aside
               PROVE  may'[a] \subseteq {origin.file[a]} \cup WrittenAt(a)
                                         \cup (IF WrittenAt(a) = {} THEN {} ELSE {Torn})
    BY OriginStays DEF PartAside
  <2>1. CASE a < n
    BY <1>1, <1>2, <1>4, <2>1 DEF PartFile, PartAside
  <2>2. CASE ~(a < n)
    <3>1. a \in Granules /\ a >= origin.len
      BY <1>3, <1>4, <2>2 DEF Granules
    <3>2. origin.file[a] = Blank
      BY <3>1, ImageIs DEF Pending
    <3> QED
      BY <1>1, <1>2, <2>2, <3>1, <3>2
  <2> QED
    BY <2>1, <2>2
<1> QED
  BY <1>6, <1>7, <1>8, <1>9 DEF PartFile

(* The file is made longer. *)
LEMMA PartGrows ==
  ASSUME Pending, PartFile, [Next]_vars, NEW n \in origin.len .. MaxLen, SetLen(n)
  PROVE  PartFile'
<1>1. file' = file /\ may' = may /\ len' = n /\ lenMay' = lenMay \cup {n}
  BY DEF SetLen
<1>2. FirstHeader.off \in Granules
  BY PendingLog
<1>3. PartDevice' /\ HeadersHold'
  BY <1>1, OriginStays DEF PartFile, PartDevice, HeadersHold
<1>4. PartLog'
  <2>1. PartLog /\ may'[FirstHeader.off] \subseteq Remains
        /\ file'[FirstHeader.off] \in may'[FirstHeader.off]
        /\ ((\E a \in LogSpan : may'[a] # {origin.file[a]}) => Sound)
    BY <1>1, <1>2 DEF PartFile, PartDevice, PartLog
  <2> QED
    BY <2>1, PartLogKept
<1>5. PartAside'
  BY <1>1, OriginStays DEF PartFile, PartAside
<1> QED
  BY <1>3, <1>4, <1>5 DEF PartFile

(* A descriptor of what is found of the log is written, or a part of it. *)
LEMMA PartApplies ==
  ASSUME Pending, ImagesReplayable, PartFile, [Next]_vars, NEW d, FromTheLog(d),
         Touched(d.off .. d.off + d.len - 1, d.content)
  PROVE  PartFile' /\ file'[FirstHeader.off] = file[FirstHeader.off]
<1> DEFINE S == d.off .. d.off + d.len - 1
<1>0. PICK c \in OriginChains : \E q \in Descriptors(c) : d = At(c, q)
  BY DEF FromTheLog
<1>1. PICK q \in Descriptors(c) : d = At(c, q)
  BY <1>0
<1>2. \A a \in Granules : a \in S => q \in Hits(c, a) /\ d.content \in WrittenAt(a)
  BY <1>1 DEF Hits, Covers, WrittenAt
<1>3. \A a \in HeaderSlots \cup LogSpan : a \in Granules /\ a \notin S
  BY <1>2, AsideIs, ChainsAre
<1>4. Touched(S, d.content)
  OBVIOUS
<1>5. \A a \in Aside : a \in Granules /\ file[a] \in may[a]
  BY AsideIs DEF PartFile, PartDevice
<1>6. ASSUME NEW a \in Aside, a \in S PROVE file[a].kind # "log"
  <2>1. origin.file[a].kind # "log"
    BY <1>2, <1>5, <1>6, ChainsAre
  <2>2. \A e \in WrittenAt(a) : e.kind # "log"
    BY <1>5, ChainsAre DEF WrittenAt
  <2>3. file[a] \in {origin.file[a]} \cup WrittenAt(a) \cup {Torn}
    BY <1>5 DEF PartFile, PartAside
  <2> QED
    BY <2>1, <2>2, <2>3 DEF Torn
<1> HIDE DEF S
<1>7. \A a \in HeaderSlots \cup LogSpan : file'[a] = file[a] /\ may'[a] = may[a]
  BY <1>3, <1>4 DEF Touched
<1>8. FirstSlot \in HeaderSlots /\ SpareSlot \in HeaderSlots /\ FirstHeader.off \in LogSpan
      /\ FirstHeader.off \in Granules
  BY SlotsAre, PendingLog
<1>9. PartDevice'
  BY <1>4, OriginStays DEF PartFile, PartDevice, Touched
<1>10. HeadersHold'
  BY <1>7, <1>8, OriginStays DEF PartFile, HeadersHold
<1>11. PartLog'
  <2>1. PartLog /\ may'[FirstHeader.off] \subseteq Remains
        /\ file'[FirstHeader.off] \in may'[FirstHeader.off]
    BY <1>7, <1>8 DEF PartFile, PartLog, PartDevice
  <2>2. (\E a \in LogSpan : may'[a] # {origin.file[a]}) =>
          \E a \in LogSpan : may[a] # {origin.file[a]}
    BY <1>7
  <2> QED
    BY <2>1, <2>2, PartLogKept DEF PartLog
<1>12. PartAside'
  <2> SUFFICES ASSUME NEW a \in Aside
               PROVE  may'[a] \subseteq {origin.file[a]} \cup WrittenAt(a)
                                         \cup (IF WrittenAt(a) = {} THEN {} ELSE {Torn})
    BY OriginStays DEF PartAside
  <2>1. CASE a \notin S
    BY <1>4, <1>5, <2>1 DEF PartFile, PartAside, Touched
  <2>2. CASE a \in S
    <3>1. may'[a] \subseteq may[a] \cup {d.content, Torn} /\ d.content \in WrittenAt(a)
      BY <1>2, <1>4, <1>5, <1>6, <2>2 DEF Touched, S
    <3>2. may[a] \subseteq {origin.file[a]} \cup WrittenAt(a) \cup {Torn}
      BY DEF PartFile, PartAside
    <3> QED
      BY <3>1, <3>2
  <2> QED
    BY <2>1, <2>2
<1> QED
  BY <1>7, <1>8, <1>9, <1>10, <1>11, <1>12 DEF PartFile

(* What there is of the log is erased, in full or in part. *)
LEMMA PartErases ==
  ASSUME Pending, PartFile, [Next]_vars, Sound, file[FirstHeader.off].kind = "log",
         Touched(LogSpan, Blank)
  PROVE  PartFile'
<1>1. \A a \in Granules : a \notin LogSpan => file'[a] = file[a] /\ may'[a] = may[a]
  BY DEF Touched
<1>2. /\ FirstHeader.off \in Granules /\ file[FirstHeader.off] \in may[FirstHeader.off]
      /\ may[FirstHeader.off] \subseteq Remains
  BY PendingLog DEF PartFile, PartLog, PartDevice
<1>3. Remnants(file[FirstHeader.off]) = Remnants(LogGranule)
  BY <1>2, RemnantsAre
<1>4. /\ may'[FirstHeader.off] \subseteq Remains
      /\ file'[FirstHeader.off] \in may'[FirstHeader.off]
  BY <1>2, <1>3 DEF Touched, Remains
<1>5. PartDevice'
  BY OriginStays DEF PartFile, PartDevice, Touched
<1>6. HeadersHold'
  <2>1. FirstSlot \in Granules \ LogSpan /\ SpareSlot \in Granules \ LogSpan
    BY AsideIs, SlotsAre
  <2>2. file[FirstHeader.off] # Blank
    BY DEF Blank
  <2>3. may[SpareSlot] = {origin.file[SpareSlot]}
    BY <1>2, <2>2 DEF PartFile, HeadersHold
  <2>4. may'[FirstSlot] = may[FirstSlot] /\ may'[SpareSlot] = may[SpareSlot]
    BY <1>1, <2>1
  <2> QED
    BY <2>3, <2>4, OriginStays DEF PartFile, HeadersHold
<1>7. PartLog'
  BY <1>4, PartLogKept DEF PartFile
<1>8. PartAside'
  BY <1>1, AsideIs, OriginStays DEF PartFile, PartAside
<1> QED
  BY <1>5, <1>6, <1>7, <1>8 DEF PartFile

(* The header that says there is no log is written, or torn. *)
LEMMA PartClears ==
  ASSUME Pending, ImagesReplayable, PartFile, [Next]_vars, may[FirstHeader.off] = {Blank},
         Touched({SpareSlot}, Consumed)
  PROVE  PartFile' /\ may'[FirstHeader.off] = {Blank}
         /\ file'[FirstHeader.off] = file[FirstHeader.off]
<1>1. \A a \in Granules : a # SpareSlot => file'[a] = file[a] /\ may'[a] = may[a]
  BY DEF Touched
<1>2. LogSpan \subseteq Granules /\ FirstHeader.off \in LogSpan /\ SpareSlot \notin LogSpan
      /\ FirstSlot \in Granules /\ FirstSlot # SpareSlot /\ SpareSlot \in Granules
  BY AsideIs, SlotsAre, PendingLog
<1>3. \A a \in LogSpan : file'[a] = file[a] /\ may'[a] = may[a]
  BY <1>1, <1>2
<1>4. PartDevice'
  BY OriginStays DEF PartFile, PartDevice, Touched
<1>5. HeadersHold'
  <2>1. file[SpareSlot].kind # "log"
    BY NoLogSpare DEF PartFile, PartDevice
  <2>2. may'[SpareSlot] \subseteq {origin.file[SpareSlot], Torn, Consumed}
    BY <1>2, <2>1 DEF PartFile, HeadersHold, Touched
  <2>3. may'[FirstSlot] = {FirstHeader}
    BY <1>1, <1>2 DEF PartFile, HeadersHold
  <2>4. may'[FirstHeader.off] = {Blank}
    BY <1>2, <1>3
  <2> QED
    BY <2>2, <2>3, <2>4, OriginStays DEF HeadersHold
<1>6. PartLog'
  <2>1. PartLog /\ may'[FirstHeader.off] \subseteq Remains
        /\ file'[FirstHeader.off] \in may'[FirstHeader.off]
    BY <1>2, <1>3 DEF PartFile, PartLog, PartDevice
  <2>2. (\E a \in LogSpan : may'[a] # {origin.file[a]}) =>
          \E a \in LogSpan : may[a] # {origin.file[a]}
    BY <1>3
  <2> QED
    BY <2>1, <2>2, PartLogKept DEF PartLog
<1>7. PartAside'
  BY <1>1, AsideIs, OriginStays DEF PartFile, PartAside
<1> QED
  BY <1>2, <1>3, <1>4, <1>5, <1>6, <1>7 DEF PartFile

(* Nothing is asked of an open that is over. *)
LEMMA PartOver ==
  ASSUME phase' \in {"closed", "refused"}
  PROVE  PartReplay' /\ PartEnd'
<1>1. PartReplay'
  BY DEF PartReplay, Replaying
<1>2. PartEnd'
  BY DEF PartEnd
<1> QED
  BY <1>1, <1>2

(* OpenStart. *)
LEMMA PartOpenStart ==
  ASSUME Pending, ImagesReplayable, PartHolds, [Next]_vars, OpenStart
  PROVE  PartHolds'
<1>1. UNCHANGED devVars
  BY DEF OpenStart
<1>2. PartFile'
  BY <1>1, PartSame DEF PartHolds
<1> DEFINE chain == CollectReplayChain(file, PickHeader(file, len)).chain
<1>3. header' = PickHeader(file, len) /\ slot' = PickSlot(file, len) /\ devSize' = len
      /\ len' = len /\ may' = may /\ file' = file
  BY <1>1 DEF OpenStart, devVars
<1>4. \/ phase' = "refused"
      \/ phase' = "regions" /\ replayed' = FALSE
      \/ phase' = "grow" /\ replayed' = TRUE /\ todo' = chain /\ chain # << >>
  BY DEF OpenStart, Stage, Refuse
<1>5. CASE phase' = "refused"
  BY <1>2, <1>5, PartOver DEF PartHolds
<1>6. CASE phase' = "regions" /\ replayed' = FALSE
  <2>1. PartReplay'
    BY <1>6 DEF PartReplay, Replaying
  <2>2. PartEnd'
    BY <1>3, <1>6 DEF PartEnd
  <2> QED
    BY <1>2, <2>1, <2>2 DEF PartHolds
<1>7. CASE phase' = "grow" /\ replayed' = TRUE /\ todo' = chain /\ chain # << >>
  <2>1. chain \in OriginChains /\ file[FirstHeader.off].kind = "log"
        /\ PickHeader(file, len) = FirstHeader /\ PickSlot(file, len) = FirstSlot
    BY <1>7, PartFound DEF PartHolds
  <2> HIDE DEF chain
  <2>2. PartReplay'
    BY <1>3, <1>7, <2>1, OriginStays DEF PartReplay, Replaying
  <2>3. PartEnd'
    BY <1>7 DEF PartEnd
  <2> QED
    BY <1>2, <2>2, <2>3 DEF PartHolds
<1> QED
  BY <1>4, <1>5, <1>6, <1>7

(* How long what is found of the log makes the file. *)
LEMMA PartRoom ==
  ASSUME Pending, ImagesReplayable, PartHolds, phase = "grow"
  PROVE  /\ replayed /\ header = FirstHeader /\ slot = FirstSlot /\ devSize = len
         /\ file[FirstHeader.off].kind = "log"
         /\ todo \in OriginChains /\ todo # << >> /\ ParsedChain(todo)
         /\ AllowedExtent(devSize, todo) \in len .. MaxLen /\ len \in origin.len .. MaxLen
         /\ origin.len \in Nat /\ MaxLen \in Nat
         /\ ChainFits(devSize, todo) =>
              ReplayedExtent(devSize, todo) = AllowedExtent(devSize, todo)
<1>1. /\ replayed /\ header = FirstHeader /\ slot = FirstSlot /\ devSize = len
      /\ file[FirstHeader.off].kind = "log" /\ todo \in OriginChains /\ todo # << >>
  BY DEF PartHolds, PartReplay, Replaying
<1>2. ParsedChain(todo)
  BY <1>1, ChainsAre
<1>3. len \in 0 .. MaxLen /\ len \in origin.len .. MaxLen /\ origin.len \in Nat /\ MaxLen \in Nat
  BY PartLength, PipelineAssumption DEF PartHolds, PartFile, PartDevice
<1> QED
  BY <1>1, <1>2, <1>3, ExtentIs

(* MakeRoom. *)
LEMMA PartMakeRoom ==
  ASSUME Pending, ImagesReplayable, PartHolds, [Next]_vars, MakeRoom
  PROVE  PartHolds'
<1> DEFINE n == AllowedExtent(devSize, todo)
<1>1. /\ phase = "grow" /\ replayed /\ header = FirstHeader /\ slot = FirstSlot /\ devSize = len
      /\ file[FirstHeader.off].kind = "log" /\ todo \in OriginChains /\ todo # << >>
      /\ ParsedChain(todo) /\ n \in len .. MaxLen /\ len \in origin.len .. MaxLen
      /\ origin.len \in Nat /\ MaxLen \in Nat
      /\ ChainFits(devSize, todo) => ReplayedExtent(devSize, todo) = n
  BY PartRoom DEF MakeRoom
<1>2. CASE ~ChainFits(devSize, todo)
  <2>1. phase' = "refused" /\ UNCHANGED devVars
    BY <1>2 DEF MakeRoom, Refuse
  <2> QED
    BY <2>1, PartSame, PartOver DEF PartHolds
<1>3. CASE ChainFits(devSize, todo)
  <2>1. /\ phase' = "apply" /\ devSize' = n
        /\ UNCHANGED <<header, slot, todo, replayed>>
        /\ IF n > len THEN SetLen(n) ELSE UNCHANGED devVars
    BY <1>1, <1>3 DEF MakeRoom
  <2> HIDE DEF n
  <2>2. PartFile' /\ len' = n /\ file' = file
    <3>1. CASE n > len
      <4>1. n \in origin.len .. MaxLen /\ SetLen(n)
        BY <1>1, <2>1, <3>1
      <4> QED
        BY <4>1, PartGrows DEF PartHolds, SetLen
    <3>2. CASE ~(n > len)
      BY <1>1, <2>1, <3>2, PartSame DEF PartHolds, devVars
    <3> QED
      BY <3>1, <3>2
  <2>3. ChainShape(todo) /\ \A p \in Descriptors(todo) : FromTheLog(At(todo, p))
    BY <1>1, ParsedShape DEF FromTheLog
  <2>4. \A d : FromTheLog(d)' = FromTheLog(d)
    BY OriginStays DEF FromTheLog
  <2>5. PartReplay'
    BY <1>1, <2>1, <2>2, <2>3, <2>4, OriginStays DEF PartReplay, Replaying
  <2>6. PartEnd'
    BY <2>1 DEF PartEnd
  <2> QED
    BY <2>2, <2>5, <2>6 DEF PartHolds
<1> QED
  BY <1>2, <1>3

(* The next descriptor is one of those. *)
LEMMA PartDescriptor ==
  ASSUME Pending, ImagesReplayable, PartHolds, phase = "apply", todo[1].descriptors # << >>
  PROVE  /\ FromTheLog(Descriptor)
         /\ Descriptor.off \in Nat /\ Descriptor.len \in Nat
<1>1. /\ todo # << >> /\ ChainShape(todo) /\ DOMAIN file = Granules
      /\ \A p \in Descriptors(todo) : FromTheLog(At(todo, p))
  BY DEF PartHolds, PartReplay, PartFile, PartDevice
<1>2. <<1, 1>> \in Descriptors(todo) /\ Descriptor = At(todo, <<1, 1>>)
  BY <1>1, ApplyStep DEF Descriptor
<1>3. FromTheLog(Descriptor)
  BY <1>1, <1>2
<1>4. PICK c \in OriginChains : \E q \in Descriptors(c) : Descriptor = At(c, q)
  BY <1>3 DEF FromTheLog
<1>5. ParsedChain(c)
  BY ChainsAre
<1> QED
  BY <1>3, <1>4, <1>5, ParsedShape

(* ApplyDescriptor. *)
LEMMA PartApplyDescriptor ==
  ASSUME Pending, ImagesReplayable, PartHolds, [Next]_vars, ApplyDescriptor
  PROVE  PartHolds'
<1>1. /\ phase = "apply" /\ todo[1].descriptors # << >>
      /\ WriteSpan(Descriptor.off, Descriptor.len, Descriptor.content)
      /\ todo' = [todo EXCEPT ![1].descriptors = Tail(@)]
      /\ UNCHANGED <<phase, header, slot, devSize, replayed>>
  BY DEF ApplyDescriptor
<1>2. /\ replayed /\ header = FirstHeader /\ slot = FirstSlot /\ devSize = len
      /\ file[FirstHeader.off].kind = "log" /\ todo # << >> /\ ChainShape(todo)
      /\ \A p \in Descriptors(todo) : FromTheLog(At(todo, p))
  BY <1>1 DEF PartHolds, PartReplay, Replaying
<1>3. DOMAIN file = Granules /\ \A a \in Granules : file[a] \in may[a]
  BY DEF PartHolds, PartFile, PartDevice
<1>4. PartFile' /\ file'[FirstHeader.off] = file[FirstHeader.off] /\ len' = len
  <2>1. FromTheLog(Descriptor)
    BY <1>1, PartDescriptor
  <2>2. Touched(Descriptor.off .. Descriptor.off + Descriptor.len - 1, Descriptor.content)
    BY <1>1, <1>3, WriteTouches
  <2>3. PartFile' /\ file'[FirstHeader.off] = file[FirstHeader.off]
    BY <2>1, <2>2, PartApplies DEF PartHolds
  <2> QED
    BY <2>2, <2>3 DEF Touched
<1>5. /\ ChainShape(todo') /\ todo' # << >>
      /\ \A p \in Descriptors(todo') : \E q \in Descriptors(todo) : At(todo', p) = At(todo, q)
  <2> DEFINE t == [todo EXCEPT ![1].descriptors = Tail(@)]
  <2>1. ChainShape(todo) /\ todo # << >> /\ todo[1].descriptors # << >>
        /\ DOMAIN file = Granules
    BY <1>1, <1>2, <1>3
  <2>2. /\ ChainShape(t) /\ t # << >>
        /\ \A p \in Descriptors(t) : \E q \in Descriptors(todo) : At(t, p) = At(todo, q)
    BY <2>1, ApplyStep, ZenonT(60)
  <2>3. todo' = t
    BY <1>1
  <2> HIDE DEF t
  <2> QED
    BY <2>2, <2>3
<1>6. \A p \in Descriptors(todo') : FromTheLog(At(todo', p))
  BY <1>2, <1>5
<1>7. \A d : FromTheLog(d)' = FromTheLog(d)
  BY OriginStays DEF FromTheLog
<1>8. PartReplay'
  <2>1. /\ phase' = "apply" /\ replayed' /\ header' = FirstHeader' /\ slot' = FirstSlot'
        /\ devSize' = len' /\ file'[FirstHeader.off'].kind = "log"
    BY <1>1, <1>2, <1>4, OriginStays
  <2> QED
    BY <1>5, <1>6, <1>7, <2>1 DEF PartReplay, Replaying
<1>9. PartEnd'
  BY <1>1 DEF PartEnd
<1> QED
  BY <1>4, <1>8, <1>9 DEF PartHolds

(* ApplyFlush. *)
LEMMA PartApplyFlush ==
  ASSUME Pending, ImagesReplayable, PartHolds, [Next]_vars, ApplyFlush
  PROVE  PartHolds'
<1>1. /\ phase = "apply" /\ todo[1].descriptors = << >> /\ Flush
      /\ todo' = Tail(todo)
      /\ phase' = IF Tail(todo) = << >> THEN "regions" ELSE "apply"
      /\ UNCHANGED <<header, slot, devSize, replayed>>
  BY DEF ApplyFlush
<1>2. /\ replayed /\ header = FirstHeader /\ slot = FirstSlot /\ devSize = len
      /\ file[FirstHeader.off].kind = "log" /\ todo # << >> /\ ChainShape(todo)
      /\ \A p \in Descriptors(todo) : FromTheLog(At(todo, p))
  BY <1>1 DEF PartHolds, PartReplay, Replaying
<1>3. PartFile' /\ file' = file /\ len' = len /\ DOMAIN file = Granules
  BY <1>1, PartFlush DEF PartHolds, Flush, PartFile, PartDevice
<1>4. /\ ChainShape(todo')
      /\ \A p \in Descriptors(todo') : FromTheLog(At(todo', p))
  <2>1. /\ ChainShape(Tail(todo))
        /\ \A p \in Descriptors(Tail(todo)) :
             \E q \in Descriptors(todo) : At(Tail(todo), p) = At(todo, q)
    BY <1>1, <1>2, <1>3, FlushStep
  <2>2. todo' = Tail(todo)
    BY <1>1
  <2> QED
    BY <1>2, <2>1, <2>2
<1>5. \A d : FromTheLog(d)' = FromTheLog(d)
  BY OriginStays DEF FromTheLog
<1>6. PartReplay'
  BY <1>1, <1>2, <1>3, <1>4, <1>5, OriginStays DEF PartReplay, Replaying
<1>7. PartEnd'
  BY <1>1, <1>2, <1>3 DEF PartEnd
<1> QED
  BY <1>3, <1>6, <1>7 DEF PartHolds

(* ReadRegions and ReadTables. *)
LEMMA PartReads ==
  ASSUME Pending, ImagesReplayable, PartHolds, [Next]_vars, ReadRegions \/ ReadTables
  PROVE  PartHolds'
<1>1. UNCHANGED devVars /\ UNCHANGED <<header, slot, devSize, replayed>>
  BY DEF ReadRegions, ReadTables, localVars
<1>2. PartFile' /\ len' = len /\ may' = may /\ file' = file /\ lenMay' = lenMay
  BY <1>1, PartSame DEF PartHolds, devVars
<1>3. CASE ReadRegions
  <2>1. /\ phase = "regions" /\ devSize = len
        /\ \/ phase' = "refused"
           \/ phase' = (IF replayed THEN "erase" ELSE "tables")
    BY <1>3 DEF ReadRegions, Refuse, PartHolds, PartEnd
  <2>2. replayed => header = FirstHeader /\ slot = FirstSlot /\ file[FirstHeader.off].kind = "log"
    BY <2>1 DEF PartHolds, PartReplay, Replaying
  <2>3. PartReplay'
    BY <1>1, <1>2, <2>1, <2>2, OriginStays DEF PartReplay, Replaying
  <2>4. PartEnd'
    BY <1>1, <1>2, <2>1, <2>2, OriginStays DEF PartEnd
  <2> QED
    BY <1>2, <2>3, <2>4 DEF PartHolds
<1>4. CASE ReadTables
  <2>1. phase = "tables" /\ phase' \in {"open", "refused"}
    BY <1>4 DEF ReadTables, Refuse
  <2>2. PartReplay'
    BY <2>1 DEF PartReplay, Replaying
  <2>3. PartEnd'
    BY <1>1, <1>2, <2>1, OriginStays DEF PartHolds, PartEnd
  <2> QED
    BY <1>2, <2>2, <2>3 DEF PartHolds
<1> QED
  BY <1>3, <1>4

(* What is known at the erasure and the header rewrite. *)
LEMMA PartAtTheEnd ==
  ASSUME Pending, PipelineInv, PartHolds, phase \in {"erase", "eraseFlush", "clear", "clearFlush"}
  PROVE  /\ replayed /\ header = FirstHeader /\ slot = FirstSlot /\ devSize = len
         /\ phase = "erase" => file[FirstHeader.off].kind = "log" /\ Sound
         /\ phase # "erase" => file[FirstHeader.off] = Blank
         /\ phase \in {"clear", "clearFlush"} => may[FirstHeader.off] = {Blank}
         /\ phase = "clearFlush" => file[SpareSlot] = Consumed
         /\ ClearedHeader = Consumed /\ HeaderOffset(OtherSlot(slot)) = SpareSlot
         /\ header.off .. header.off + header.len - 1 = LogSpan
<1>1. /\ replayed /\ header = FirstHeader /\ slot = FirstSlot /\ devSize = len
      /\ phase # "erase" => file[FirstHeader.off] = Blank
      /\ phase \in {"clear", "clearFlush"} => may[FirstHeader.off] = {Blank}
      /\ phase = "clearFlush" => file[SpareSlot] = Consumed
  BY DEF PartHolds, PartEnd
<1>2. phase = "erase" => file[FirstHeader.off].kind = "log"
  BY <1>1 DEF PartHolds, PartReplay, Replaying
<1>3. phase = "erase" => Sound
  <2>1. CASE halfErased
    BY <2>1 DEF PartHolds, PartFile, PartLog
  <2>2. CASE ~halfErased
    <3>1. PendingHolds
      BY <2>2 DEF PipelineInv, Pending, PendingHolds
    <3> QED
      BY <3>1, AtTheEnd DEF Sound
  <2> QED
    BY <2>1, <2>2
<1>4. ClearedHeader = Consumed /\ HeaderOffset(OtherSlot(slot)) = SpareSlot
  BY <1>1 DEF ClearedHeader, Consumed, HeaderOffset, SpareSlot
<1>5. header.off .. header.off + header.len - 1 = LogSpan
  BY <1>1 DEF LogSpan
<1> QED
  BY <1>1, <1>2, <1>3, <1>4, <1>5

(* EraseLog and EraseFlush. *)
LEMMA PartErase ==
  ASSUME Pending, ImagesReplayable, PipelineInv, PartHolds, [Next]_vars, EraseLog \/ EraseFlush
  PROVE  PartHolds'
<1>0. \A a \in Granules : file[a] \in may[a]
  BY DEF PartHolds, PartFile, PartDevice
<1>1. CASE EraseLog
  <2>1. /\ phase = "erase" /\ phase' = "eraseFlush" /\ UNCHANGED localVars
        /\ WriteSpan(header.off, header.len, Blank)
    BY <1>1 DEF EraseLog
  <2>2. Touched(LogSpan, Blank) /\ \A a \in LogSpan : file'[a] = Blank
    <3>1. /\ Touched(header.off .. header.off + header.len - 1, Blank)
          /\ \A a \in Granules : a \in header.off .. header.off + header.len - 1 => file'[a] = Blank
      BY <1>0, <2>1, WriteTouches, Zenon
    <3>2. header.off .. header.off + header.len - 1 = LogSpan /\ LogSpan \subseteq Granules
      BY <2>1, PartAtTheEnd, PendingLog
    <3> QED
      BY <3>1, <3>2
  <2>3. file'[FirstHeader.off] = Blank
    BY <2>2, PendingLog
  <2>4. PartFile' /\ len' = len
    BY <2>1, <2>2, PartAtTheEnd, PartErases DEF PartHolds, Touched
  <2>5. PartReplay'
    BY <2>1 DEF PartReplay, Replaying
  <2>6. PartEnd'
    BY <2>1, <2>3, <2>4, PartAtTheEnd, OriginStays DEF PartEnd, localVars
  <2> QED
    BY <2>4, <2>5, <2>6 DEF PartHolds
<1>2. CASE EraseFlush
  <2>1. phase = "eraseFlush" /\ phase' = "clear" /\ UNCHANGED localVars /\ Flush
    BY <1>2 DEF EraseFlush
  <2>2. /\ PartFile' /\ len' = len /\ file' = file
        /\ \A a \in Granules : may'[a] = {file'[a]}
    BY <2>1, PartFlush DEF PartHolds, Flush
  <2>3. file'[FirstHeader.off] = Blank /\ may'[FirstHeader.off] = {Blank}
    BY <2>1, <2>2, PartAtTheEnd, PendingLog
  <2>4. PartReplay'
    BY <2>1 DEF PartReplay, Replaying
  <2>5. PartEnd'
    BY <2>1, <2>2, <2>3, PartAtTheEnd, OriginStays DEF PartEnd, localVars
  <2> QED
    BY <2>2, <2>4, <2>5 DEF PartHolds
<1> QED
  BY <1>1, <1>2

(* ClearHeader and ClearFlush. *)
LEMMA PartClear ==
  ASSUME Pending, ImagesReplayable, PipelineInv, PartHolds, [Next]_vars, ClearHeader \/ ClearFlush
  PROVE  PartHolds'
<1>0. \A a \in Granules : file[a] \in may[a]
  BY DEF PartHolds, PartFile, PartDevice
<1>1. CASE ClearHeader
  <2>1. /\ phase = "clear" /\ phase' = "clearFlush" /\ UNCHANGED localVars
        /\ WriteSpan(SpareSlot, 1, Consumed)
    BY <1>1, PartAtTheEnd DEF ClearHeader
  <2>2. SpareSlot .. SpareSlot + 1 - 1 = {SpareSlot} /\ SpareSlot \in Granules
    BY SlotsAre, PendingHeader
  <2>3. Touched({SpareSlot}, Consumed) /\ file'[SpareSlot] = Consumed
    <3>1. /\ Touched(SpareSlot .. SpareSlot + 1 - 1, Consumed)
          /\ \A a \in Granules : a \in SpareSlot .. SpareSlot + 1 - 1 => file'[a] = Consumed
      BY <1>0, <2>1, WriteTouches, Zenon
    <3> QED
      BY <2>2, <3>1
  <2>4. /\ PartFile' /\ may'[FirstHeader.off] = {Blank}
        /\ file'[FirstHeader.off] = Blank /\ len' = len
    BY <2>1, <2>3, PartAtTheEnd, PartClears DEF PartHolds, Touched
  <2>5. PartReplay'
    BY <2>1 DEF PartReplay, Replaying
  <2>6. PartEnd'
    BY <2>1, <2>3, <2>4, PartAtTheEnd, OriginStays DEF PartEnd, localVars
  <2> QED
    BY <2>4, <2>5, <2>6 DEF PartHolds
<1>2. CASE ClearFlush
  <2>1. /\ phase = "clearFlush" /\ phase' = "tables" /\ Flush
        /\ header' = ClearedHeader /\ slot' = OtherSlot(slot)
        /\ UNCHANGED <<devSize, replayed>>
    BY <1>2 DEF ClearFlush
  <2>2. /\ PartFile' /\ len' = len /\ file' = file /\ lenMay' = {len'}
        /\ \A a \in Granules : may'[a] = {file'[a]}
    BY <2>1, PartFlush DEF PartHolds, Flush
  <2>3. header' = Consumed /\ slot' = SpareSlot /\ file'[SpareSlot] = Consumed
    BY <2>1, <2>2, PartAtTheEnd DEF HeaderOffset
  <2>4. PartReplay'
    BY <2>1 DEF PartReplay, Replaying
  <2>5. PartEnd'
    BY <2>1, <2>2, <2>3, PartAtTheEnd, OriginStays DEF PartEnd
  <2> QED
    BY <2>2, <2>4, <2>5 DEF PartHolds
<1> QED
  BY <1>1, <1>2

(* DeviceError: wherever it strikes. *)
LEMMA PartDeviceError ==
  ASSUME Pending, ImagesReplayable, PipelineInv, PartHolds, [Next]_vars, DeviceError
  PROVE  PartHolds'
<1>0. /\ \A a \in Granules : file[a] \in may[a]
      /\ phase' = "closed"
  BY DEF PartHolds, PartFile, PartDevice, DeviceError, Forget
<1>1. SUFFICES PartFile'
  BY <1>0, PartOver DEF PartHolds
<1>2. CASE UNCHANGED devVars
  BY <1>2, PartSame DEF PartHolds
<1>3. CASE phase = "grow" /\ SetLen(AllowedExtent(devSize, todo))
  <2>1. AllowedExtent(devSize, todo) \in origin.len .. MaxLen
    BY <1>3, PartRoom
  <2> QED
    BY <1>3, <2>1, PartGrows DEF PartHolds
<1>4. CASE /\ phase = "apply" /\ todo[1].descriptors # << >>
           /\ FailSpan(Descriptor.off, Descriptor.len, Descriptor.content)
  <2>1. FromTheLog(Descriptor) /\ Descriptor.off \in Nat /\ Descriptor.len \in Nat
    BY <1>4, PartDescriptor
  <2>2. Touched(Descriptor.off .. Descriptor.off + Descriptor.len - 1, Descriptor.content)
    BY <1>0, <1>4, <2>1, FailTouches
  <2> QED
    BY <2>1, <2>2, PartApplies DEF PartHolds
<1>5. CASE phase = "erase" /\ FailSpan(header.off, header.len, Blank)
  <2>1. header.off \in Nat /\ header.len \in Nat
    BY <1>5, PartAtTheEnd, PendingLog
  <2>2. Touched(LogSpan, Blank)
    BY <1>0, <1>5, <2>1, PartAtTheEnd, FailTouches
  <2> QED
    BY <1>5, <2>2, PartAtTheEnd, PartErases DEF PartHolds
<1>6. CASE phase = "clear" /\ FailSpan(HeaderOffset(OtherSlot(slot)), 1, ClearedHeader)
  <2>1. SpareSlot .. SpareSlot + 1 - 1 = {SpareSlot} /\ SpareSlot \in Nat
    BY SlotsAre
  <2>2. Touched({SpareSlot}, Consumed)
    <3>1. FailSpan(SpareSlot, 1, Consumed) /\ 1 \in Nat
      BY <1>6, PartAtTheEnd
    <3>2. Touched(SpareSlot .. SpareSlot + 1 - 1, Consumed)
      BY <1>0, <2>1, <3>1, FailTouches, Zenon
    <3> QED
      BY <2>1, <3>2
  <2> QED
    BY <1>6, <2>2, PartAtTheEnd, PartClears DEF PartHolds
<1> QED
  BY <1>2, <1>3, <1>4, <1>5, <1>6 DEF DeviceError

(* Every step. *)
LEMMA PartNext ==
  ASSUME Pending, ImagesReplayable, PipelineInv, PartHolds, [Next]_vars
  PROVE  PartHolds'
<1>1. CASE Close
  <2>1. UNCHANGED devVars /\ phase' = "closed"
    BY <1>1 DEF Close, Forget
  <2> QED
    BY <2>1, PartSame, PartOver DEF PartHolds
<1>2. CASE Crash
  <2>1. LosePower /\ phase' = "closed"
    BY <1>2 DEF Crash, Forget
  <2> QED
    BY <2>1, PartCrash, PartOver DEF PartHolds
<1>3. CASE UNCHANGED vars
  <2>1. UNCHANGED devVars /\ UNCHANGED localVars /\ phase' = phase
    BY <1>3 DEF vars
  <2>2. PartFile'
    BY <2>1, PartSame DEF PartHolds
  <2>3. \A d : FromTheLog(d)' = FromTheLog(d)
    BY OriginStays DEF FromTheLog
  <2>4. PartReplay'
    BY <2>1, <2>3, OriginStays DEF PartHolds, PartReplay, Replaying, devVars, localVars
  <2>5. PartEnd'
    BY <2>1, OriginStays DEF PartHolds, PartEnd, devVars, localVars
  <2> QED
    BY <2>2, <2>4, <2>5 DEF PartHolds
<1> QED
  BY <1>1, <1>2, <1>3, PartOpenStart, PartMakeRoom, PartApplyDescriptor, PartApplyFlush,
     PartReads, PartErase, PartClear, PartDeviceError DEF Next

(* The first image satisfies it. *)
LEMMA PartInit ==
  ASSUME Init, ~Idle, ImagesReplayable
  PROVE  PartHolds
<1>1. Pending /\ PendingHolds /\ phase = "closed" /\ ~halfErased
  BY PendingInit DEF Init, Pending
<1>2. lenMay \subseteq origin.len .. MaxLen
  <2>1. lenMay = {origin.len} /\ origin.len \in Nat /\ origin.len \in origin.len .. MaxLen
    BY ImageIs DEF Init
  <2> QED
    BY <2>1
<1>3. PartDevice /\ HeadersHold
  BY <1>1, <1>2 DEF PartDevice, PendingHolds, FileHolds, DeviceHolds
<1>4. PartLog
  BY <1>1 DEF PartLog, Sound, PendingHolds, FileHolds, LogHolds
<1>5. PartAside
  BY <1>1, AsideIs, ImageIs DEF PartAside, Init
<1>6. PartReplay /\ PartEnd
  BY <1>1 DEF PartReplay, PartEnd, Replaying
<1> QED
  BY <1>3, <1>4, <1>5, <1>6 DEF PartHolds, PartFile

PartInv == PipelineInv /\ (~Idle => PartHolds)

(* PartInv: what is still known once an erase has been cut off. *)
LEMMA PartInvariant ==
  ASSUME ImagesReplayable
  PROVE  Spec => []PartInv
<1> DEFINE Part == ~Idle => PartHolds
<1>1. Init => Part
  BY PartInit
<1>2. PipelineInv /\ Part /\ [Next]_vars => Part'
  BY PartNext, OriginStays DEF PipelineInv, Pending
<1>3. PipelineInv /\ Part => PartInv
  BY DEF PartInv
<1> HIDE DEF Part
<1> QED
  BY <1>1, <1>2, <1>3, PipelineInvariant, PTL DEF Spec

-----------------------------------------------------------------------------
(***************************************************************************)
(* What follows from them.                                                 *)
(***************************************************************************)

(* ReplayIsConsumed: a reader that is handed out after a replay goes on    *)
(* from the header every later open picks, nothing of what was replayed    *)
(* can still be lost, and nothing is left to replay; also when what was    *)
(* replayed is what a cut-off erase had left of the log.                   *)
THEOREM ReplayIsConsumedAlways ==
  ASSUME ImagesReplayable
  PROVE  Spec => []ReplayIsConsumed
<1>1. PartInv => ReplayIsConsumed
  <2> SUFFICES ASSUME PartInv, phase = "open", replayed PROVE ReplayIsConsumed
    BY DEF ReplayIsConsumed
  <2>1. ~Idle /\ Pending
    BY DEF PartInv, PipelineInv, IdleHolds, Pending
  <2>2. PartFile /\ PartEnd
    BY <2>1 DEF PartInv, PartHolds
  <2>3. /\ devSize = len /\ header = Consumed /\ slot = SpareSlot
        /\ file[SpareSlot] = Consumed
        /\ \A a \in Granules : may[a] = {file[a]}
    BY <2>2 DEF PartEnd
  <2>4. lenMay = {len}
    BY <2>2 DEF PartEnd
  <2>5. slot = PickSlot(file, len) /\ header = PickHeader(file, len)
    <3>1. HeadersHold /\ (\A a \in Granules : file[a] \in may[a]) /\ len \in Nat /\ 2 < len
      BY <2>1, <2>2, PartLength DEF PartFile, PartDevice
    <3> QED
      BY <2>1, <2>3, <3>1, HeaderPicked
  <2>6. CollectReplayChain(file, header) = NoChain
    BY <2>1, <2>3, ConsumedIs DEF CollectReplayChain
  <2> QED
    BY <2>3, <2>4, <2>5, <2>6 DEF ReplayIsConsumed
<1> QED
  BY <1>1, PartInvariant, PTL

(* A region of a table that passes the checks is clear of the log. *)
LEMMA ClearOfTheLog ==
  ASSUME Pending, NEW t, LogRegionClear(t, FirstHeader),
         \A k \in DOMAIN t.entries : t.entries[k].off \in Nat /\ t.entries[k].len \in Nat,
         NEW k \in DOMAIN t.entries,
         NEW a \in t.entries[k].off .. t.entries[k].off + t.entries[k].len - 1
  PROVE  a \notin LogSpan
<1> DEFINE e == t.entries[k]
<1>1. e.off \in Nat /\ e.len \in Nat /\ a \in e.off .. e.off + e.len - 1
  OBVIOUS
<1>2. FirstHeader.off \in Nat /\ FirstHeader.len \in Nat /\ FirstHeader.len > 0
  BY PendingLog
<1>3. ~(FirstHeader.off < e.off + e.len /\ e.off < FirstHeader.off + FirstHeader.len)
  BY <1>2 DEF LogRegionClear
<1> HIDE DEF e
<1> QED
  BY <1>1, <1>2, <1>3 DEF LogSpan

(* The replayed table is one that was parsed. *)
LEMMA ReplayedTableIs ==
  ASSUME Pending, ImagesReplayable,
         CheckRegions(ReplayedFile, ReplayedLen, FirstHeader) = "ok"
  PROVE  /\ ReplayedTable.entries \in Seq(Range(ReplayedTable.entries))
         /\ \A e \in Range(ReplayedTable.entries) : e.off \in Nat /\ e.len \in Nat
         /\ \A k \in DOMAIN ReplayedTable.entries :
              ReplayedTable.entries[k].off \in Nat /\ ReplayedTable.entries[k].len \in Nat
         /\ LogRegionClear(ReplayedTable, FirstHeader)
<1>1. HasTable(ReplayedFile, ReplayedLen) /\ LogRegionClear(ReplayedTable, FirstHeader)
  BY RegionsIs DEF ReplayedTable
<1>2. PICK s \in {1, 2} : /\ ReplayedTable = ReplayedFile[RegionTableOffset(s)]
                          /\ ReplayedFile[RegionTableOffset(s)].kind = "table"
  BY <1>1, PickedTable DEF ReplayedTable
<1>3. RegionTableOffset(s) \in Granules
  BY AsideIs DEF RegionTableOffset
<1>4. Parsed(ReplayedTable)
  BY <1>2, <1>3, PendingReplay
<1>5. /\ ReplayedTable.entries \in Seq(Range(ReplayedTable.entries))
      /\ \A e \in Range(ReplayedTable.entries) : e.off \in Nat /\ e.len \in Nat
  BY <1>2, <1>4 DEF Parsed
<1>6. \A k \in DOMAIN ReplayedTable.entries :
        ReplayedTable.entries[k] \in Range(ReplayedTable.entries)
  BY DEF Range
<1> QED
  BY <1>1, <1>5, <1>6

(* OnlyTheLogWrites: no open changes a granule that no descriptor covers,  *)
(* of the log or of what a cut-off erase leaves of it, but for the header  *)
(* slots and the log; and not the log where the replayed table has put a   *)
(* region.                                                                 *)
THEOREM OnlyTheLogWritesAlways ==
  ASSUME ImagesReplayable
  PROVE  Spec => []OnlyTheLogWrites
<1>1. PartInv => OnlyTheLogWrites
  <2> SUFFICES ASSUME PartInv, NEW a \in Granules \ {HeaderOffset(1), HeaderOffset(2)},
                      ~(InLog(a) /\ ~Declared(a))
               PROVE  may[a] \subseteq {origin.file[a]} \cup WrittenAt(a)
                                        \cup (IF WrittenAt(a) = {} THEN {} ELSE {Torn})
    BY DEF OnlyTheLogWrites
  <2>1. CASE Idle
    BY <2>1 DEF PartInv, PipelineInv, IdleHolds
  <2>2. CASE ~Idle
    <3>1. Pending /\ PartFile
      BY <2>2 DEF PartInv, PipelineInv, Pending, PartHolds
    <3>2. CASE a \in Aside
      BY <3>1, <3>2 DEF PartFile, PartAside
    <3>3. CASE a \notin Aside
      <4>1. a \in LogSpan
        BY <3>3 DEF Aside, HeaderSlots
      <4>2. Declared(a)
        BY <4>1 DEF InLog, LogSpan, FirstHeader, HeaderOf
      <4>3. PICK k \in DOMAIN ReplayedTable.entries :
              a \in ReplayedTable.entries[k].off
                      .. ReplayedTable.entries[k].off + ReplayedTable.entries[k].len - 1
        BY <4>2 DEF Declared, ReplayedTable
      <4>4. CASE may[a] # {origin.file[a]}
        <5>1. CheckRegions(ReplayedFile, ReplayedLen, FirstHeader) = "ok"
          BY <3>1, <4>1, <4>4 DEF PartFile, PartLog, Sound
        <5>2. /\ \A i \in DOMAIN ReplayedTable.entries :
                   ReplayedTable.entries[i].off \in Nat /\ ReplayedTable.entries[i].len \in Nat
              /\ LogRegionClear(ReplayedTable, FirstHeader)
          BY <3>1, <5>1, ReplayedTableIs
        <5> QED
          BY <3>1, <4>1, <4>3, <5>2, ClearOfTheLog
      <4> QED
        BY <4>4
    <3> QED
      BY <3>2, <3>3
  <2> QED
    BY <2>1, <2>2
<1> QED
  BY <1>1, PartInvariant, PTL

(* Without a chain the image is what it is. *)
LEMMA PlainReplay ==
  ASSUME origin \in Images, OriginChain = << >>
  PROVE  ReplayedFile = origin.file /\ ReplayedLen = origin.len
<1>1. origin.file \in [Granules -> Range(origin.file)] /\ origin.len \in Nat
  BY ImageIs
<1>2. DOMAIN << >> = {}
  OBVIOUS
<1>3. Descriptors(<< >>) = {}
  BY <1>2 DEF Descriptors
<1>4. \A a : Hits(<< >>, a) = {}
  BY <1>3 DEF Hits
<1>5. ReplayedFile = origin.file
  BY <1>1, <1>4 DEF ReplayedFile, Replay
<1>6. Max({0}) = 0
  BY MaxNat
<1>7. {0} \cup {End(<< >>, p) : p \in Descriptors(<< >>)} = {0}
      /\ {0} \cup {<< >>[i].last : i \in DOMAIN << >>} = {0}
  BY <1>2, <1>3
<1>8. DescriptorExtent(<< >>) = 0
  BY <1>6, <1>7 DEF DescriptorExtent
<1>9. AllowedExtent(origin.len, << >>) = origin.len
  <2>1. Cardinality(Descriptors(<< >>)) = 0
    BY <1>3, FS_EmptySet
  <2>2. Max({0} \cup {<< >>[i].last : i \in DOMAIN << >>}) = 0
    BY <1>6, <1>7
  <2>3. Cardinality(Descriptors(<< >>)) * MAX_BLOCK_SIZE = 0
    BY <2>1, PipelineAssumption
  <2> QED
    BY <1>1, <2>2, <2>3 DEF AllowedExtent
<1>10. ReplayedLen = origin.len
  BY <1>1, <1>8, <1>9 DEF ReplayedLen, ReplayedExtent
<1> QED
  BY <1>5, <1>10

(* Where the log has been applied, the reader is the replayed one. *)
LEMMA ReaderFound ==
  ASSUME Pending, ImagesReplayable, ImagesRegular, FileHolds, Done,
         CheckRegions(ReplayedFile, ReplayedLen, FirstHeader) = "ok"
  PROVE  /\ len = ReplayedLen
         /\ CheckTables(file, len, ReplayedTable)
              = CheckTables(ReplayedFile, ReplayedLen, ReplayedTable)
         /\ CheckTables(file, len, ReplayedTable) = "ok" =>
              Load(file, len, ReplayedTable) = Load(ReplayedFile, ReplayedLen, ReplayedTable)
<1> DEFINE t == ReplayedTable
<1>1. len = ReplayedLen
  BY DEF FileHolds, DeviceHolds, Done
<1>2. \A a \in Aside : file[a] = ReplayedFile[a]
  BY AsideIs DEF FileHolds, DeviceHolds, Done
<1>3. /\ t.entries \in Seq(Range(t.entries))
      /\ \A e \in Range(t.entries) : e.off \in Nat /\ e.len \in Nat
      /\ \A k \in DOMAIN t.entries : t.entries[k].off \in Nat /\ t.entries[k].len \in Nat
      /\ LogRegionClear(t, FirstHeader)
  BY ReplayedTableIs
<1>4. RegionsApart(origin) /\ ChainOf(origin) = OriginChain
  BY PendingChecks DEF ImagesRegular, Pending, ChainOf, OriginChain, HeaderOf
<1>5. \A k \in DOMAIN t.entries, a \in HeaderSlots :
        a \notin t.entries[k].off .. t.entries[k].off + t.entries[k].len - 1
  BY <1>4 DEF RegionsApart, ReplayedTable, ReplayedFile, ReplayedLen
<1>6. ReplayedLen \in Nat /\ ReplayedLen <= MaxLen /\ MaxLen \in Nat
  BY PendingReplay, ImageIs, PipelineAssumption DEF Pending
<1> HIDE DEF t
<1>7. ASSUME NEW k \in DOMAIN t.entries,
             NEW a \in t.entries[k].off .. t.entries[k].off + t.entries[k].len - 1,
             a < ReplayedLen
      PROVE  file[a] = ReplayedFile[a]
  <2>1. a \in Granules
    BY <1>3, <1>6, <1>7 DEF Granules
  <2>2. a \notin LogSpan
    BY <1>3, ClearOfTheLog
  <2>3. a \notin HeaderSlots
    BY <1>5
  <2> QED
    BY <1>2, <2>1, <2>2, <2>3 DEF Aside
<1>8. \A a \in 0 .. ReplayedLen - 1 : Parsed(ReplayedFile[a])
  BY <1>6, PendingReplay DEF Granules
<1>9. /\ CheckTables(file, ReplayedLen, t) = CheckTables(ReplayedFile, ReplayedLen, t)
      /\ CheckTables(ReplayedFile, ReplayedLen, t) = "ok" =>
           Load(file, ReplayedLen, t) = Load(ReplayedFile, ReplayedLen, t)
  <2>1. \A k \in DOMAIN t.entries :
          \A a \in t.entries[k].off .. t.entries[k].off + t.entries[k].len - 1 :
            a < ReplayedLen => file[a] = ReplayedFile[a]
    BY <1>7
  <2>2. /\ ReplayedLen \in Nat /\ t.entries \in Seq(Range(t.entries))
        /\ \A e \in Range(t.entries) : e.off \in Nat /\ e.len \in Nat
    BY <1>3, <1>6
  <2> DEFINE P(f, g, n, u) ==
               /\ n \in Nat /\ u.entries \in Seq(Range(u.entries))
               /\ \A e \in Range(u.entries) : e.off \in Nat /\ e.len \in Nat
               /\ \A a \in 0 .. n - 1 : Parsed(g[a])
               /\ \A k \in DOMAIN u.entries :
                    \A a \in u.entries[k].off .. u.entries[k].off + u.entries[k].len - 1 :
                      a < n => f[a] = g[a]
             Q(f, g, n, u) ==
               /\ CheckTables(f, n, u) = CheckTables(g, n, u)
               /\ CheckTables(g, n, u) = "ok" => Load(f, n, u) = Load(g, n, u)
  <2>3. P(file, ReplayedFile, ReplayedLen, t)
    BY <1>8, <2>1, <2>2
  <2>4. ASSUME NEW f, NEW g, NEW n, NEW u, P(f, g, n, u) PROVE Q(f, g, n, u)
    BY <2>4, SameReader, ZenonT(60)
  <2> HIDE DEF P, Q
  <2>5. Q(file, ReplayedFile, ReplayedLen, t)
    BY <2>3, <2>4
  <2> QED
    BY <2>5 DEF Q
<1> QED
  BY <1>1, <1>9 DEF t

(* The reader that was handed out. *)
OpenHolds ==
  phase = "open" /\ ~halfErased =>
    /\ ~RefusedBefore
    /\ CheckRegions(ReplayedFile, ReplayedLen, FirstHeader) = "ok"
    /\ CheckTables(ReplayedFile, ReplayedLen, ReplayedTable) = "ok"
    /\ reader = Load(ReplayedFile, ReplayedLen, ReplayedTable)

(* The last step of an open, whichever image it is. *)
LEMMA LastStep ==
  ASSUME ImagesReplayable, ImagesRegular, PipelineInv, phase = "tables", ~halfErased
  PROVE  /\ ~RefusedBefore
         /\ CheckRegions(ReplayedFile, ReplayedLen, FirstHeader) = "ok"
         /\ CheckTables(file, devSize, regions)
              = CheckTables(ReplayedFile, ReplayedLen, ReplayedTable)
         /\ CheckTables(file, devSize, regions) = "ok" =>
              Load(file, devSize, regions) = Load(ReplayedFile, ReplayedLen, ReplayedTable)
<1>1. CASE Idle
  <2>1. /\ ~RefusedBefore /\ devSize = len /\ regions = PickRegionTable(file, len)
        /\ CheckRegions(file, len, FirstHeader) = "ok"
        /\ file = origin.file /\ len = origin.len
    BY <1>1 DEF PipelineInv, IdleHolds
  <2>2. ReplayedFile = file /\ ReplayedLen = len
    BY <1>1, <2>1, PlainReplay DEF Idle, PipelineInv
  <2> QED
    BY <2>1, <2>2 DEF ReplayedTable
<1>2. CASE ~Idle
  <2>1. Pending /\ FileHolds /\ EndHolds
    BY <1>2 DEF PipelineInv, Pending
  <2>2. /\ Done /\ devSize = len /\ regions = ReplayedTable
        /\ CheckRegions(ReplayedFile, ReplayedLen, FirstHeader) = "ok"
    BY <2>1 DEF EndHolds
  <2>3. ~RefusedBefore
    BY <1>2 DEF Idle
  <2> QED
    BY <2>1, <2>2, <2>3, ReaderFound
<1> QED
  BY <1>1, <1>2

(* ReaderIsReplayed: a reader is made of the image with its log applied,   *)
(* and of nothing else, however often the replay was cut off before, as    *)
(* long as no erase was cut off that left part of the log (halfErased).    *)
THEOREM ReaderIsReplayedAlways ==
  ASSUME ImagesReplayable, ImagesRegular
  PROVE  Spec => []ReaderIsReplayed
<1>1. Init => OpenHolds
  BY DEF Init, OpenHolds
<1>2. PipelineInv /\ OpenHolds /\ [Next]_vars => OpenHolds'
  <2> SUFFICES ASSUME PipelineInv, OpenHolds, [Next]_vars, phase' = "open",
                      ~halfErased'
               PROVE  OpenHolds'
    BY DEF OpenHolds
  <2>1. /\ RefusedBefore' = RefusedBefore /\ FirstHeader' = FirstHeader
        /\ ReplayedFile' = ReplayedFile /\ ReplayedLen' = ReplayedLen
        /\ ReplayedTable' = ReplayedTable /\ ~halfErased
    BY OriginStays
  <2>2. CASE ReadTables
    <3>1. /\ phase = "tables" /\ CheckTables(file, devSize, regions) = "ok"
          /\ reader' = Load(file, devSize, regions)
      BY <2>2 DEF ReadTables, Refuse
    <3> QED
      BY <2>1, <3>1, LastStep DEF OpenHolds
  <2>3. CASE UNCHANGED vars
    <3>1. phase = "open" /\ reader' = reader
      BY <2>3 DEF vars
    <3> QED
      BY <2>1, <3>1 DEF OpenHolds
  <2>4. CASE OpenStart \/ MakeRoom \/ ApplyDescriptor \/ ApplyFlush \/ ReadRegions \/ EraseLog
             \/ EraseFlush \/ ClearHeader \/ ClearFlush \/ DeviceError \/ Close \/ Crash
    BY <2>4 DEF OpenStart, MakeRoom, ApplyDescriptor, ApplyFlush, ReadRegions, EraseLog,
                EraseFlush, ClearHeader, ClearFlush, DeviceError, Close, Crash, Forget, Refuse,
                Stage
  <2> QED
    BY <2>2, <2>3, <2>4 DEF Next
<1>3. OpenHolds => ReaderIsReplayed
  BY DEF OpenHolds, ReaderIsReplayed, Recoverable, ReplayedTable, FirstHeader, HeaderOf
<1> QED
  BY <1>1, <1>2, <1>3, PipelineInvariant, PTL DEF Spec

-----------------------------------------------------------------------------
(***************************************************************************)
(* The types, and that an image that can be opened is.                     *)
(***************************************************************************)

(* The length of the file is one the code can meet, and what it reads is   *)
(* one of the crash outcomes.                                              *)
LEMMA DeviceTyped ==
  ASSUME ImagesReplayable, PartInv
  PROVE  /\ DOMAIN file = Granules /\ \A a \in Granules : file[a] \in may[a]
         /\ len \in MIB .. MaxLen /\ len \in lenMay /\ MIB \in Nat /\ MaxLen \in Nat
<1>1. MIB \in Nat /\ MaxLen \in Nat
  BY PipelineAssumption
<1>2. CASE Idle
  <2>1. /\ file = origin.file /\ len = origin.len /\ lenMay = {len}
        /\ \A a \in Granules : may[a] = {file[a]}
    BY <1>2 DEF PartInv, PipelineInv, IdleHolds
  <2>2. origin.len \in MIB .. MaxLen /\ DOMAIN origin.file = Granules
    BY ImageIs DEF PartInv, PipelineInv
  <2> QED
    BY <1>1, <2>1, <2>2
<1>3. CASE ~Idle
  <2>1. Pending /\ PartDevice
    BY <1>3 DEF PartInv, PipelineInv, Pending, PartHolds, PartFile
  <2> QED
    BY <1>1, <2>1, PartLength DEF PartDevice
<1> QED
  BY <1>2, <1>3

(* What the search for a chain may answer. *)
LEMMA LogErrorIs ==
  ASSUME ImagesReplayable, PartInv
  PROVE  CollectReplayChain(file, PickHeader(file, len)).error
           \in {"ok", "Corrupt", "LogUnassembled"}
<1>1. CASE Idle
  <2> DEFINE h == PickHeader(file, len)
  <2>1. file = origin.file
    BY <1>1 DEF PartInv, PipelineInv, IdleHolds
  <2>2. DOMAIN file = Granules
    BY DeviceTyped
  <2>3. \A a \in Granules : file[a].kind = "log" =>
          file[a].error \in {"ok", "Corrupt", "LogUnassembled"}
    BY <2>1, ImageIs DEF PartInv, PipelineInv
  <2> HIDE DEF h
  <2>4. CollectReplayChain(file, h).error \in {"ok", "Corrupt", "LogUnassembled"}
    BY <2>2, <2>3 DEF CollectReplayChain, NoChain
  <2> QED
    BY <2>4 DEF h
<1>2. CASE ~Idle
  <2>1. Pending /\ PartFile
    BY <1>2 DEF PartInv, PipelineInv, Pending, PartHolds
  <2> QED
    BY <2>1, PartFound
<1> QED
  BY <1>1, <1>2

(* Where the open is, what it answers and what it remembers. *)
ControlHolds ==
  /\ phase \in Phases /\ outcome \in Outcomes
  /\ phase = "refused" <=> outcome # "none"
  /\ phase = "open" <=> reader # NoReader
  /\ slot \in {1, 2} /\ devSize \in 0 .. MaxLen

HalfTyped == halfErased \in BOOLEAN

(* A reader is not the absence of one. *)
LEMMA LoadedIs ==
  ASSUME NEW f, NEW n, NEW t
  PROVE  Load(f, n, t) # NoReader
<1>1. Load(f, n, t).kind = "reader"
  BY DEF Load
<1>2. NoReader.kind = "none"
  BY DEF NoReader
<1> QED
  BY <1>1, <1>2

(* The steps that read and answer. *)
LEMMA ControlAnswers ==
  ASSUME ImagesReplayable, PartInv, ControlHolds, OpenStart \/ ReadRegions \/ ReadTables
  PROVE  ControlHolds'
<1>1. CASE OpenStart
  <2> DEFINE error == CheckBeforeReplay(file, len)
             chain == CollectReplayChain(file, PickHeader(file, len)).chain
  <2>1. PickSlot(file, len) \in {1, 2}
    BY DEF PickSlot
  <2>2. error \in {"ok", "NotVhdx", "NoValidHeader", "Unsupported", "Corrupt",
                   "NoValidRegionTable", "LogUnassembled"}
    BY BeforeIs, LogErrorIs
  <2>3. len \in 0 .. MaxLen
    BY DeviceTyped
  <2>4. /\ phase = "closed" /\ slot' = PickSlot(file, len) /\ devSize' = len
        /\ reader' = NoReader
        /\ \/ error # "ok" /\ phase' = "refused" /\ outcome' = error
           \/ phase' = "refused" /\ outcome' = "LogNeedsReplay"
           \/ phase' \in {"regions", "grow"} /\ outcome' = outcome
    BY <1>1 DEF OpenStart, Refuse, Stage
  <2> HIDE DEF error
  <2> QED
    BY <2>1, <2>2, <2>3, <2>4 DEF ControlHolds, Phases, Outcomes
<1>2. CASE ReadRegions
  <2> DEFINE error == CheckRegions(file, devSize, header)
  <2>1. error \in {"ok", "NoValidRegionTable", "Unsupported", "Corrupt"}
    BY RegionsIs
  <2>2. /\ phase = "regions" /\ slot' = slot /\ devSize' = devSize /\ reader' = reader
        /\ \/ error # "ok" /\ phase' = "refused" /\ outcome' = error
           \/ phase' \in {"erase", "tables"} /\ outcome' = outcome
    BY <1>2 DEF ReadRegions, Refuse
  <2> HIDE DEF error
  <2> QED
    BY <2>1, <2>2 DEF ControlHolds, Phases, Outcomes
<1>3. CASE ReadTables
  <2> DEFINE error == CheckTables(file, devSize, regions)
  <2>1. error \in {"ok", "Corrupt", "BadMetadata", "Unsupported"}
    BY TablesOutcome
  <2>2. Load(file, devSize, regions) # NoReader
    BY LoadedIs
  <2>3. /\ phase = "tables" /\ slot' = slot /\ devSize' = devSize
        /\ \/ error # "ok" /\ phase' = "refused" /\ outcome' = error /\ reader' = reader
           \/ phase' = "open" /\ outcome' = outcome /\ reader' = Load(file, devSize, regions)
    BY <1>3 DEF ReadTables, Refuse, localVars
  <2> HIDE DEF error
  <2> QED
    BY <2>1, <2>2, <2>3 DEF ControlHolds, Phases, Outcomes
<1> QED
  BY <1>1, <1>2, <1>3

(* The steps that write, and the end of an open. *)
LEMMA ControlWrites ==
  ASSUME ImagesReplayable, PartInv, ControlHolds,
         \/ MakeRoom \/ ApplyDescriptor \/ ApplyFlush \/ EraseLog \/ EraseFlush \/ ClearHeader
         \/ ClearFlush \/ DeviceError \/ Close \/ Crash
  PROVE  ControlHolds'
<1>1. CASE MakeRoom
  <2>1. \/ phase' = "refused" /\ outcome' = "LogReplay" /\ devSize' = devSize
        \/ /\ ChainFits(devSize, todo) /\ phase' = "apply" /\ outcome' = outcome
           /\ devSize' = ReplayedExtent(devSize, todo)
    BY <1>1 DEF MakeRoom, Refuse
  <2>2. phase = "grow" /\ slot' = slot /\ reader' = reader
    BY <1>1 DEF MakeRoom
  <2>3. ChainFits(devSize, todo) => ReplayedExtent(devSize, todo) \in 0 .. MaxLen
    <3>1. CASE Idle
      BY <2>2, <3>1 DEF PartInv, PipelineInv, IdleHolds
    <3>2. CASE ~Idle
      <4>1. Pending /\ PartHolds
        BY <3>2 DEF PartInv, PipelineInv, Pending
      <4> QED
        BY <2>2, <4>1, PartRoom
    <3> QED
      BY <3>1, <3>2
  <2> QED
    BY <2>1, <2>2, <2>3 DEF ControlHolds, Phases, Outcomes
<1>2. CASE ApplyDescriptor \/ ApplyFlush
  <2>1. /\ phase = "apply" /\ phase' \in {"apply", "regions"} /\ outcome' = outcome
        /\ slot' = slot /\ devSize' = devSize /\ reader' = reader
    BY <1>2 DEF ApplyDescriptor, ApplyFlush
  <2> QED
    BY <2>1 DEF ControlHolds, Phases
<1>3. CASE EraseLog \/ EraseFlush \/ ClearHeader
  <2>1. /\ phase \in {"erase", "eraseFlush", "clear"}
        /\ phase' \in {"eraseFlush", "clear", "clearFlush"} /\ outcome' = outcome
        /\ slot' = slot /\ devSize' = devSize /\ reader' = reader
    BY <1>3 DEF EraseLog, EraseFlush, ClearHeader, localVars
  <2> QED
    BY <2>1 DEF ControlHolds, Phases
<1>4. CASE ClearFlush
  <2>1. /\ phase = "clearFlush" /\ phase' = "tables" /\ outcome' = outcome
        /\ slot' = OtherSlot(slot) /\ devSize' = devSize /\ reader' = reader
    BY <1>4 DEF ClearFlush
  <2> QED
    BY <2>1 DEF ControlHolds, Phases, OtherSlot
<1>5. CASE DeviceError \/ Close \/ Crash
  <2>1. /\ phase' = "closed" /\ outcome' = "none" /\ slot' = 1 /\ devSize' = 0
        /\ reader' = NoReader
    BY <1>5 DEF DeviceError, Close, Crash, Forget
  <2> QED
    BY <2>1, PipelineAssumption DEF ControlHolds, Phases, Outcomes
<1> QED
  BY <1>1, <1>2, <1>3, <1>4, <1>5

(* OpenTypeOK: an error is given exactly when the open is refused and a    *)
(* reader exactly when it is not, whatever the replay has made of the      *)
(* file; no file grows past the bound.                                     *)
THEOREM OpenTypeCorrect ==
  ASSUME ImagesReplayable
  PROVE  Spec => []OpenTypeOK
<1>1. Init => ControlHolds
  BY PipelineAssumption DEF Init, ControlHolds, Phases, Outcomes
<1>2. PartInv /\ ControlHolds /\ [Next]_vars => ControlHolds'
  <2> SUFFICES ASSUME PartInv, ControlHolds, [Next]_vars PROVE ControlHolds'
    OBVIOUS
  <2>1. CASE UNCHANGED vars
    <3>1. /\ phase' = phase /\ outcome' = outcome /\ reader' = reader
          /\ slot' = slot /\ devSize' = devSize
      BY <2>1 DEF vars, localVars
    <3> QED
      BY <3>1 DEF ControlHolds
  <2> QED
    BY <2>1, ControlAnswers, ControlWrites DEF Next
<1>3. (Init => HalfTyped) /\ (HalfTyped /\ [Next]_vars => HalfTyped')
  <2>1. Init => HalfTyped
    BY DEF Init, HalfTyped
  <2>2. ASSUME HalfTyped, [Next]_vars PROVE HalfTyped'
    <3>1. halfErased' \in {halfErased, halfErased \/ LeftInPart(file')}
      BY <2>2 DEF Next, vars, OpenStart, MakeRoom, ApplyDescriptor, ApplyFlush, ReadRegions,
                  EraseLog, EraseFlush, ClearHeader, ClearFlush, ReadTables, DeviceError, Close,
                  Crash, Forget
    <3>2. (halfErased \/ LeftInPart(file')) \in BOOLEAN
      OBVIOUS
    <3> QED
      BY <2>2, <3>1, <3>2 DEF HalfTyped
  <2> QED
    BY <2>1, <2>2
<1>4. PartInv /\ ControlHolds /\ HalfTyped => OpenTypeOK
  BY DeviceTyped DEF ControlHolds, OpenTypeOK, HalfTyped
<1> QED
  BY <1>1, <1>2, <1>3, <1>4, PartInvariant, PTL DEF Spec

(* However far a replay has come one copy of the region table parses: the  *)
(* copy s as it was, or the other as it will be.  When the entry that is   *)
(* applied may cover s, the other one lasts already.                       *)
TableHolds(s) ==
  LET kept == RegionTableOffset(s)
      other == RegionTableOffset(OtherSlot(s))
      before == Len(OriginChain) - Len(todo) IN
  /\ may[kept] = {origin.file[kept]} \/ may[other] = {ReplayedFile[other]}
  /\ phase = "apply" =>
       /\ \A p \in Descriptors(todo) :
            \E q \in Descriptors(OriginChain) :
              q[1] = p[1] + before /\ At(todo, p) = At(OriginChain, q)
       /\ \A q \in Hits(OriginChain, kept) :
            q[1] <= before + 1 => may[other] = {ReplayedFile[other]}
TablesHold ==
  ~Idle /\ ~halfErased => \A s \in {1, 2} :
    TableLasts(origin, s) /\ Hits(OriginChain, RegionTableOffset(s)) # {} => TableHolds(s)

(* The case that needs it: the log covers both copies, one after the other.*)
Ordered(s) ==
  /\ s \in {1, 2} /\ TableLasts(origin, s)
  /\ Hits(OriginChain, RegionTableOffset(s)) # {}

(* The two copies, and what the log writes there. *)
LEMMA OrderedIs ==
  ASSUME Pending, NEW s, Ordered(s)
  PROVE  LET kept == RegionTableOffset(s)
             other == RegionTableOffset(OtherSlot(s)) IN
         /\ kept \in Aside /\ other \in Aside /\ kept \in Granules /\ other \in Granules
         /\ kept \in {3, 4} /\ other \in {3, 4} /\ kept # other
         /\ TableParses(origin.file, origin.len, s)
         /\ TableParses(ReplayedFile, origin.len, OtherSlot(s))
         /\ Hits(OriginChain, other) # {}
         /\ \A p \in Hits(OriginChain, other) :
              /\ At(OriginChain, p).content = ReplayedFile[other]
              /\ \A q \in Hits(OriginChain, kept) : p[1] < q[1]
         /\ \A q \in Descriptors(OriginChain) : q[1] \in Nat /\ q[1] >= 1
         /\ Len(OriginChain) \in Nat
<1>1. ChainOf(origin) = OriginChain /\ Replay(origin.file, OriginChain) = ReplayedFile
  BY DEF ChainOf, HeaderOf, OriginChain, ReplayedFile
<1>2. /\ RegionTableOffset(s) \in {3, 4} /\ RegionTableOffset(OtherSlot(s)) \in {3, 4}
      /\ RegionTableOffset(s) # RegionTableOffset(OtherSlot(s))
  BY DEF Ordered, RegionTableOffset, OtherSlot
<1>3. 3 \in Aside /\ 4 \in Aside /\ 3 \in Granules /\ 4 \in Granules
  BY AsideIs
<1>4. /\ \A q \in Descriptors(OriginChain) : q[1] \in Nat /\ q[1] >= 1
      /\ Len(OriginChain) \in Nat
  BY PendingLog, ParsedShape, Places
<1>5. /\ TableParses(origin.file, origin.len, s)
      /\ TableParses(ReplayedFile, origin.len, OtherSlot(s))
      /\ Hits(OriginChain, RegionTableOffset(OtherSlot(s))) # {}
      /\ \A p \in Hits(OriginChain, RegionTableOffset(OtherSlot(s))) :
           /\ At(OriginChain, p).content = ReplayedFile[RegionTableOffset(OtherSlot(s))]
           /\ \A q \in Hits(OriginChain, RegionTableOffset(s)) : p[1] < q[1]
  BY <1>1 DEF Ordered, TableLasts
<1> QED
  BY <1>2, <1>3, <1>4, <1>5

(* Writing what is there already tears nothing, whether it fails or not. *)
LEMMA SameStays ==
  ASSUME NEW a \in Granules, file[a] \in may[a],
         NEW off \in Nat, NEW n \in Nat, NEW c,
         WriteSpan(off, n, c) \/ FailSpan(off, n, c), may[a] = {c}, c.kind # "log"
  PROVE  may'[a] = {c}
<1>1. file[a] = c /\ Tears(a, c) = {}
  BY DEF Tears
<1>2. CASE WriteSpan(off, n, c)
  BY <1>1, <1>2 DEF WriteSpan
<1>3. CASE FailSpan(off, n, c)
  <2>1. PICK k \in 0 .. n - 1 : FailedAt(k, off, c)
    BY <1>3, FailedIs
  <2>2. file'[a] = c
    BY <1>1, <2>1 DEF FailedAt
  <2> QED
    BY <1>1, <2>1, <2>2 DEF FailedAt
<1> QED
  BY <1>2, <1>3

(* A descriptor that is written, or fails to be, leaves one copy standing. *)
LEMMA OrderedApplies ==
  ASSUME Pending, PendingHolds, NEW s, Ordered(s), TableHolds(s),
         phase = "apply", todo[1].descriptors # << >>,
         \/ WriteSpan(Descriptor.off, Descriptor.len, Descriptor.content)
         \/ FailSpan(Descriptor.off, Descriptor.len, Descriptor.content)
  PROVE  LET kept == RegionTableOffset(s)
             other == RegionTableOffset(OtherSlot(s)) IN
         /\ may'[kept] = {origin.file[kept]} \/ may'[other] = {ReplayedFile[other]}
         /\ may[other] = {ReplayedFile[other]} => may'[other] = {ReplayedFile[other]}
<1> DEFINE kept == RegionTableOffset(s)
           other == RegionTableOffset(OtherSlot(s))
           X == ReplayedFile[other]
           span == Descriptor.off .. Descriptor.off + Descriptor.len - 1
<1>1. /\ kept \in Granules /\ other \in Granules
      /\ \A p \in Hits(OriginChain, other) :
           /\ At(OriginChain, p).content = X
           /\ \A q \in Hits(OriginChain, kept) : p[1] < q[1]
      /\ \A q \in Descriptors(OriginChain) : q[1] \in Nat
      /\ Len(OriginChain) \in Nat
  BY OrderedIs
<1>2. /\ todo # << >> /\ ChainShape(todo) /\ DOMAIN file = Granules
      /\ \A a \in Granules : file[a] \in may[a]
  BY DEF PendingHolds, ReplayHolds, FileHolds, DeviceHolds
<1>3. /\ <<1, 1>> \in Descriptors(todo) /\ Descriptor = At(todo, <<1, 1>>) /\ Len(todo) \in Nat
  BY <1>2, ApplyStep, Places DEF Descriptor
<1>4. PICK q \in Descriptors(OriginChain) :
        /\ q[1] = <<1, 1>>[1] + (Len(OriginChain) - Len(todo))
        /\ At(todo, <<1, 1>>) = At(OriginChain, q)
  BY <1>3 DEF TableHolds
<1>5. q[1] <= Len(OriginChain) - Len(todo) + 1 /\ Descriptor = At(OriginChain, q)
  BY <1>1, <1>3, <1>4
<1>6. Descriptor.off \in Nat /\ Descriptor.len \in Nat
  BY NextDescriptor
<1>7. \A a \in span : a \in Granules => q \in Hits(OriginChain, a)
  BY <1>5 DEF Hits, Covers
<1>8. \A a \in Granules : a \notin span => may'[a] = may[a]
  BY <1>2, <1>6, WriteTouches, FailTouches DEF Touched
<1>9. may[other] = {X} => may'[other] = {X}
  <2>1. CASE other \in span
    <3>1. Descriptor.content = X
      BY <1>1, <1>5, <1>7, <2>1
    <3>2. X.kind # "log"
      BY OrderedIs DEF TableParses, Parses
    <3> QED
      BY <1>1, <1>2, <1>6, <3>1, <3>2, SameStays
  <2>2. CASE other \notin span
    BY <1>1, <1>8, <2>2
  <2> QED
    BY <2>1, <2>2
<1>10. may'[kept] = {origin.file[kept]} \/ may'[other] = {X}
  <2>1. CASE may[other] = {X}
    BY <1>9, <2>1
  <2>2. CASE may[other] # {X}
    <3>1. may[kept] = {origin.file[kept]}
      BY <2>2 DEF TableHolds
    <3>2. kept \notin span
      BY <1>1, <1>5, <1>7, <2>2 DEF TableHolds
    <3> QED
      BY <1>1, <1>8, <3>1, <3>2
  <2> QED
    BY <2>1, <2>2
<1> QED
  BY <1>9, <1>10

(* MakeRoom: no entry is before the first. *)
LEMMA OrderedMakeRoom ==
  ASSUME Pending, ImagesReplayable, PendingHolds, [Next]_vars, NEW s, Ordered(s), TableHolds(s),
         MakeRoom
  PROVE  TableHolds(s)'
<1> DEFINE kept == RegionTableOffset(s)
           other == RegionTableOffset(OtherSlot(s))
<1>1. todo' = todo /\ may' = may /\ todo = OriginChain
  BY RoomFits DEF MakeRoom, SetLen, devVars
<1>2. /\ Len(OriginChain) \in Nat /\ Hits(OriginChain, other) # {}
      /\ \A q \in Descriptors(OriginChain) : q[1] \in Nat /\ q[1] >= 1
      /\ \A p \in Hits(OriginChain, other), q \in Hits(OriginChain, kept) : p[1] < q[1]
  BY OrderedIs
<1>3. Len(OriginChain) - Len(OriginChain) = 0
  BY <1>2
<1>4. \A q \in Hits(OriginChain, kept) : ~(q[1] <= 0 + 1)
  BY <1>2 DEF Hits
<1>5. \A p \in Descriptors(OriginChain) : p[1] = p[1] + 0
  BY <1>2
<1>6. /\ OriginChain' = OriginChain /\ origin' = origin /\ ReplayedFile' = ReplayedFile
  BY OriginStays
<1> QED
  BY <1>1, <1>3, <1>4, <1>5, <1>6 DEF TableHolds

(* ApplyDescriptor. *)
LEMMA OrderedApplyDescriptor ==
  ASSUME Pending, ImagesReplayable, PendingHolds, [Next]_vars, NEW s, Ordered(s), TableHolds(s),
         ApplyDescriptor
  PROVE  TableHolds(s)'
<1> DEFINE kept == RegionTableOffset(s)
           other == RegionTableOffset(OtherSlot(s))
           before == Len(OriginChain) - Len(todo)
           t == [todo EXCEPT ![1].descriptors = Tail(@)]
<1>1. /\ phase = "apply" /\ todo[1].descriptors # << >> /\ phase' = phase
      /\ WriteSpan(Descriptor.off, Descriptor.len, Descriptor.content)
      /\ todo' = t
  BY DEF ApplyDescriptor
<1>2. /\ todo # << >> /\ ChainShape(todo) /\ DOMAIN file = Granules
  BY <1>1 DEF PendingHolds, ReplayHolds, FileHolds, DeviceHolds
<1>3. /\ Len(t) = Len(todo)
      /\ \A p \in Descriptors(t) :
           \E r \in Descriptors(todo) : r[1] = p[1] /\ At(t, p) = At(todo, r)
  BY <1>1, <1>2, ApplyStep, Zenon
<1> HIDE DEF t
<1>4. /\ may'[kept] = {origin.file[kept]} \/ may'[other] = {ReplayedFile[other]}
      /\ may[other] = {ReplayedFile[other]} => may'[other] = {ReplayedFile[other]}
  BY <1>1, OrderedApplies
<1>5. /\ \A p \in Descriptors(todo) :
           \E q \in Descriptors(OriginChain) :
             q[1] = p[1] + before /\ At(todo, p) = At(OriginChain, q)
      /\ \A q \in Hits(OriginChain, kept) :
           q[1] <= before + 1 => may[other] = {ReplayedFile[other]}
  BY <1>1 DEF TableHolds
<1>6. \A p \in Descriptors(t) :
        \E q \in Descriptors(OriginChain) :
          q[1] = p[1] + before /\ At(t, p) = At(OriginChain, q)
  BY <1>3, <1>5
<1>7. /\ OriginChain' = OriginChain /\ origin' = origin /\ ReplayedFile' = ReplayedFile
  BY OriginStays
<1> QED
  BY <1>1, <1>3, <1>4, <1>5, <1>6, <1>7 DEF TableHolds

(* A step after which nothing may be lost, or nothing new may be, and that *)
(* is not in the middle of a chain.                                        *)
LEMMA OrderedKeeps ==
  ASSUME Pending, [Next]_vars, NEW s, Ordered(s), TableHolds(s), phase' # "apply",
         \A a \in {3, 4} : \A x : may[a] = {x} => may'[a] = {x}
  PROVE  TableHolds(s)'
<1>1. origin' = origin /\ ReplayedFile' = ReplayedFile
  BY OriginStays
<1>2. RegionTableOffset(s) \in {3, 4} /\ RegionTableOffset(OtherSlot(s)) \in {3, 4}
  BY OrderedIs
<1> QED
  BY <1>1, <1>2 DEF TableHolds

(* ApplyFlush: before an entry that covers the one copy, the other lasts.  *)
LEMMA OrderedApplyFlush ==
  ASSUME Pending, ImagesReplayable, PendingHolds, [Next]_vars, NEW s, Ordered(s), TableHolds(s),
         ApplyFlush
  PROVE  TableHolds(s)'
<1> DEFINE kept == RegionTableOffset(s)
           other == RegionTableOffset(OtherSlot(s))
           X == ReplayedFile[other]
           before == Len(OriginChain) - Len(todo)
           t == Tail(todo)
<1>1. /\ phase = "apply" /\ todo[1].descriptors = << >> /\ Flush /\ todo' = t
      /\ phase' \in {"regions", "apply"}
  BY DEF ApplyFlush
<1>2. /\ todo # << >> /\ ChainShape(todo) /\ DOMAIN file = Granules
      /\ \A a \in Granules : file[a] \in may[a]
      /\ \A a \in Aside : Replay(file, todo)[a] = ReplayedFile[a]
  BY <1>1 DEF PendingHolds, ReplayHolds, FileHolds, DeviceHolds
<1>3. /\ Len(todo) \in Nat \ {0} /\ Len(t) = Len(todo) - 1 /\ ChainShape(t)
      /\ \A p \in Descriptors(t) :
           \E r \in Descriptors(todo) : r[1] = p[1] + 1 /\ At(t, p) = At(todo, r)
      /\ \A a \in Granules : Replay(file, t)[a] = Replay(file, todo)[a]
  BY <1>1, <1>2, FlushStep
<1> HIDE DEF t
<1>4. /\ kept \in Granules /\ other \in Granules /\ other \in Aside
      /\ kept \in {3, 4} /\ other \in {3, 4}
      /\ \A p \in Hits(OriginChain, other), q \in Hits(OriginChain, kept) : p[1] < q[1]
      /\ \A q \in Descriptors(OriginChain) : q[1] \in Nat
      /\ Len(OriginChain) \in Nat
  BY OrderedIs
<1>5. \A a \in Granules : may'[a] = {file[a]}
  BY <1>1 DEF Flush
<1>6. \A a \in {3, 4} : \A x : may[a] = {x} => may'[a] = {x}
  BY <1>2, <1>5, AsideIs
<1>7. CASE phase' # "apply"
  BY <1>6, <1>7, OrderedKeeps
<1>8. CASE phase' = "apply"
  <2>1. \A p \in Descriptors(t) : p[1] \in Nat /\ p[1] >= 1
    BY <1>3, Places
  <2>2. \A p \in Descriptors(todo) :
          \E q \in Descriptors(OriginChain) :
            q[1] = p[1] + before /\ At(todo, p) = At(OriginChain, q)
    BY <1>1 DEF TableHolds
  <2>3. \A p \in Descriptors(t) :
          \E q \in Descriptors(OriginChain) :
            q[1] = p[1] + (Len(OriginChain) - Len(t)) /\ At(t, p) = At(OriginChain, q)
    <3> SUFFICES ASSUME NEW p \in Descriptors(t)
                 PROVE  \E q \in Descriptors(OriginChain) :
                          /\ q[1] = p[1] + (Len(OriginChain) - Len(t))
                          /\ At(t, p) = At(OriginChain, q)
      OBVIOUS
    <3>1. PICK r \in Descriptors(todo) : r[1] = p[1] + 1 /\ At(t, p) = At(todo, r)
      BY <1>3
    <3>2. PICK q \in Descriptors(OriginChain) :
            q[1] = r[1] + before /\ At(todo, r) = At(OriginChain, q)
      BY <2>2
    <3>3. q[1] = p[1] + (Len(OriginChain) - Len(t))
      BY <1>3, <1>4, <2>1, <3>1, <3>2
    <3> QED
      BY <3>1, <3>2, <3>3
  <2>4. ASSUME NEW q \in Hits(OriginChain, kept), q[1] <= Len(OriginChain) - Len(t) + 1
        PROVE  may'[other] = {X}
    <3>0. q[1] \in Nat
      BY <1>4 DEF Hits
    <3>1. CASE q[1] <= before + 1
      <4>1. may[other] = {X}
        BY <1>1, <3>1 DEF TableHolds
      <4> QED
        BY <1>4, <1>6, <4>1
    <3>2. CASE ~(q[1] <= before + 1)
      <4>1. q[1] = before + 2 /\ Len(OriginChain) - Len(t) = before + 1
        BY <1>3, <1>4, <2>4, <3>0, <3>2
      <4>2. ASSUME NEW p \in Hits(t, other) PROVE FALSE
        <5>1. p \in Descriptors(t) /\ Covers(At(t, p), other)
          BY DEF Hits
        <5>2. PICK r \in Descriptors(OriginChain) :
                r[1] = p[1] + (Len(OriginChain) - Len(t)) /\ At(t, p) = At(OriginChain, r)
          BY <2>3, <5>1
        <5>3. r \in Hits(OriginChain, other)
          BY <5>1, <5>2 DEF Hits
        <5>4. r[1] < q[1]
          BY <1>4, <5>3
        <5> QED
          BY <1>3, <1>4, <2>1, <3>0, <4>1, <5>1, <5>2, <5>4
      <4>3. Replay(file, t)[other] = file[other]
        BY <1>2, <1>4, <4>2 DEF Replay
      <4>4. file[other] = X
        BY <1>2, <1>3, <1>4, <4>3
      <4> QED
        BY <1>4, <1>5, <4>4
    <3> QED
      BY <3>1, <3>2
  <2>5. may'[kept] = {origin.file[kept]} \/ may'[other] = {X}
    BY <1>4, <1>6 DEF TableHolds
  <2>6. OriginChain' = OriginChain /\ origin' = origin /\ ReplayedFile' = ReplayedFile
    BY OriginStays
  <2> QED
    BY <1>1, <2>3, <2>4, <2>5, <2>6 DEF TableHolds
<1> QED
  BY <1>7, <1>8

(* A failed write or a power loss in the middle of a replay. *)
LEMMA OrderedCutOff ==
  ASSUME Pending, ImagesReplayable, PendingHolds, [Next]_vars, NEW s, Ordered(s), TableHolds(s),
         DeviceError \/ Crash
  PROVE  TableHolds(s)'
<1>0. /\ \A a \in Granules : file[a] \in may[a]
      /\ DOMAIN file = Granules /\ phase' = "closed"
  BY DEF PendingHolds, FileHolds, DeviceHolds, DeviceError, Crash, Forget
<1>1. 3 \in Granules /\ 4 \in Granules /\ 3 \notin LogSpan /\ 4 \notin LogSpan
  BY AsideIs
<1>2. CASE Crash
  <2>1. PICK n \in lenMay :
          /\ may' = [a \in Granules |-> {file'[a]}]
          /\ \A a \in Granules : a < n => file'[a] \in may[a]
    BY <1>0, <1>2, PowerLoss DEF Crash
  <2>2. 3 < n /\ 4 < n
    BY LengthIs, PipelineAssumption DEF PendingHolds, FileHolds
  <2>3. \A a \in {3, 4} : \A x : may[a] = {x} => may'[a] = {x}
    BY <1>1, <2>1, <2>2
  <2> QED
    BY <1>0, <2>3, OrderedKeeps
<1>3. CASE UNCHANGED devVars \/ SetLen(AllowedExtent(devSize, todo))
  <2>1. may' = may
    BY <1>3 DEF devVars, SetLen
  <2> QED
    BY <1>0, <2>1, OrderedKeeps
<1>4. CASE /\ phase = "apply" /\ todo[1].descriptors # << >>
           /\ FailSpan(Descriptor.off, Descriptor.len, Descriptor.content)
  <2>1. OriginChain' = OriginChain /\ origin' = origin /\ ReplayedFile' = ReplayedFile
    BY OriginStays
  <2> QED
    BY <1>0, <1>4, <2>1, OrderedApplies DEF TableHolds
<1>5. CASE phase = "erase" /\ FailSpan(header.off, header.len, Blank)
  <2>1. header.off \in Nat /\ header.len \in Nat
    BY <1>5, AtTheEnd, PendingLog
  <2>2. Touched(LogSpan, Blank)
    BY <1>0, <1>5, <2>1, AtTheEnd, FailTouches
  <2>3. \A a \in {3, 4} : may'[a] = may[a]
    BY <1>1, <2>2 DEF Touched
  <2> QED
    BY <1>0, <2>3, OrderedKeeps
<1>6. CASE phase = "clear" /\ FailSpan(HeaderOffset(OtherSlot(slot)), 1, ClearedHeader)
  <2>1. SpareSlot .. SpareSlot + 1 - 1 = {SpareSlot} /\ SpareSlot \in Nat /\ SpareSlot \in {1, 2}
    BY SlotsAre
  <2>2. FailSpan(SpareSlot, 1, Consumed) /\ 1 \in Nat
    BY <1>6, AtTheEnd
  <2>3. Touched(SpareSlot .. SpareSlot + 1 - 1, Consumed)
    BY <1>0, <2>1, <2>2, FailTouches, Zenon
  <2>4. \A a \in {3, 4} : may'[a] = may[a]
    BY <1>1, <2>1, <2>3 DEF Touched
  <2> QED
    BY <1>0, <2>4, OrderedKeeps
<1> QED
  BY <1>2, <1>3, <1>4, <1>5, <1>6 DEF DeviceError

(* Every step. *)
LEMMA OrderedNext ==
  ASSUME Pending, ImagesReplayable, PendingHolds, [Next]_vars, NEW s, Ordered(s), TableHolds(s)
  PROVE  TableHolds(s)'
<1>0. /\ \A a \in Granules : file[a] \in may[a]
      /\ 3 \in Granules /\ 4 \in Granules /\ 3 \notin LogSpan /\ 4 \notin LogSpan
  BY AsideIs DEF PendingHolds, FileHolds, DeviceHolds
<1>1. CASE OpenStart \/ ReadRegions \/ ReadTables \/ Close
  <2>1. may' = may /\ phase' # "apply"
    BY <1>1 DEF OpenStart, ReadRegions, ReadTables, Close, Forget, Refuse, Stage, devVars
  <2> QED
    BY <2>1, OrderedKeeps
<1>2. CASE EraseFlush \/ ClearFlush
  <2>1. Flush /\ phase' # "apply"
    BY <1>2 DEF EraseFlush, ClearFlush
  <2>2. \A a \in {3, 4} : \A x : may[a] = {x} => may'[a] = {x}
    BY <1>0, <2>1 DEF Flush
  <2> QED
    BY <2>1, <2>2, OrderedKeeps
<1>3. CASE EraseLog
  <2>1. WriteSpan(header.off, header.len, Blank) /\ phase' # "apply" /\ phase = "erase"
    BY <1>3 DEF EraseLog
  <2>2. Touched(LogSpan, Blank)
    BY <1>0, <2>1, AtTheEnd, WriteTouches
  <2>3. \A a \in {3, 4} : may'[a] = may[a]
    BY <1>0, <2>2 DEF Touched
  <2> QED
    BY <2>1, <2>3, OrderedKeeps
<1>4. CASE ClearHeader
  <2>1. /\ WriteSpan(HeaderOffset(OtherSlot(slot)), 1, ClearedHeader)
        /\ phase' # "apply" /\ phase = "clear"
    BY <1>4 DEF ClearHeader
  <2>2. SpareSlot .. SpareSlot + 1 - 1 = {SpareSlot} /\ SpareSlot \in {1, 2}
    BY SlotsAre
  <2>3. HeaderOffset(OtherSlot(slot)) = SpareSlot
    BY <2>1, AtTheEnd
  <2>4. \A a \in {3, 4} : may'[a] = may[a]
    BY <1>0, <2>1, <2>2, <2>3 DEF WriteSpan
  <2> QED
    BY <2>1, <2>4, OrderedKeeps
<1>5. CASE UNCHANGED vars
  <2>1. may' = may /\ phase' = phase /\ todo' = todo
    BY <1>5 DEF vars, devVars, localVars
  <2>2. OriginChain' = OriginChain /\ origin' = origin /\ ReplayedFile' = ReplayedFile
    BY OriginStays
  <2> QED
    BY <2>1, <2>2 DEF TableHolds
<1> QED
  BY <1>1, <1>2, <1>3, <1>4, <1>5, OrderedMakeRoom, OrderedApplyDescriptor, OrderedApplyFlush,
     OrderedCutOff DEF Next

(* It holds throughout: one copy of the region table always parses. *)
LEMMA TablesInvariant ==
  ASSUME ImagesReplayable
  PROVE  Spec => []TablesHold
<1>1. Init => TablesHold
  <2> SUFFICES ASSUME Init, ~Idle, NEW s \in {1, 2}, TableLasts(origin, s),
                      Hits(OriginChain, RegionTableOffset(s)) # {}
               PROVE  TableHolds(s)
    BY DEF TablesHold
  <2>1. Pending /\ Ordered(s)
    BY DEF Init, Pending, Ordered
  <2>2. RegionTableOffset(s) \in Granules
    BY <2>1, OrderedIs
  <2>3. may[RegionTableOffset(s)] = {origin.file[RegionTableOffset(s)]} /\ phase # "apply"
    BY <2>2 DEF Init
  <2> QED
    BY <2>3 DEF TableHolds
<1>2. PipelineInv /\ TablesHold /\ [Next]_vars => TablesHold'
  <2> SUFFICES ASSUME PipelineInv, TablesHold, [Next]_vars PROVE TablesHold'
    OBVIOUS
  <2>1. OriginChain' = OriginChain /\ origin' = origin /\ Idle' = Idle
        /\ (halfErased => halfErased')
    BY OriginStays
  <2>2. ASSUME ~Idle, ~halfErased', NEW s \in {1, 2}, TableLasts(origin, s),
               Hits(OriginChain, RegionTableOffset(s)) # {}
        PROVE  TableHolds(s)'
    <3>1. Pending /\ PendingHolds /\ Ordered(s) /\ TableHolds(s)
      BY <2>1, <2>2 DEF PipelineInv, Pending, PendingHolds, Ordered, TablesHold
    <3> QED
      BY <3>1, OrderedNext
  <2> QED
    BY <2>1, <2>2 DEF TablesHold
<1> QED
  BY <1>1, <1>2, PipelineInvariant, PTL DEF Spec

(* A copy of the region table, however far a replay has come: one of the   *)
(* image's, one of the log's, or torn; clear of the log if it parses.      *)
LEMMA TableAsideIs ==
  ASSUME Pending, TablesApart(origin), FileHolds, NEW s \in {1, 2},
         file[RegionTableOffset(s)].kind = "table"
  PROVE  LogRegionClear(file[RegionTableOffset(s)], FirstHeader)
<1> DEFINE a == RegionTableOffset(s)
<1>1. a \in Aside /\ a \in Granules
  BY AsideIs DEF RegionTableOffset
<1>2. file[a] \in {origin.file[a]} \cup AppliedAt(a) \cup {Torn}
  BY <1>1 DEF FileHolds, DeviceHolds, AsideHolds
<1>3. ChainOf(origin) = OriginChain /\ HeaderOf(origin) = FirstHeader
  BY DEF ChainOf, OriginChain, HeaderOf, FirstHeader
<1>4. CASE file[a] = origin.file[a]
  BY <1>3, <1>4 DEF TablesApart
<1>5. CASE file[a] \in AppliedAt(a)
  <2>1. PICK p \in Hits(OriginChain, a) : file[a] = At(OriginChain, p).content
    BY <1>5 DEF AppliedAt
  <2> QED
    BY <1>3, <2>1 DEF TablesApart
<1>6. CASE file[a] = Torn
  BY <1>6 DEF Torn
<1> QED
  BY <1>2, <1>4, <1>5, <1>6

(* What an interrupted replay leaves passes the checks before the next. *)
LEMMA RetryPasses ==
  ASSUME Pending, ImagesReplayable, TablesApart(origin), FileHolds, TablesHold,
         ~halfErased
  PROVE  CheckBeforeReplay(file, len) = "ok"
<1> DEFINE h == PickHeader(file, len)
           t == PickRegionTable(file, len)
<1>1. ChainOf(origin) = OriginChain
  BY DEF ChainOf, OriginChain, HeaderOf
<1>2. /\ len \in Nat /\ origin.len \in Nat /\ len >= origin.len
  BY LengthIs, ImageIs DEF FileHolds, Pending
<1>3. \A a \in Aside : Hits(OriginChain, a) = {} => file[a] = origin.file[a]
  BY AsideIs DEF FileHolds, DeviceHolds, AsideHolds, AppliedAt
<1>4. file[FILE_IDENTIFIER_OFFSET].kind = "identifier"
  BY <1>1, <1>3, AsideIs, PendingChecks DEF TablesApart, FILE_IDENTIFIER_OFFSET
<1>5. /\ HasHeader(file, len) /\ h \in {FirstHeader, Consumed}
  <2>1. HeadersHold /\ (\A a \in Granules : file[a] \in may[a]) /\ 2 < len
    BY LengthIs DEF FileHolds, DeviceHolds
  <2> QED
    BY <1>2, <2>1, HeaderPicked
<1>6. h.version = 0 /\ h.off = FirstHeader.off /\ h.len = FirstHeader.len
  BY <1>5, ConsumedIs, PendingChecks
<1>7. ValidLogRegion(len, h)
  <2>1. ValidLogRegion(origin.len, FirstHeader)
    BY PendingChecks
  <2>2. FirstHeader.off \in Nat /\ FirstHeader.len \in Nat
    BY PendingLog
  <2> QED
    BY <1>2, <1>6, <2>1, <2>2 DEF ValidLogRegion, SpanInsideTheFile
<1>8. HasTable(file, len)
  <2>1. PICK s \in {1, 2} : TableLasts(origin, s)
    BY DEF TablesApart
  <2>2. TableParses(origin.file, origin.len, s)
    BY <2>1 DEF TableLasts
  <2>3. \A r \in {1, 2} : /\ RegionTableOffset(r) \in Aside /\ RegionTableOffset(r) \in Granules
                          /\ RegionTableOffset(r) \in Nat
    BY AsideIs DEF RegionTableOffset
  <2>4. ASSUME NEW r \in {1, 2}, NEW f, TableParses(f, origin.len, r),
               file[RegionTableOffset(r)] = f[RegionTableOffset(r)]
        PROVE  TableParses(file, len, r)
    BY <1>2, <2>3, <2>4 DEF TableParses, Parses
  <2>5. CASE file[RegionTableOffset(s)] = origin.file[RegionTableOffset(s)]
    BY <2>2, <2>4, <2>5 DEF HasTable
  <2>6. CASE file[RegionTableOffset(s)] # origin.file[RegionTableOffset(s)]
    <3>1. Hits(OriginChain, RegionTableOffset(s)) # {}
      BY <1>3, <2>3, <2>6
    <3>2. Ordered(s) /\ TableHolds(s)
      BY <2>1, <3>1 DEF Ordered, TablesHold, Pending
    <3>3. OtherSlot(s) \in {1, 2}
      BY DEF OtherSlot
    <3>4. file[RegionTableOffset(s)] \in may[RegionTableOffset(s)]
          /\ file[RegionTableOffset(OtherSlot(s))] \in may[RegionTableOffset(OtherSlot(s))]
      BY <2>3, <3>3 DEF FileHolds, DeviceHolds
    <3>5. file[RegionTableOffset(OtherSlot(s))] = ReplayedFile[RegionTableOffset(OtherSlot(s))]
      BY <2>6, <3>2, <3>4 DEF TableHolds
    <3>6. TableParses(ReplayedFile, origin.len, OtherSlot(s))
      BY <3>2, OrderedIs
    <3> QED
      BY <2>4, <3>3, <3>5, <3>6 DEF HasTable
  <2> QED
    BY <2>5, <2>6
<1>9. LogRegionClear(t, h)
  <2>1. PICK s \in {1, 2} : t = file[RegionTableOffset(s)] /\ t.kind = "table"
    BY <1>8, PickedTable
  <2>2. LogRegionClear(t, FirstHeader)
    BY <2>1, TableAsideIs
  <2> QED
    BY <1>6, <2>2 DEF LogRegionClear
<1>10. CollectReplayChain(file, h).error = "ok"
  BY ChainFound DEF NoChain
<1> QED
  BY <1>4, <1>5, <1>6, <1>7, <1>8, <1>9, <1>10, BeforeIs

(* OpenStart turns an image away that is not recoverable, or one it would  *)
(* have to write to and cannot.                                            *)
LEMMA OpenStartRefuses ==
  ASSUME ImagesReplayable, ImagesRetryable, PipelineInv, TablesHold, OpenStart,
         phase' = "refused", ~halfErased
  PROVE  \/ ~Recoverable
         \/ outcome' = "LogNeedsReplay" /\ ~capable' /\ OriginChain # << >>
<1> DEFINE error == CheckBeforeReplay(file, len)
           chain == CollectReplayChain(file, PickHeader(file, len)).chain
<1>1. \/ error # "ok"
      \/ chain # << >> /\ ~capable' /\ outcome' = "LogNeedsReplay"
  BY DEF OpenStart, Stage, Refuse
<1>2. CASE Idle
  <2>1. file = origin.file /\ len = origin.len
    BY <1>2 DEF PipelineInv, IdleHolds
  <2>2. error # "ok" => RefusedBefore
    BY <2>1 DEF RefusedBefore
  <2>3. chain = OriginChain
    BY <2>1 DEF OriginChain
  <2> QED
    BY <1>1, <1>2, <2>2, <2>3 DEF Idle, Recoverable
<1>3. CASE ~Idle
  <2>1. Pending /\ FileHolds
    BY <1>3 DEF PipelineInv, Pending
  <2>2. chain \in {OriginChain, << >>}
    BY <2>1, ChainFound DEF NoChain
  <2>3. Recoverable => error = "ok"
    <3> SUFFICES ASSUME Recoverable PROVE error = "ok"
      OBVIOUS
    <3>1. /\ ChainOf(origin) = OriginChain /\ HeaderOf(origin) = FirstHeader
          /\ Replay(origin.file, OriginChain) = ReplayedFile
          /\ ReplayedExtent(origin.len, OriginChain) = ReplayedLen
      BY DEF ChainOf, OriginChain, HeaderOf, FirstHeader, ReplayedFile, ReplayedLen
    <3>2. CheckRegions(ReplayedFile, ReplayedLen, FirstHeader) = "ok"
      BY DEF Recoverable, FirstHeader, HeaderOf
    <3>3. /\ CheckBeforeReplay(origin.file, origin.len) = "ok" /\ OriginChain # << >>
          /\ origin \in Images
      BY <2>1 DEF Pending, Idle, RefusedBefore
    <3>4. TablesApart(origin)
      BY <3>1, <3>2, <3>3 DEF ImagesRetryable
    <3> QED
      BY <2>1, <3>4, RetryPasses
  <2> QED
    BY <1>1, <2>2, <2>3
<1> QED
  BY <1>2, <1>3

(* So does every step that refuses. *)
LEMMA StepRefuses ==
  ASSUME ImagesReplayable, ImagesRegular, PipelineInv, MakeRoom \/ ReadRegions \/ ReadTables,
         phase' = "refused", ~halfErased
  PROVE  ~Recoverable
<1>1. CASE MakeRoom
  <2>1. phase = "grow" /\ ~ChainFits(devSize, todo)
    BY <1>1 DEF MakeRoom
  <2>2. CASE Idle
    <3>1. todo = OriginChain
      BY <2>1, <2>2 DEF PipelineInv, IdleHolds
    <3>2. OriginChain # << >>
      <4>1. DOMAIN << >> = {}
        OBVIOUS
      <4>2. Descriptors(<< >>) = {}
        BY <4>1 DEF Descriptors
      <4>3. ChainFits(devSize, << >>)
        BY <4>2 DEF ChainFits
      <4> QED
        BY <2>1, <3>1, <4>3
    <3> QED
      BY <2>2, <3>2 DEF Idle, Recoverable
  <2>3. CASE ~Idle
    <3>1. Pending /\ PendingHolds
      BY <2>3 DEF PipelineInv, Pending, PendingHolds
    <3> QED
      BY <2>1, <3>1, RoomFits
  <2> QED
    BY <2>2, <2>3
<1>2. CASE ReadRegions
  <2>1. phase = "regions" /\ CheckRegions(file, devSize, header) # "ok"
    BY <1>2 DEF ReadRegions
  <2>2. CheckRegions(file, devSize, header) = CheckRegions(ReplayedFile, ReplayedLen, FirstHeader)
    <3>1. CASE Idle
      <4>1. /\ ~RefusedBefore /\ devSize = len /\ header = FirstHeader
            /\ file = origin.file /\ len = origin.len
        BY <2>1, <3>1 DEF PipelineInv, IdleHolds
      <4>2. ReplayedFile = file /\ ReplayedLen = len
        BY <3>1, <4>1, PlainReplay DEF Idle, PipelineInv
      <4> QED
        BY <4>1, <4>2
    <3>2. CASE ~Idle
      <4>1. Pending /\ FileHolds /\ Done /\ devSize = len /\ header \in {FirstHeader, Consumed}
        BY <2>1, <3>2 DEF PipelineInv, Pending, EndHolds
      <4> QED
        BY <4>1, TableFound
    <3> QED
      BY <3>1, <3>2
  <2> QED
    BY <2>1, <2>2 DEF Recoverable, FirstHeader, HeaderOf
<1>3. CASE ReadTables
  <2>1. phase = "tables" /\ CheckTables(file, devSize, regions) # "ok"
    BY <1>3 DEF ReadTables
  <2>2. CheckTables(ReplayedFile, ReplayedLen, ReplayedTable) # "ok"
    BY <2>1, LastStep
  <2> QED
    BY <2>2 DEF Recoverable, ReplayedTable
<1> QED
  BY <1>1, <1>2, <1>3

(* RecoverableIsOpened: an image that is sound once its log is applied is  *)
(* never turned away, wherever a replay of it was cut off, but for an      *)
(* opener that cannot write where there is something to apply, and as long *)
(* as no erase was cut off that left part of the log (halfErased).         *)
THEOREM RecoverableIsOpenedAlways ==
  ASSUME ImagesReplayable, ImagesRegular, ImagesRetryable
  PROVE  Spec => []RecoverableIsOpened
<1>1. Init => RecoverableIsOpened
  BY DEF Init, RecoverableIsOpened
<1>2. PipelineInv /\ TablesHold /\ RecoverableIsOpened /\ [Next]_vars => RecoverableIsOpened'
  <2> SUFFICES ASSUME PipelineInv, TablesHold, RecoverableIsOpened, [Next]_vars,
                      phase' = "refused", ~halfErased'
               PROVE  RecoverableIsOpened'
    BY DEF RecoverableIsOpened
  <2>1. /\ Recoverable' = Recoverable /\ OriginChain' = OriginChain /\ ~halfErased
    BY OriginStays DEF Recoverable, ReplayedTable, FirstHeader, HeaderOf
  <2>2. CASE OpenStart
    BY <2>1, <2>2, OpenStartRefuses DEF RecoverableIsOpened
  <2>3. CASE MakeRoom \/ ReadRegions \/ ReadTables
    BY <2>1, <2>3, StepRefuses DEF RecoverableIsOpened
  <2>4. CASE UNCHANGED vars
    <3>1. phase' = phase /\ outcome' = outcome /\ capable' = capable
      BY <2>4 DEF vars, localVars
    <3> QED
      BY <2>1, <3>1 DEF RecoverableIsOpened
  <2>5. CASE ApplyDescriptor \/ ApplyFlush \/ EraseLog \/ EraseFlush \/ ClearHeader \/ ClearFlush
             \/ DeviceError \/ Close \/ Crash
    BY <2>5 DEF ApplyDescriptor, ApplyFlush, EraseLog, EraseFlush, ClearHeader, ClearFlush,
                DeviceError, Close, Crash, Forget
  <2> QED
    BY <2>2, <2>3, <2>4, <2>5 DEF Next
<1> QED
  BY <1>1, <1>2, PipelineInvariant, TablesInvariant, PTL DEF Spec
=============================================================================

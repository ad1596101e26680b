--------------------------- MODULE MCOpenPipeline ----------------------------
(***************************************************************************)
(* Images for TLC to open.  A megabyte is five granules; the log is the    *)
(* second megabyte of the file, the metadata the third, the BAT the        *)
(* fourth, and block 0 lies in the fifth.  Every image but the last few is *)
(* the sound one with one thing changed.                                   *)
(***************************************************************************)
EXTENDS OpenPipeline

Item(id, b, p, n) ==
  [id |-> id, inside |-> TRUE, whole |-> TRUE, required |-> TRUE,
   value |-> [block |-> b, parent |-> p, number |-> n]]
FileParameters == Item("FileParameters", 2, FALSE, 0)
Meta(fp, more) ==
  [kind |-> "meta", items |-> <<fp, Item("VirtualDiskSize", 0, FALSE, 4),
     Item("LogicalSectorSize", 0, FALSE, 1), Item("Page83Data", 0, FALSE, 0)>> \o more]
SoundMeta == Meta(FileParameters, << >>)

Region(g, o, n, r) == [guid |-> g, off |-> o, len |-> n, required |-> r]
Table(es) == [kind |-> "table", entries |-> es]
SoundTable == Table(<<Region("bat", 15, 5, TRUE), Region("metadata", 10, 5, TRUE)>>)

Header(seq, guid) ==
  [kind |-> "header", seq |-> seq, guid |-> guid, version |-> 0, off |-> 5, len |-> 5]
Bat(off) == [kind |-> "batEntry", off |-> off]
(* Every entry names the first as its tail: with its end gone the chain is *)
(* a shorter one, with its beginning gone it cannot be assembled.          *)
Remains(es) ==
  {[error |-> "ok", chain |-> SubSeq(es, 1, k)] : k \in 1 .. Len(es) - 1}
    \cup (IF Len(es) < 2 THEN {} ELSE {[error |-> "LogUnassembled", chain |-> << >>]})
Log(es) == [kind |-> "log", guid |-> "g", error |-> "ok", chain |-> es, remains |-> Remains(es)]
Entry(last, ds) == [last |-> last, descriptors |-> ds]
Write(a, c) == [off |-> a, len |-> 1, content |-> c]
Zeros(a, n) == [off |-> a, len |-> n, content |-> Blank]

SoundFile(guid, log) ==
  [a \in 0 .. MaxLen - 1 |->
     CASE a = 0 -> [kind |-> "identifier"]
       [] a = 1 -> Torn
       [] a = 2 -> Header(1, guid)
       [] a = 3 -> SoundTable
       [] a = 4 -> SoundTable
       [] a = 5 -> log
       [] a = 10 -> SoundMeta
       [] a = 15 -> Bat(20)
       [] OTHER -> Blank]
Image(f) == [file |-> f, len |-> 25]
Clean == SoundFile(NoGuid, Blank)
Pending(es) == SoundFile("g", Log(es))

(* One structure of a clean image is not what it should be. *)
Both(t) == [Clean EXCEPT ![3] = t, ![4] = t]
WithMeta(m) == [Clean EXCEPT ![10] = m]
HeaderDefects ==
  {[Clean EXCEPT ![0] = Blank], [Clean EXCEPT ![2] = Blank],
   [Clean EXCEPT ![2].version = 1], [Clean EXCEPT ![2].off = 6], [Clean EXCEPT ![2].len = 4],
   [Clean EXCEPT ![2].off = 0], [Clean EXCEPT ![2].len = 25], [Clean EXCEPT ![2].off = 10],
   [Clean EXCEPT ![2].len = 0], Both(Torn), [Clean EXCEPT ![3] = Torn]}
TableDefects ==
  {Both(Table(<<Region("bat", 15, 5, TRUE)>>)),
   Both(Table(<<Region("metadata", 10, 5, TRUE)>>)),
   Both(Table(<<Region("bat", 15, 1, TRUE), Region("metadata", 10, 5, TRUE)>>)),
   Both(Table(<<Region("bat", 24, 5, TRUE), Region("metadata", 10, 5, TRUE)>>)),
   Both(Table(<<Region("bat", 15, 5, TRUE), Region("metadata", 24, 5, TRUE)>>)),
   Both(Table(<<Region("bat", 15, 5, TRUE), Region("metadata", 10, 0, TRUE)>>)),
   Both(Table(SoundTable.entries \o <<Region("vendor", 20, 5, TRUE)>>)),
   Both(Table(SoundTable.entries \o <<Region("vendor", 20, 5, FALSE)>>)),
   Both(Table([i \in 1 .. 5 |-> Region("vendor", 20, 1, FALSE)]))}
MetadataDefects ==
  {WithMeta(m) : m \in
    {Blank, [kind |-> "meta", items |-> << >>], Meta([FileParameters EXCEPT !.inside = FALSE], << >>),
     Meta([FileParameters EXCEPT !.whole = FALSE], << >>),
     [SoundMeta EXCEPT !.items[2].whole = FALSE], [SoundMeta EXCEPT !.items[3].inside = FALSE],
     [SoundMeta EXCEPT !.items[3].value.number = 3],
     Meta([FileParameters EXCEPT !.value.block = 3], << >>),
     Meta([FileParameters EXCEPT !.value.block = 1], << >>),
     Meta([FileParameters EXCEPT !.value.block = 8], << >>),
     Meta(FileParameters, <<Item("Unknown", 0, FALSE, 0)>>),
     Meta(FileParameters, <<[Item("Unknown", 0, FALSE, 0) EXCEPT !.required = FALSE]>>),
     Meta(FileParameters, <<Item("PhysicalSectorSize", 0, FALSE, 8)>>),
     Meta(FileParameters, [i \in 1 .. 4 |-> [Item("Unknown", 0, FALSE, 0) EXCEPT !.required = FALSE]]),
     [SoundMeta EXCEPT !.items[2].value.number = 0]}}
LogDefects ==
  {SoundFile("g", [Log(<< >>) EXCEPT !.error = "LogUnassembled"]),
   SoundFile("g", [Log(<< >>) EXCEPT !.error = "Corrupt"]),
   SoundFile("g", Blank), SoundFile("g", [Log(<< >>) EXCEPT !.guid = "h"])}

(* Logs left by another implementation.  It had moved the BAT to the tail  *)
(* of a file that was still to grow, table first, then its entries.        *)
MovedTable == Table(<<Region("bat", 25, 5, TRUE), Region("metadata", 10, 5, TRUE)>>)
MovedBat ==
  Pending(<<Entry(25, <<Write(3, MovedTable)>>),
            Entry(30, <<Zeros(25, 5), Write(26, Bat(20)), Zeros(15, 0)>>)>>)
(* Both copies of the table, in an entry each; the metadata it was         *)
(* rewriting is torn on the disk.                                          *)
BothTables ==
  [Pending(<<Entry(25, <<Write(3, MovedTable), Zeros(26, 1)>>),
             Entry(30, <<Write(4, MovedTable), Write(10, SoundMeta)>>)>>)
   EXCEPT ![10] = Torn, ![3] = Torn]
Differencing ==
  Pending(<<Entry(25, <<Write(10, Meta([FileParameters EXCEPT !.value.parent = TRUE], << >>))>>)>>)
TransformRegion ==
  Pending(<<Entry(25, <<Write(3, Table(SoundTable.entries \o <<Region("vendor", 20, 5, TRUE)>>))>>)>>)
(* Once it is replayed the table puts the metadata where the log is. *)
OntoTheLog ==
  Pending(<<Entry(25, <<Write(3, Table(<<Region("bat", 15, 5, TRUE),
                                          Region("metadata", 5, 5, TRUE)>>))>>)>>)
LogOnMetadata == [Pending(<<Entry(25, <<Write(15, Bat(22))>>)>>) EXCEPT
                    ![3] = Table(<<Region("bat", 15, 5, TRUE), Region("metadata", 5, 5, TRUE)>>)]
(* The second entry leaves the file. *)
PastTheEnd == Pending(<<Entry(25, <<Write(15, Bat(22))>>), Entry(25, <<Write(25, Bat(22))>>)>>)
(* The log has wrapped: with its only live entry gone, the entry of the    *)
(* lap before is the one that is found.                                    *)
Wrapped ==
  [Pending(<<Entry(25, <<Write(15, Bat(22))>>)>>) EXCEPT
     ![5].remains = {[error |-> "ok", chain |-> <<Entry(25, <<Write(15, Bat(21))>>)>>]}]

PipelineImages ==
  {Image(f) : f \in {Clean, MovedBat, BothTables, Differencing, TransformRegion, OntoTheLog,
                     LogOnMetadata, PastTheEnd, Wrapped}
                    \cup HeaderDefects \cup TableDefects \cup MetadataDefects \cup LogDefects}

SectorSizesHere == {1, 8}
=============================================================================

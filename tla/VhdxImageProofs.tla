-------------------------- MODULE VhdxImageProofs ---------------------------
(***************************************************************************)
(* Proofs about VhdxImage for every number of writers, blocks and          *)
(* sessions: types, for every image; then that no two virtual blocks share *)
(* a byte of the host file, and no BAT entry that a crash can leave names  *)
(* bytes past the end of it, for every image that is sound before its      *)
(* first open, with any crashes and device errors.                         *)
(***************************************************************************)
EXTENDS VhdxImage, TLAPS

(* AlignUp, the mask arithmetic of allocate_block_for, never goes back.    *)
LEMMA AlignUpNotBefore ==
  ASSUME NEW n \in Nat
  PROVE  AlignUp(n) \in Nat /\ AlignUp(n) >= n
<1>1. BlockSize \in Nat \ {0}
  BY SizesAssumption
<1>2. n % BlockSize \in 0 .. BlockSize - 1
  BY <1>1
<1>3. (BlockSize - (n % BlockSize)) % BlockSize \in 0 .. BlockSize - 1
  BY <1>1, <1>2
<1> QED
  BY <1>3 DEF AlignUp

(* A bumped sequence number is a number: wrapping_add(1) stays in range. *)
LEMMA NextSeqType ==
  ASSUME NEW n \in Nat
  PROVE  NextSeq(n) \in Nat
<1>1. SeqLimit \in Nat \ {0}
  BY SizesAssumption
<1> QED
  BY <1>1 DEF NextSeq

(* stir_sequence_into_guid makes a GUID out of a GUID. *)
LEMMA StirType ==
  ASSUME NEW g \in Guids, NEW n
  PROVE  Stir(g, n) \in Guids
<1>1. BitsOf(n) \subseteq Bits
  BY DEF BitsOf
<1> QED
  BY <1>1 DEF Stir, Guids

(* The named entries, headers and images have their types. *)
LEMMA ConstantTypes ==
  /\ AbsentEntry \in Entries
  /\ SpoiledEntry \in Entries
  /\ \A o \in Nat : PresentEntry(o) \in Entries
  /\ NoGuid \in Guids
  /\ TornHeader \in Headers
  /\ NoImage \in Images
  /\ NoEntry \in LogEntries
<1>1. NoGuid \in Guids
  BY DEF NoGuid, Guids
<1>2. NoImage \in Images
  BY DEF NoImage, Images
<1> QED
  BY <1>1, <1>2 DEF AbsentEntry, SpoiledEntry, PresentEntry, Entries, TornHeader, Headers,
     NoEntry, LogEntries

(* What a crash leaves of a piece is one of the contents it may have. *)
LEMMA SurvivorIsAdmitted ==
  ASSUME NEW view, NEW may, NEW f \in Survivors(view, may), NEW x \in DOMAIN view
  PROVE  DOMAIN f = DOMAIN view /\ (f[x] \in may[x] \/ f[x] = view[x])
  BY DEF Survivors

-----------------------------------------------------------------------------
(***************************************************************************)
(* Type correctness, one lemma per device operation, then one step per     *)
(* action.                                                                 *)
(***************************************************************************)
LEMMA WriteHeaderType ==
  ASSUME FileTypeOK, NEW s \in Slots, NEW h \in Headers, WriteHeader(s, h)
  PROVE  FileTypeOK'
  BY ConstantTypes
  DEF FileTypeOK, WriteHeader, hdrVars, logVars, batVars, dataVars, lenVars

(* Each device operation keeps the types of the file: the log write, *)
LEMMA WriteLogType ==
  ASSUME FileTypeOK, NEW e \in LogEntries, WriteLog(e)
  PROVE  FileTypeOK'
  BY ConstantTypes
  DEF FileTypeOK, WriteLog, hdrVars, logVars, batVars, dataVars, lenVars

(* the BAT sector write, *)
LEMMA WriteBatSectorType ==
  ASSUME FileTypeOK, NEW i \in Images, WriteBatSector(i)
  PROVE  FileTypeOK'
<1>1. \A b \in Blocks : i[b] # Uncovered => i[b] \in Entries
  BY DEF Images
<1>2. bat' \in [Blocks -> Entries]
  BY <1>1 DEF FileTypeOK, WriteBatSector
<1>3. batMay' \in [Blocks -> SUBSET Entries]
  BY <1>1, ConstantTypes DEF FileTypeOK, WriteBatSector
<1> QED
  BY <1>2, <1>3
  DEF FileTypeOK, WriteBatSector, hdrVars, logVars, batVars, dataVars, lenVars

(* A BAT sector whose write failed half way. *)
LEMMA TearBatSectorType ==
  ASSUME FileTypeOK, NEW i \in Images, TearBatSector(i)
  PROVE  FileTypeOK'
<1>1. \A b \in Blocks : i[b] # Uncovered => i[b] \in Entries
  BY DEF Images
<1>2. bat' \in [Blocks -> Entries]
  <2>1. PICK cut \in Blocks :
          bat' = [b \in Blocks |-> IF b = cut THEN SpoiledEntry
                                  ELSE IF b < cut /\ i[b] # Uncovered THEN i[b] ELSE bat[b]]
    BY DEF TearBatSector
  <2> QED
    BY <1>1, <2>1, ConstantTypes DEF FileTypeOK
<1>3. batMay' \in [Blocks -> SUBSET Entries]
  BY <1>1, ConstantTypes DEF FileTypeOK, TearBatSector
<1> QED
  BY <1>2, <1>3
  DEF FileTypeOK, TearBatSector, hdrVars, logVars, batVars, dataVars, lenVars

(* the payload write, *)
LEMMA WriteCellsType ==
  ASSUME FileTypeOK, NEW from, NEW to, NEW v \in CellValues, WriteCells(from, to, v)
  PROVE  FileTypeOK'
  BY DEF FileTypeOK, WriteCells, hdrVars, logVars, batVars, dataVars, lenVars

(* the growth of the file, *)
LEMMA SetLenType ==
  ASSUME FileTypeOK, NEW n \in Nat, SetLen(n)
  PROVE  FileTypeOK'
  BY DEF FileTypeOK, SetLen, hdrVars, logVars, batVars, dataVars, lenVars

(* the flush, *)
LEMMA FlushType ==
  ASSUME FileTypeOK, Flush
  PROVE  FileTypeOK'
  BY DEF FileTypeOK, Flush

(* a step that leaves the device alone, *)
LEMMA UnchangedFileType ==
  ASSUME FileTypeOK, UNCHANGED devVars
  PROVE  FileTypeOK'
  BY DEF FileTypeOK, devVars, hdrVars, logVars, batVars, dataVars, lenVars

(* Pieces of the file whose contents have a type come out of a crash with  *)
(* that type.                                                              *)
LEMMA SurvivorsType ==
  ASSUME NEW S, NEW T, NEW view \in [S -> T], NEW may \in [S -> SUBSET T],
         NEW f \in Survivors(view, may)
  PROVE  f \in [S -> T]
<1>1. DOMAIN view = S
  OBVIOUS
<1>2. PICK g : f = [x \in S |-> IF x \in {y \in S : may[y] # {view[y]}} THEN g[x] ELSE view[x]]
               /\ \A x \in {y \in S : may[y] # {view[y]}} : g[x] \in may[x]
  BY <1>1 DEF Survivors
<1> QED
  BY <1>2

(* and the loss of power. *)
LEMMA LosePowerType ==
  ASSUME FileTypeOK, LosePower
  PROVE  FileTypeOK'
<1>1. PICK n \in lenMay :
        /\ len' = n
        /\ lenMay' = {n}
        /\ \E d \in Survivors(data, dataMay) :
             data' = [a \in Cells |-> IF a < n THEN d[a] ELSE Junk]
  BY DEF LosePower
<1>2. hdr' \in [Slots -> Headers] /\ hdrMay' \in [Slots -> SUBSET Headers]
  <2>1. hdr \in [Slots -> Headers] /\ hdrMay \in [Slots -> SUBSET Headers]
    BY DEF FileTypeOK
  <2>2. hdr' \in Survivors(hdr, hdrMay) /\ hdrMay' = [x \in Slots |-> {hdr'[x]}]
    BY DEF LosePower
  <2>3. hdr' \in [Slots -> Headers]
    BY <2>1, <2>2, SurvivorsType
  <2> QED
    BY <2>2, <2>3
<1>3. log' \in LogEntries /\ logMay' \in SUBSET LogEntries
  BY DEF LosePower, FileTypeOK
<1>4. bat' \in [Blocks -> Entries] /\ batMay' \in [Blocks -> SUBSET Entries]
  <2>1. bat \in [Blocks -> Entries] /\ batMay \in [Blocks -> SUBSET Entries]
    BY DEF FileTypeOK
  <2>2. bat' \in Survivors(bat, batMay) /\ batMay' = [x \in Blocks |-> {bat'[x]}]
    BY DEF LosePower
  <2>3. bat' \in [Blocks -> Entries]
    BY <2>1, <2>2, SurvivorsType
  <2> QED
    BY <2>2, <2>3
<1>5. data' \in [Cells -> CellValues]
  <2>1. PICK d \in Survivors(data, dataMay) :
          data' = [a \in Cells |-> IF a < n THEN d[a] ELSE Junk]
    BY <1>1
  <2>2. d \in [Cells -> CellValues]
    BY <2>1, SurvivorsType DEF FileTypeOK
  <2> QED
    BY <2>1, <2>2 DEF CellValues
<1>6. dataMay' \in [Cells -> SUBSET CellValues]
  BY <1>5 DEF LosePower
<1>7. len' \in Nat /\ lenMay' \in SUBSET Nat
  BY <1>1 DEF FileTypeOK
<1> QED
  BY <1>2, <1>3, <1>4, <1>5, <1>6, <1>7 DEF FileTypeOK

(* What is left without a reader has its types. *)
LEMMA ForgetType ==
  ASSUME Forget
  PROVE  /\ phase' \in Phases /\ header' \in Headers /\ activeSlot' \in Slots
         /\ devSize' \in Nat /\ table' \in [Blocks -> Entries]
         /\ pc' \in [Writers -> Steps]
         /\ req' \in [Writers -> [first : VirtualCells, last : VirtualCells,
                                  cur : VirtualCells, val : Data \cup {Zero}]]
         /\ host' \in [Writers -> Nat] /\ image' \in [Writers -> Images]
<1>1. 0 \in VirtualCells
  BY SizesAssumption DEF VirtualCells
<1> QED
  BY <1>1, ConstantTypes DEF Forget, Phases, Slots, Steps, NoRequest

(* The headers and the log entry the code encodes have their types. *)
LEMMA JournalTypes ==
  ASSUME TypeOK
  PROVE  /\ JournalHeader \in Headers
         /\ ClearedHeader \in Headers
         /\ \A w \in Writers : JournalEntry(w) \in LogEntries
<1>1. header \in Headers /\ header.seq \in Nat /\ header.guid \in Guids
  BY DEF TypeOK, Headers
<1>2. NextSeq(header.seq) \in Nat
  BY <1>1, NextSeqType
<1>3. Stir(header.guid, NextSeq(header.seq)) \in Guids
  BY <1>1, StirType
<1>4. JournalHeader \in Headers
  BY <1>1, <1>2, <1>3 DEF JournalHeader, Headers
<1>5. ClearedHeader \in Headers
  BY <1>1, <1>2, ConstantTypes DEF ClearedHeader, Headers
<1>6. ASSUME NEW w \in Writers PROVE JournalEntry(w) \in LogEntries
  <2>1. image[w] \in Images /\ devSize \in Nat
    BY DEF TypeOK
  <2> QED
    BY <1>4, <2>1 DEF JournalEntry, LogEntries, Headers
<1> QED
  BY <1>4, <1>5, <1>6

(* A call that returns an error leaves every type as it was. *)
LEMMA ReturnErrorType ==
  ASSUME TypeOK, NEW w \in Writers, ReturnError(w)
  PROVE  /\ phase' \in Phases /\ header' \in Headers /\ activeSlot' \in Slots
         /\ devSize' \in Nat /\ table' \in [Blocks -> Entries]
         /\ pc' \in [Writers -> Steps]
         /\ req' \in [Writers -> [first : VirtualCells, last : VirtualCells,
                                  cur : VirtualCells, val : Data \cup {Zero}]]
         /\ host' \in [Writers -> Nat] /\ image' \in [Writers -> Images]
         /\ promise' \in [VirtualCells -> SUBSET (CellValues \cup {Lost})]
<1>1. 0 \in VirtualCells
  BY SizesAssumption DEF VirtualCells
<1> QED
  BY <1>1, ConstantTypes DEF ReturnError, TypeOK, Goto, Steps, NoRequest, memVars

(* The cursor stays on the virtual disk. *)
LEMMA ChunkEndType ==
  ASSUME TypeOK, NEW w \in Writers, ChunkEnd(w) # req[w].last
  PROVE  ChunkEnd(w) + 1 \in VirtualCells
<1> DEFINE e == (BlockAt(w) + 1) * BlockSize - 1
<1>1. req[w].last \in VirtualCells /\ req[w].cur \in VirtualCells
  BY DEF TypeOK
<1>2. BlockSize \in Nat \ {0} /\ NBlocks \in Nat
  BY SizesAssumption
<1>3. BlockAt(w) \in Nat
  BY <1>1, <1>2 DEF BlockAt, VirtualCells
<1>4. (BlockAt(w) + 1) * BlockSize \in Nat
  BY <1>2, <1>3
<1>5. ChunkEnd(w) = e /\ e < req[w].last
  BY DEF ChunkEnd
<1> HIDE DEF e
<1>6. e \in Int /\ e >= -1
  BY <1>4 DEF e
<1>7. req[w].last \in Nat
  BY <1>1 DEF VirtualCells
<1>8. e + 1 \in Nat /\ e + 1 <= req[w].last
  BY <1>5, <1>6, <1>7
<1>9. NBlocks * BlockSize \in Nat
  BY <1>2
<1> QED
  BY <1>1, <1>5, <1>7, <1>8, <1>9 DEF VirtualCells

(* The image before its first open. *)
LEMMA TypeInit == Init => TypeOK
<1> SUFFICES ASSUME Init PROVE TypeOK
  OBVIOUS
<1>1. 0 \in VirtualCells
  BY SizesAssumption DEF VirtualCells
<1>2. PICK st \in Starts : InitImage(st)
  BY DEF Init
<1>3. /\ st.len \in Nat /\ st.bat \in [Blocks -> Entries]
      /\ st.hdr \in [Slots -> Headers] /\ st.log \in LogEntries
  BY ImageAssumption DEF ImageRecords
<1>4. hdr \in [Slots -> Headers]
  BY <1>2, <1>3 DEF InitImage
<1>5. FileTypeOK
  <2>1. data \in [Cells -> CellValues] /\ dataMay \in [Cells -> SUBSET CellValues]
    <3>1. \A a \in Cells : InitCell(st, a) \in CellValues
      BY DEF CellValues, InitCell
    <3> QED
      BY <1>2, <3>1 DEF InitImage
  <2>2. hdrMay \in [Slots -> SUBSET Headers]
    <3>1. hdrMay = [s \in Slots |-> {st.hdr[s]}]
      BY <1>2 DEF InitImage
    <3> QED
      BY <1>3, <3>1
  <2>3. batMay \in [Blocks -> SUBSET Entries]
    BY <1>2, <1>3 DEF InitImage
  <2> QED
    BY <1>2, <1>3, <1>4, <2>1, <2>2, <2>3 DEF InitImage, FileTypeOK
<1>6. promise \in [VirtualCells -> SUBSET (CellValues \cup {Lost})]
  <2>1. \A o \in VirtualCells : InitValue(st, o) \in CellValues \cup {Lost}
    BY DEF CellValues, InitValue, InitCell
  <2> QED
    BY <1>2, <2>1 DEF InitImage
<1> QED
  BY <1>1, <1>5, <1>6, ConstantTypes DEF Init, TypeOK, Phases, Steps, Slots, NoRequest

(* The block under a call's cursor is a block of the disk. *)
LEMMA BlockAtType ==
  ASSUME TypeOK, NEW w \in Writers
  PROVE  BlockAt(w) \in Blocks
<1>1. req[w].cur \in Nat /\ req[w].cur < NBlocks * BlockSize
  <2>1. req[w].cur \in VirtualCells
    BY DEF TypeOK
  <2>2. NBlocks * BlockSize \in Nat
    BY SizesAssumption
  <2> QED
    BY <2>1, <2>2 DEF VirtualCells
<1>2. BlockSize \in Nat \ {0} /\ NBlocks \in Nat \ {0}
  BY SizesAssumption
<1>3. req[w].cur \div BlockSize \in Nat /\ req[w].cur \div BlockSize < NBlocks
  BY <1>1, <1>2
<1> QED
  BY <1>2, <1>3 DEF BlockAt, Blocks

(* A failed device call leaves the file with its types. *)
LEMMA FailedEffectType ==
  ASSUME TypeOK, NEW w \in Writers, FailedEffect(w)
  PROVE  FileTypeOK'
<1>1. FileTypeOK /\ Other(activeSlot) \in Slots /\ image[w] \in Images
      /\ req[w].val \in CellValues /\ Zero \in CellValues
  BY DEF TypeOK, Other, Slots, CellValues
<1>2. NewDevSize(AlignUp(devSize)) \in Nat
  BY AlignUpNotBefore, SizesAssumption DEF NewDevSize, TypeOK
<1> QED
  BY <1>1, <1>2, JournalTypes, SetLenType, WriteCellsType, WriteLogType, WriteHeaderType,
     WriteBatSectorType, TearBatSectorType, UnchangedFileType DEF FailedEffect

(* One case for each action of Next. *)
LEMMA TypeStep == TypeOK /\ [Next]_vars => TypeOK'
<1> SUFFICES ASSUME TypeOK, [Next]_vars PROVE TypeOK'
  OBVIOUS
<1> USE DEF TypeOK
<1>1. ASSUME NEW w \in Writers, BeginWrite(w) PROVE TypeOK'
  <2>1. FileTypeOK'
    BY <1>1, UnchangedFileType DEF BeginWrite
  <2>2. PICK r \in Requests, v \in Data :
          /\ req' = [req EXCEPT ![w] =
                       [first |-> r[1], last |-> r[2], cur |-> r[1], val |-> v]]
          /\ promise' = [o \in VirtualCells |->
                           IF o \in r[1] .. r[2] THEN promise[o] \cup {v} ELSE promise[o]]
    BY <1>1 DEF BeginWrite
  <2>3. r[1] \in VirtualCells /\ r[2] \in VirtualCells
    BY RequestsAssumption
  <2>4. promise' \in [VirtualCells -> SUBSET (CellValues \cup {Lost})]
    BY <2>2 DEF CellValues
  <2> QED
    BY <1>1, <2>1, <2>2, <2>3, <2>4 DEF BeginWrite, Goto, Steps, memVars
<1>2. ASSUME NEW w \in Writers, Lookup(w) PROVE TypeOK'
  <2>1. FileTypeOK'
    BY <1>2, UnchangedFileType DEF Lookup
  <2>2. CASE ReturnError(w)
    BY <1>2, <2>1, <2>2, ReturnErrorType DEF Lookup
  <2>3. CASE ~ReturnError(w)
    <3>1. UNCHANGED <<memVars, req, image, promise, sessions, errors>>
      BY <1>2, <2>3 DEF Lookup
    <3>2. pc' \in [Writers -> Steps]
      BY <1>2, <2>3 DEF Lookup, Goto, Steps
    <3>3. CASE table[BlockAt(w)].state = "present" /\ host' = [host EXCEPT ![w] = table[BlockAt(w)].off]
      <4>1. BlockAt(w) \in Blocks
        BY BlockAtType
      <4>2. table[BlockAt(w)].off \in Nat
        BY <4>1 DEF Entries
      <4> QED
        BY <2>1, <3>1, <3>2, <3>3, <4>2 DEF memVars
    <3>4. CASE host' = host
      BY <2>1, <3>1, <3>2, <3>4 DEF memVars
    <3> QED
      BY <1>2, <2>3, <3>3, <3>4 DEF Lookup
  <2> QED
    BY <2>2, <2>3
<1>3. ASSUME NEW w \in Writers, Allocate(w) PROVE TypeOK'
  <2>1. AlignUp(devSize) \in Nat /\ NewDevSize(AlignUp(devSize)) \in Nat
    BY AlignUpNotBefore, SizesAssumption DEF NewDevSize
  <2>2. CASE ReturnError(w) /\ UNCHANGED devVars
    BY <1>3, <2>2, ReturnErrorType, UnchangedFileType DEF Allocate
  <2>3. CASE SetLen(NewDevSize(AlignUp(devSize)))
             /\ ~(ReturnError(w) /\ UNCHANGED devVars)
    <3>1. FileTypeOK'
      BY <2>1, <2>3, SetLenType
    <3> QED
      BY <1>3, <2>1, <2>3, <3>1 DEF Allocate, Goto, Steps
  <2> QED
    BY <1>3, <2>2, <2>3 DEF Allocate
<1>4. ASSUME NEW w \in Writers, ZeroInit(w) PROVE TypeOK'
  <2>1. FileTypeOK'
    BY <1>4, WriteCellsType DEF ZeroInit, CellValues
  <2> QED
    BY <1>4, <2>1 DEF ZeroInit, Goto, Steps, memVars
<1>5. ASSUME NEW w \in Writers, ZeroFlush(w) PROVE TypeOK'
  BY <1>5, FlushType DEF ZeroFlush, Goto, Steps, memVars
<1>6. ASSUME NEW w \in Writers, ReadSector(w) PROVE TypeOK'
  <2>1. FileTypeOK'
    BY <1>6, UnchangedFileType DEF ReadSector
  <2>2. image' \in [Writers -> Images]
    <3>1. \A x \in Blocks : bat[x] \in Entries
      BY DEF FileTypeOK
    <3>2. PresentEntry(host[w]) \in Entries
      BY ConstantTypes
    <3> QED
      BY <1>6, <3>1, <3>2 DEF ReadSector, Images
  <2> QED
    BY <1>6, <2>1, <2>2 DEF ReadSector, Goto, Steps, memVars
<1>7. ASSUME NEW w \in Writers, JournalLog(w) PROVE TypeOK'
  <2>1. FileTypeOK'
    BY <1>7, JournalTypes, WriteLogType, UnchangedFileType DEF JournalLog
  <2> QED
    BY <1>7, <2>1 DEF JournalLog, Goto, Steps, memVars
<1>8. ASSUME NEW w \in Writers, JournalLogFlush(w) PROVE TypeOK'
  BY <1>8, FlushType DEF JournalLogFlush, Goto, Steps, memVars
<1>9. ASSUME NEW w \in Writers, JournalHeaderWrite(w) PROVE TypeOK'
  <2>1. Other(activeSlot) \in Slots
    BY DEF Other, Slots
  <2>2. FileTypeOK'
    BY <1>9, <2>1, JournalTypes, WriteHeaderType DEF JournalHeaderWrite
  <2> QED
    BY <1>9, <2>2 DEF JournalHeaderWrite, Goto, Steps, memVars
<1>10. ASSUME NEW w \in Writers, JournalHeaderFlush(w) PROVE TypeOK'
  <2>1. Other(activeSlot) \in Slots
    BY DEF Other, Slots
  <2> QED
    BY <1>10, <2>1, JournalTypes, FlushType DEF JournalHeaderFlush, Goto, Steps
<1>11. ASSUME NEW w \in Writers, Publish(w) PROVE TypeOK'
  <2>1. FileTypeOK'
    BY <1>11, WriteBatSectorType DEF Publish
  <2> QED
    BY <1>11, <2>1 DEF Publish, Goto, Steps, memVars
<1>12. ASSUME NEW w \in Writers, PublishFlush(w) PROVE TypeOK'
  BY <1>12, FlushType DEF PublishFlush, Goto, Steps, memVars
<1>13. ASSUME NEW w \in Writers, PublishTable(w) PROVE TypeOK'
  <2>1. FileTypeOK'
    BY <1>13, UnchangedFileType DEF PublishTable
  <2>2. table' \in [Blocks -> Entries]
    BY <1>13, ConstantTypes DEF PublishTable
  <2> QED
    BY <1>13, <2>1, <2>2, ConstantTypes DEF PublishTable, Goto, Steps
<1>14. ASSUME NEW w \in Writers, WritePayload(w) PROVE TypeOK'
  <2>1. CASE ReturnError(w) /\ UNCHANGED devVars
    BY <1>14, <2>1, ReturnErrorType, UnchangedFileType DEF WritePayload
  <2>2. CASE WriteCells(PayloadFrom(w), PayloadTo(w), req[w].val)
             /\ ~(ReturnError(w) /\ UNCHANGED devVars)
    <3>1. FileTypeOK'
      <4>1. req[w].val \in CellValues
        BY DEF CellValues
      <4> QED
        BY <2>2, <4>1, WriteCellsType
    <3>2. req' \in [Writers -> [first : VirtualCells, last : VirtualCells,
                                cur : VirtualCells, val : Data \cup {Zero}]]
      <4>1. CASE ChunkEnd(w) = req[w].last
        BY <1>14, <2>2, <4>1 DEF WritePayload
      <4>2. CASE ChunkEnd(w) # req[w].last
        <5>1. ChunkEnd(w) + 1 \in VirtualCells
          BY <4>2, ChunkEndType
        <5>2. req' = [req EXCEPT ![w].cur = ChunkEnd(w) + 1]
          BY <1>14, <2>2, <4>2 DEF WritePayload
        <5> QED
          BY <5>1, <5>2
      <4> QED
        BY <4>1, <4>2
    <3>3. pc' \in [Writers -> Steps]
      BY <1>14, <2>2 DEF WritePayload, Goto, Steps
    <3> QED
      BY <1>14, <2>2, <3>1, <3>2, <3>3 DEF WritePayload, memVars
  <2> QED
    BY <1>14, <2>1, <2>2 DEF WritePayload
<1>15. ASSUME NEW w \in Writers, Acknowledge(w) PROVE TypeOK'
  <2>1. FileTypeOK'
    BY <1>15, FlushType DEF Acknowledge
  <2>2. promise' \in [VirtualCells -> SUBSET (CellValues \cup {Lost})]
    BY <1>15 DEF Acknowledge, CellValues
  <2>3. NoRequest \in [first : VirtualCells, last : VirtualCells,
                       cur : VirtualCells, val : Data \cup {Zero}]
    BY SizesAssumption DEF NoRequest, VirtualCells
  <2> QED
    BY <1>15, <2>1, <2>2, <2>3 DEF Acknowledge, Goto, Steps, memVars
<1>16. ASSUME NEW w \in Writers, DeviceError(w) PROVE TypeOK'
  <2>1. FileTypeOK'
    BY <1>16, FailedEffectType DEF DeviceError
  <2>2. errors' \in Nat /\ sessions' \in Nat
    BY <1>16 DEF DeviceError
  <2> QED
    BY <1>16, <2>1, <2>2, ReturnErrorType DEF DeviceError
<1>17. CASE OpenStart
  <2>1. PickSlot(hdr) \in Slots
    BY DEF PickSlot, Slots
  <2>2. hdr[PickSlot(hdr)] \in Headers
    BY <2>1 DEF FileTypeOK
  <2>3. FileTypeOK'
    BY <1>17, UnchangedFileType DEF OpenStart
  <2> QED
    BY <1>17, <2>1, <2>2, <2>3 DEF OpenStart, Phases, callVars, FileTypeOK
<1>18. CASE ReplayGrow
  <2>1. log.last \in Nat /\ len \in Nat
    BY DEF FileTypeOK, LogEntries
  <2>2. FileTypeOK'
    BY <1>18, <2>1, SetLenType, UnchangedFileType DEF ReplayGrow
  <2> QED
    BY <1>18, <2>1, <2>2 DEF ReplayGrow, Phases, callVars
<1>19. CASE ReplayWrite
  <2>1. log.image \in Images
    BY DEF FileTypeOK, LogEntries
  <2>2. FileTypeOK'
    BY <1>19, <2>1, WriteBatSectorType DEF ReplayWrite
  <2> QED
    BY <1>19, <2>2 DEF ReplayWrite, Phases, callVars
<1>20. CASE ReplayFlush
  BY <1>20, FlushType DEF ReplayFlush, Phases, callVars
<1>21. CASE EraseLog
  <2>1. FileTypeOK'
    BY <1>21, WriteLogType, ConstantTypes DEF EraseLog
  <2> QED
    BY <1>21, <2>1 DEF EraseLog, Phases, callVars
<1>22. CASE EraseFlush
  BY <1>22, FlushType DEF EraseFlush, Phases, callVars
<1>23. CASE ClearHeader
  <2>1. Other(activeSlot) \in Slots
    BY DEF Other, Slots
  <2>2. FileTypeOK'
    BY <1>23, <2>1, JournalTypes, WriteHeaderType DEF ClearHeader
  <2> QED
    BY <1>23, <2>2 DEF ClearHeader, Phases, callVars
<1>24. CASE ClearFlush
  <2>1. Other(activeSlot) \in Slots
    BY DEF Other, Slots
  <2> QED
    BY <1>24, <2>1, JournalTypes, FlushType DEF ClearFlush, Phases, callVars
<1>25. CASE LoadBat
  <2>1. FileTypeOK'
    BY <1>25, UnchangedFileType DEF LoadBat
  <2> QED
    BY <1>25, <2>1 DEF LoadBat, Phases, callVars, FileTypeOK
<1>26. CASE OpenError
  <2>1. FileTypeOK'
    <3>1. Other(activeSlot) \in Slots /\ log.image \in Images /\ log.last \in Nat
      BY DEF Other, Slots, FileTypeOK, LogEntries
    <3> QED
      BY <1>26, <3>1, WriteBatSectorType, TearBatSectorType, WriteLogType, WriteHeaderType, SetLenType,
         UnchangedFileType, JournalTypes, ConstantTypes DEF OpenError
  <2>2. errors' \in Nat /\ sessions' \in Nat /\ promise' = promise
    BY <1>26 DEF OpenError
  <2> QED
    BY <1>26, <2>1, <2>2, ForgetType DEF OpenError
<1>27. CASE Close \/ Kill
  BY <1>27, UnchangedFileType, ForgetType DEF Close, Kill
<1>28. CASE Crash
  BY <1>28, LosePowerType, ForgetType DEF Crash
<1>29. CASE UNCHANGED vars
  BY <1>29, UnchangedFileType DEF vars, memVars, callVars
<1> QED
  BY <1>1, <1>2, <1>3, <1>4, <1>5, <1>6, <1>7, <1>8, <1>9, <1>10, <1>11, <1>12, <1>13,
     <1>14, <1>15, <1>16, <1>17, <1>18, <1>19, <1>20, <1>21, <1>22, <1>23, <1>24, <1>25,
     <1>26, <1>27, <1>28, <1>29
  DEF Next, WriteStep, AllocateStep, JournalStep, OpenStep

(* Every field and local of VhdxReader keeps its type, whatever the image, *)
(* the number of writers, the crashes and the errors.                      *)
THEOREM TypeCorrect == Spec => []TypeOK
  BY TypeInit, TypeStep, PTL DEF Spec

-----------------------------------------------------------------------------
(* The entries the image starts with, in its BAT and in whatever its log   *)
(* holds, lie inside the file and apart from each other.                   *)
InitNames(st, b) == {st.bat[b], st.log.image[b]}
SoundStart(st) ==
  /\ \A b, c \in Blocks : b # c =>
       \A e \in InitNames(st, b), f \in InitNames(st, c) : Apart(e, f)
  /\ \A b \in Blocks : \A e \in InitNames(st, b) : EndsBy(e, st.len)
ImageSound == \A st \in Starts : SoundStart(st)

(* What a read returns now is one of the contents a crash may leave. *)
Views == (\A b \in Blocks : bat[b] \in batMay[b]) /\ log \in logMay /\ len \in lenMay

(* While the image is open, dev_size bounds every entry there is or may    *)
(* come to be.                                                             *)
OpenBound == phase # "closed" => \A b \in Blocks : \A e \in Named(b) : EndsBy(e, devSize)

CallsNeedReader == \A w \in Writers : pc[w] # "idle" => phase = "open"

AllocInv ==
  /\ TypeOK
  /\ Views
  /\ CallsNeedReader
  /\ BoundNeverAhead
  /\ OpenBound
  /\ NamesInsideFile
  /\ NoAliasing

-----------------------------------------------------------------------------
(* The five places an entry can be settled in, and the sixth for a claim.  *)
LEMMA SettledCases ==
  ASSUME NEW b, NEW e
  PROVE  e \in Settled(b) <=>
           \/ e \in batMay[b]
           \/ e = table[b]
           \/ \E l \in logMay : e = l.image[b]
           \/ \E w \in Writers : e = image[w][b]
           \/ \E w \in Writers : Owns(w) /\ BlockAt(w) = b /\ e = PresentEntry(host[w])
  BY DEF Settled

(* A block is named by a settled entry or by a claim. *)
LEMMA NamedCases ==
  ASSUME NEW b, NEW e
  PROVE  e \in Named(b) <=>
           \/ e \in Settled(b)
           \/ \E w \in Writers : Claims(w) /\ BlockAt(w) = b /\ e = PresentEntry(host[w])
  BY DEF Named

(* The same two facts in the next state. *)
LEMMA SettledCasesPrime ==
  ASSUME NEW b, NEW e
  PROVE  e \in Settled(b)' <=>
           \/ e \in batMay'[b]
           \/ e = table'[b]
           \/ \E l \in logMay' : e = l.image[b]
           \/ \E w \in Writers : e = image'[w][b]
           \/ \E w \in Writers : Owns(w)' /\ BlockAt(w)' = b /\ e = PresentEntry(host'[w])
  BY DEF Settled

(* A block is named by a settled entry or by a claim, in the next state. *)
LEMMA NamedCasesPrime ==
  ASSUME NEW b, NEW e
  PROVE  e \in Named(b)' <=>
           \/ e \in Settled(b)'
           \/ \E w \in Writers : Claims(w)' /\ BlockAt(w)' = b /\ e = PresentEntry(host'[w])
  BY DEF Named

(* Of the named entries only PresentEntry is present. *)
LEMMA NotPresent ==
  /\ AbsentEntry.state # "present"
  /\ SpoiledEntry.state # "present"
  /\ Uncovered.state # "present"
  /\ \A b \in Blocks : NoImage[b].state # "present"
  /\ \A b \in Blocks : NoEntry.image[b].state # "present"
  /\ \A o : PresentEntry(o).state = "present" /\ PresentEntry(o).off = o
  BY DEF AbsentEntry, SpoiledEntry, Uncovered, NoImage, NoEntry, PresentEntry

(* An entry that is named is a BAT entry. *)
LEMMA NamedType ==
  ASSUME TypeOK, NEW b \in Blocks, NEW e \in Named(b), e.state = "present"
  PROVE  e.off \in Nat
<1>1. \A x \in Entries \cup {Uncovered} : x.off \in Nat
  BY DEF Entries, Uncovered
<1>2. CASE e \in batMay[b] \/ e = table[b]
  BY <1>1, <1>2 DEF TypeOK, FileTypeOK
<1>3. CASE \E l \in logMay : e = l.image[b]
  BY <1>1, <1>3 DEF TypeOK, FileTypeOK, LogEntries, Images
<1>4. CASE \E w \in Writers : e = image[w][b]
  BY <1>1, <1>4 DEF TypeOK, Images
<1>5. CASE \E w \in Writers : e = PresentEntry(host[w])
  BY <1>5, NotPresent DEF TypeOK
<1> QED
  BY <1>2, <1>3, <1>4, <1>5, NamedCases, SettledCases

(* A step that names nothing new keeps blocks apart and below dev_size. *)
LEMMA NothingNamed ==
  ASSUME AllocInv, devSize' \in Nat,
         \A b \in Blocks : \A e \in Named(b)' : e.state = "present" => e \in Named(b),
         phase' # "closed" => phase # "closed" /\ devSize' >= devSize
  PROVE  NoAliasing' /\ OpenBound'
<1>1. NoAliasing'
  BY DEF AllocInv, NoAliasing, Apart
<1>2. OpenBound'
  <2> SUFFICES ASSUME phase' # "closed", NEW b \in Blocks, NEW e \in Named(b)',
                      e.state = "present"
               PROVE  e.off + BlockSize <= devSize'
    BY DEF OpenBound, EndsBy
  <2>1. e \in Named(b) /\ phase # "closed" /\ devSize' >= devSize
    OBVIOUS
  <2>2. e.off + BlockSize <= devSize
    BY <2>1 DEF AllocInv, OpenBound, EndsBy
  <2>3. e.off \in Nat /\ BlockSize \in Nat /\ devSize \in Nat
    BY <2>1, NamedType, SizesAssumption DEF AllocInv, TypeOK
  <2> QED
    BY <2>1, <2>2, <2>3
<1> QED
  BY <1>1, <1>2

(* A step that settles nothing new keeps entries inside the file if the    *)
(* file can only come back longer, or as long as dev_size.                 *)
LEMMA NothingSettled ==
  ASSUME AllocInv, lenMay' \in SUBSET Nat,
         \A b \in Blocks : \A e \in Settled(b)' : e.state = "present" => e \in Settled(b),
         \A n \in lenMay' : \/ \E m \in lenMay : m <= n
                            \/ phase # "closed" /\ devSize <= n
  PROVE  NamesInsideFile'
<1> SUFFICES ASSUME NEW b \in Blocks, NEW e \in Settled(b)', NEW n \in lenMay',
                    e.state = "present"
             PROVE  e.off + BlockSize <= n
  BY DEF NamesInsideFile, EndsBy
<1>1. e \in Settled(b) /\ e \in Named(b)
  BY NamedCases
<1>2. e.off \in Nat /\ BlockSize \in Nat /\ devSize \in Nat /\ n \in Nat
      /\ lenMay \in SUBSET Nat
  BY <1>1, NamedType, SizesAssumption DEF AllocInv, TypeOK, FileTypeOK
<1>3. CASE \E m \in lenMay : m <= n
  BY <1>1, <1>2, <1>3 DEF AllocInv, NamesInsideFile, EndsBy
<1>4. CASE phase # "closed" /\ devSize <= n
  BY <1>1, <1>2, <1>4 DEF AllocInv, OpenBound, EndsBy
<1> QED
  BY <1>3, <1>4

-----------------------------------------------------------------------------
(***************************************************************************)
(* Steps are judged by what they do to the file and to the calls.          *)
(***************************************************************************)

(* The file can come back with nothing it could not before. *)
FileKept ==
  /\ \A b \in Blocks : batMay'[b] \subseteq batMay[b]
  /\ logMay' \subseteq logMay
  /\ lenMay' \subseteq lenMay
  /\ Views'

(* The calls in flight name nothing they did not before. *)
CallsKept ==
  /\ \A w \in Writers, b \in Blocks :
       image'[w][b].state = "present" => image'[w][b] = image[w][b]
  /\ \A w \in Writers : Owns(w)' => Owns(w) /\ host'[w] = host[w] /\ BlockAt(w)' = BlockAt(w)
  /\ \A w \in Writers : Claims(w)' => Claims(w) /\ host'[w] = host[w] /\ BlockAt(w)' = BlockAt(w)

BoundKept ==
  /\ \A b \in Blocks : table'[b].state = "present" => table'[b] \in Settled(b)
  /\ phase' # "closed" => phase # "closed" /\ devSize' >= devSize

(* The device operations after which the file names nothing new: none, *)
LEMMA UnchangedKept ==
  ASSUME Views, UNCHANGED devVars
  PROVE  FileKept /\ len' = len
  BY DEF FileKept, Views, devVars, batVars, logVars, lenVars

(* a flush, *)
LEMMA FlushKept ==
  ASSUME Views, Flush
  PROVE  FileKept /\ len' = len
  BY DEF FileKept, Views, Flush

(* a header write, *)
LEMMA WriteHeaderKept ==
  ASSUME Views, NEW s, NEW h, WriteHeader(s, h)
  PROVE  FileKept /\ len' = len
  BY DEF FileKept, Views, WriteHeader, batVars, logVars, lenVars

(* a payload write, *)
LEMMA WriteCellsKept ==
  ASSUME Views, NEW from, NEW to, NEW v, WriteCells(from, to, v)
  PROVE  FileKept /\ len' = len
  BY DEF FileKept, Views, WriteCells, batVars, logVars, lenVars

(* and a loss of power, which only picks among what was admitted. *)
LEMMA LosePowerKept ==
  ASSUME AllocInv, LosePower
  PROVE  FileKept
<1>1. \A b \in Blocks : bat'[b] \in batMay[b]
  <2> SUFFICES ASSUME NEW b \in Blocks PROVE bat'[b] \in batMay[b]
    OBVIOUS
  <2>1. DOMAIN bat = Blocks /\ bat[b] \in batMay[b]
    BY DEF AllocInv, TypeOK, FileTypeOK, Views
  <2>2. bat' \in Survivors(bat, batMay)
    BY DEF LosePower
  <2> QED
    BY <2>1, <2>2, SurvivorIsAdmitted
<1>2. \A b \in Blocks : batMay'[b] = {bat'[b]}
  BY DEF LosePower
<1>3. log' \in logMay /\ logMay' = {log'}
  BY DEF LosePower
<1>4. len' \in lenMay /\ lenMay' = {len'}
  BY DEF LosePower
<1> QED
  BY <1>1, <1>2, <1>3, <1>4 DEF FileKept, Views

(* The part of the invariant that is about names. *)
NamesSafe == NoAliasing /\ OpenBound /\ NamesInsideFile

(* A step that only settles what was settled, in the BAT or in the log. *)
LEMMA KeptNames ==
  ASSUME AllocInv, TypeOK', CallsKept, BoundKept,
         \A b \in Blocks : \A e \in batMay'[b] : e.state = "present" => e \in Settled(b),
         \A b \in Blocks : \A l \in logMay' :
            l.image[b].state = "present" => l.image[b] \in Settled(b),
         \A n \in lenMay' : \/ \E m \in lenMay : m <= n
                            \/ phase # "closed" /\ devSize <= n
  PROVE  NamesSafe'
<1>1. ASSUME NEW b \in Blocks, NEW e \in Settled(b)', e.state = "present"
      PROVE  e \in Settled(b)
  <2>1. CASE e \in batMay'[b] \/ e = table'[b] \/ \E l \in logMay' : e = l.image[b]
    BY <1>1, <2>1 DEF BoundKept
  <2>2. CASE \E w \in Writers : e = image'[w][b]
    BY <1>1, <2>2, SettledCases DEF CallsKept
  <2>3. CASE \E w \in Writers : Owns(w)' /\ BlockAt(w)' = b /\ e = PresentEntry(host'[w])
    BY <1>1, <2>3, SettledCases DEF CallsKept
  <2> QED
    BY <1>1, <2>1, <2>2, <2>3, SettledCasesPrime
<1>2. ASSUME NEW b \in Blocks, NEW e \in Named(b)', e.state = "present"
      PROVE  e \in Named(b)
  <2>1. CASE e \in Settled(b)'
    BY <1>1, <1>2, <2>1, NamedCases
  <2>2. CASE \E w \in Writers : Claims(w)' /\ BlockAt(w)' = b /\ e = PresentEntry(host'[w])
    BY <1>2, <2>2, NamedCases DEF CallsKept
  <2> QED
    BY <1>2, <2>1, <2>2, NamedCasesPrime
<1>3. NoAliasing' /\ OpenBound'
  BY <1>2, NothingNamed DEF BoundKept, TypeOK
<1>4. NamesInsideFile'
  BY <1>1, NothingSettled DEF TypeOK, FileTypeOK
<1> QED
  BY <1>3, <1>4 DEF NamesSafe

(* The file kept as well: flushes, header and payload writes, crashes. *)
LEMMA KeptFileNames ==
  ASSUME AllocInv, TypeOK', FileKept, CallsKept, BoundKept
  PROVE  NamesSafe'
<1>1. \A b \in Blocks : \A e \in batMay'[b] : e.state = "present" => e \in Settled(b)
  BY SettledCases DEF FileKept
<1>2. \A b \in Blocks : \A l \in logMay' :
         l.image[b].state = "present" => l.image[b] \in Settled(b)
  BY SettledCases DEF FileKept
<1>3. \A n \in lenMay' : \E m \in lenMay : m <= n
  BY DEF FileKept, AllocInv, TypeOK, FileTypeOK
<1> QED
  BY <1>1, <1>2, <1>3, KeptNames

(* A log write of an image that is settled, or of nothing. *)
LEMMA WriteLogNames ==
  ASSUME AllocInv, TypeOK', NEW e, WriteLog(e), CallsKept, BoundKept,
         \A b \in Blocks : e.image[b].state = "present" => e.image[b] \in Settled(b)
  PROVE  NamesSafe' /\ Views' /\ len' = len
<1>1. logMay' = logMay \cup {e, NoEntry} /\ log' = e
      /\ UNCHANGED <<bat, batMay, len, lenMay>>
  BY DEF WriteLog, batVars, lenVars
<1>2. \A b \in Blocks : \A x \in batMay'[b] : x.state = "present" => x \in Settled(b)
  BY <1>1, SettledCases
<1>3. \A b \in Blocks : \A l \in logMay' :
         l.image[b].state = "present" => l.image[b] \in Settled(b)
  BY <1>1, SettledCases, NotPresent
<1>4. \A n \in lenMay' : \E m \in lenMay : m <= n
  BY <1>1 DEF AllocInv, TypeOK, FileTypeOK
<1>5. NamesSafe'
  BY <1>2, <1>3, <1>4, KeptNames
<1> QED
  BY <1>1, <1>5 DEF AllocInv, Views

(* A BAT sector whose entries are settled is written in place, or in part. *)
LEMMA WriteBatSectorNames ==
  ASSUME AllocInv, TypeOK', NEW i, WriteBatSector(i) \/ TearBatSector(i), CallsKept, BoundKept,
         \A b \in Blocks : i[b].state = "present" => i[b] \in Settled(b)
  PROVE  NamesSafe' /\ Views' /\ len' = len
<1>1. UNCHANGED <<log, logMay, len, lenMay>>
  BY DEF WriteBatSector, TearBatSector, logVars, lenVars
<1>2. ASSUME NEW b \in Blocks
      PROVE  /\ bat'[b] \in batMay'[b]
             /\ batMay'[b] \subseteq batMay[b] \cup {i[b], SpoiledEntry}
  BY DEF WriteBatSector, TearBatSector, AllocInv, Views
<1>3. \A b \in Blocks : \A x \in batMay'[b] : x.state = "present" => x \in Settled(b)
  BY <1>2, SettledCases, NotPresent
<1>4. \A b \in Blocks : \A l \in logMay' :
         l.image[b].state = "present" => l.image[b] \in Settled(b)
  BY <1>1, SettledCases
<1>5. \A n \in lenMay' : \E m \in lenMay : m <= n
  BY <1>1 DEF AllocInv, TypeOK, FileTypeOK
<1>6. NamesSafe'
  BY <1>3, <1>4, <1>5, KeptNames
<1> QED
  BY <1>1, <1>2, <1>6 DEF AllocInv, Views

(* The file is set to a length that is not below dev_size. *)
LEMMA SetLenNames ==
  ASSUME AllocInv, TypeOK', NEW n \in Nat, SetLen(n), n >= devSize, phase # "closed",
         CallsKept, BoundKept
  PROVE  NamesSafe' /\ Views' /\ len' = n
<1>1. UNCHANGED <<bat, batMay, log, logMay>> /\ lenMay' = lenMay \cup {n} /\ len' = n
  BY DEF SetLen, batVars, logVars
<1>2. \A b \in Blocks : \A x \in batMay'[b] : x.state = "present" => x \in Settled(b)
  BY <1>1, SettledCases
<1>3. \A b \in Blocks : \A l \in logMay' :
         l.image[b].state = "present" => l.image[b] \in Settled(b)
  BY <1>1, SettledCases
<1>4. \A m \in lenMay' : \/ \E k \in lenMay : k <= m
                         \/ phase # "closed" /\ devSize <= m
  BY <1>1 DEF AllocInv, TypeOK, FileTypeOK
<1>5. NamesSafe'
  BY <1>2, <1>3, <1>4, KeptNames
<1> QED
  BY <1>1, <1>5 DEF AllocInv, Views

(* The calls when nothing of theirs changes, when one returns, when one    *)
(* only moves on, when all are forgotten.                                  *)
LEMMA UnchangedCalls ==
  ASSUME UNCHANGED callVars
  PROVE  CallsKept
  BY DEF CallsKept, callVars, Owns, Claims, BlockAt

(* A call that returns an error gives up its names. *)
LEMMA ReturnErrorCalls ==
  ASSUME AllocInv, NEW w \in Writers, ReturnError(w)
  PROVE  CallsKept /\ BoundKept /\ devSize' = devSize /\ phase' = phase /\ CallsNeedReader'
<1>1. /\ \A x \in Writers \ {w} : pc'[x] = pc[x] /\ req'[x] = req[x] /\ host'[x] = host[x]
                                   /\ image'[x] = image[x]
      /\ pc'[w] = "idle"
      /\ image'[w] = NoImage
      /\ UNCHANGED memVars
  BY DEF ReturnError, Goto, AllocInv, TypeOK
<1>2. CallsKept
  BY <1>1, NotPresent DEF CallsKept, Owns, Claims, BlockAt
<1>3. BoundKept
  BY <1>1, SettledCases DEF BoundKept, memVars, AllocInv, TypeOK
<1> QED
  BY <1>1, <1>2, <1>3 DEF AllocInv, CallsNeedReader, memVars

(* A call goes from one step to another, keeping or gaining no name.       *)
LEMMA MovedCalls ==
  ASSUME AllocInv, NEW w \in Writers, NEW s, pc[w] # "idle", Goto(w, s),
         UNCHANGED <<req, image, phase>>, 
         \A x \in Writers : Owns(x)' => Owns(x) /\ host'[x] = host[x],
         \A x \in Writers : Claims(x)' => Claims(x) /\ host'[x] = host[x]
  PROVE  CallsKept /\ CallsNeedReader'
<1>1. CallsKept
  BY DEF CallsKept, BlockAt
<1>2. CallsNeedReader'
  BY DEF AllocInv, TypeOK, CallsNeedReader, Goto
<1> QED
  BY <1>1, <1>2

(* Without a reader no call names anything. *)
LEMMA ForgetNames ==
  ASSUME Forget
  PROVE  CallsKept /\ BoundKept /\ CallsNeedReader' /\ BoundNeverAhead'
<1>1. CallsKept
  BY NotPresent DEF Forget, CallsKept, Owns, Claims
<1>2. BoundKept
  BY NotPresent DEF Forget, BoundKept
<1> QED
  BY <1>1, <1>2 DEF Forget, CallsNeedReader, BoundNeverAhead

(* The bound holds on where memory is left alone. *)
LEMMA UnchangedMem ==
  ASSUME AllocInv, UNCHANGED <<phase, devSize, table>>
  PROVE  BoundKept
  BY SettledCases DEF BoundKept, AllocInv, TypeOK

-----------------------------------------------------------------------------
(* allocate_block_for hands out the tail of the file: the new block starts *)
(* at or after dev_size, which bounds every entry named so far.            *)
LEMMA AllocateNames ==
  ASSUME AllocInv, TypeOK', NEW w \in Writers, Allocate(w),
         NewDevSize(AlignUp(devSize)) <= MaxLen
  PROVE  NamesSafe' /\ Views' /\ CallsNeedReader' /\ BoundNeverAhead'
<1> DEFINE off == AlignUp(devSize)
<1>1. off \in Nat /\ off >= devSize /\ devSize \in Nat /\ BlockSize \in Nat \ {0}
      /\ MaxLen \in Nat
  BY AlignUpNotBefore, SizesAssumption DEF AllocInv, TypeOK
<1> HIDE DEF off
<1>2. /\ SetLen(off + BlockSize)
      /\ devSize' = off + BlockSize
      /\ host' = [host EXCEPT ![w] = off]
      /\ Goto(w, "zero")
      /\ pc[w] = "allocate"
      /\ UNCHANGED <<phase, table, req, image>>
  <2>1. ~(NewDevSize(off) > MaxLen)
    BY <1>1 DEF NewDevSize, off
  <2> QED
    BY <2>1 DEF Allocate, NewDevSize, off
<1>3. phase = "open" /\ phase' = "open"
  BY <1>2 DEF AllocInv, CallsNeedReader
<1>4. /\ UNCHANGED <<bat, batMay, log, logMay>>
      /\ len' = off + BlockSize /\ lenMay' = lenMay \cup {off + BlockSize}
  BY <1>2 DEF SetLen, batVars, logVars
<1>5. /\ pc'[w] = "zero" /\ host'[w] = off
      /\ \A x \in Writers \ {w} : pc'[x] = pc[x] /\ host'[x] = host[x]
      /\ \A x \in Writers : BlockAt(x)' = BlockAt(x)
  BY <1>2 DEF Goto, BlockAt, AllocInv, TypeOK
<1>6. ASSUME NEW b \in Blocks, NEW e \in Settled(b)' PROVE e \in Settled(b)
  <2>1. \A x \in Writers : Owns(x)' => x # w /\ Owns(x) /\ host'[x] = host[x]
    BY <1>5 DEF Owns
  <2> QED
    BY <1>2, <1>4, <1>5, <1>6, <2>1, SettledCases, SettledCasesPrime
<1>7. ASSUME NEW b \in Blocks, NEW e \in Named(b)'
      PROVE  e \in Named(b) \/ (e = PresentEntry(off) /\ BlockAt(w) = b)
  <2>1. \A x \in Writers \ {w} : Claims(x)' => Claims(x)
    BY <1>5 DEF Claims
  <2>2. CASE e \in Settled(b)'
    BY <1>6, <2>2, NamedCases
  <2>3. CASE \E x \in Writers : Claims(x)' /\ BlockAt(x)' = b /\ e = PresentEntry(host'[x])
    BY <1>5, <2>1, <2>3, NamedCases
  <2> QED
    BY <1>7, <2>2, <2>3, NamedCasesPrime
<1>8. ASSUME NEW b \in Blocks, NEW e \in Named(b), e.state = "present"
      PROVE  e.off \in Nat /\ e.off + BlockSize <= off /\ e.off + BlockSize <= devSize'
  <2>1. e.off \in Nat
    BY <1>8, NamedType DEF AllocInv
  <2>2. e.off + BlockSize <= devSize
    BY <1>3, <1>8 DEF AllocInv, OpenBound, EndsBy
  <2> QED
    BY <1>1, <1>2, <2>1, <2>2
<1>9. NoAliasing'
  <2> SUFFICES ASSUME NEW b \in Blocks, NEW c \in Blocks, b # c,
                      NEW e \in Named(b)', NEW f \in Named(c)'
               PROVE  Apart(e, f)
    BY DEF NoAliasing
  <2>1. CASE e \in Named(b) /\ f \in Named(c)
    BY <2>1 DEF AllocInv, NoAliasing
  <2>2. CASE e \in Named(b) /\ f = PresentEntry(off)
    BY <1>8, <2>2, NotPresent DEF Apart
  <2>3. CASE e = PresentEntry(off) /\ f \in Named(c)
    BY <1>8, <2>3, NotPresent DEF Apart
  <2> QED
    BY <1>7, <2>1, <2>2, <2>3
<1>10. OpenBound'
  <2> SUFFICES ASSUME NEW b \in Blocks, NEW e \in Named(b)', e.state = "present"
               PROVE  e.off + BlockSize <= devSize'
    BY DEF OpenBound, EndsBy
  <2>1. CASE e \in Named(b)
    BY <1>8, <2>1
  <2>2. CASE e = PresentEntry(off)
    BY <1>1, <1>2, <2>2, NotPresent
  <2> QED
    BY <1>7, <2>1, <2>2
<1>11. NamesInsideFile'
  <2>1. \A n \in lenMay' : \/ \E m \in lenMay : m <= n
                           \/ phase # "closed" /\ devSize <= n
    BY <1>1, <1>3, <1>4 DEF AllocInv, TypeOK, FileTypeOK
  <2> QED
    BY <1>6, <2>1, NothingSettled DEF TypeOK, FileTypeOK
<1>12. Views' /\ BoundNeverAhead'
  BY <1>1, <1>2, <1>4 DEF AllocInv, Views, BoundNeverAhead
<1>13. CallsNeedReader'
  BY <1>3 DEF CallsNeedReader
<1> QED
  BY <1>9, <1>10, <1>11, <1>12, <1>13 DEF NamesSafe

(* The flush that follows the zero-fill turns a claim into a settled       *)
(* entry: from here on the file comes back no shorter than dev_size.       *)
LEMMA ZeroFlushNames ==
  ASSUME AllocInv, TypeOK', NEW w \in Writers, ZeroFlush(w)
  PROVE  NamesSafe' /\ Views' /\ CallsNeedReader' /\ BoundNeverAhead'
<1>1. /\ Flush /\ Goto(w, "readSector") /\ pc[w] = "zeroFlush"
      /\ UNCHANGED <<phase, devSize, table, req, host, image>>
  BY DEF ZeroFlush, memVars
<1>2. phase = "open"
  BY <1>1 DEF AllocInv, CallsNeedReader
<1>3. FileKept /\ len' = len /\ lenMay' = {len}
  BY <1>1, FlushKept DEF AllocInv, Flush
<1>4. /\ pc'[w] = "readSector"
      /\ \A x \in Writers \ {w} : pc'[x] = pc[x]
      /\ \A x \in Writers : BlockAt(x)' = BlockAt(x)
  BY <1>1 DEF Goto, BlockAt, AllocInv, TypeOK
<1>5. Claims(w) /\ \A x \in Writers : Owns(x)' => Owns(x) \/ x = w
  BY <1>1, <1>4 DEF Claims, Owns
<1>6. \A x \in Writers : Claims(x)' => Claims(x)
  BY <1>4 DEF Claims
<1>7. ASSUME NEW b \in Blocks, NEW e \in Settled(b)' PROVE e \in Named(b)
  <2>1. CASE e \in batMay'[b] \/ e = table'[b] \/ \E l \in logMay' : e = l.image[b]
    BY <1>1, <1>3, <2>1, SettledCases, NamedCases DEF FileKept
  <2>2. CASE \E x \in Writers : e = image'[x][b]
    BY <1>1, <2>2, SettledCases, NamedCases
  <2>3. CASE \E x \in Writers : Owns(x)' /\ BlockAt(x)' = b /\ e = PresentEntry(host'[x])
    BY <1>1, <1>4, <1>5, <2>3, SettledCases, NamedCases
  <2> QED
    BY <1>7, <2>1, <2>2, <2>3, SettledCasesPrime
<1>8. ASSUME NEW b \in Blocks, NEW e \in Named(b)' PROVE e \in Named(b)
  BY <1>1, <1>4, <1>6, <1>7, <1>8, NamedCases, NamedCasesPrime
<1>9. NoAliasing' /\ OpenBound'
  BY <1>1, <1>2, <1>8, NothingNamed DEF AllocInv, TypeOK
<1>10. NamesInsideFile'
  <2> SUFFICES ASSUME NEW b \in Blocks, NEW e \in Settled(b)', e.state = "present"
               PROVE  e.off + BlockSize <= len
    BY <1>3 DEF NamesInsideFile, EndsBy
  <2>1. e \in Named(b) /\ e.off \in Nat
    BY <1>7, NamedType DEF AllocInv
  <2>2. e.off + BlockSize <= devSize /\ devSize <= len
    BY <1>2, <2>1 DEF AllocInv, OpenBound, EndsBy, BoundNeverAhead
  <2> QED
    BY <2>1, <2>2, SizesAssumption DEF AllocInv, TypeOK, FileTypeOK
<1>11. Views' /\ BoundNeverAhead' /\ CallsNeedReader'
  BY <1>1, <1>2, <1>3 DEF FileKept, AllocInv, BoundNeverAhead, CallsNeedReader
<1> QED
  BY <1>9, <1>10, <1>11 DEF NamesSafe

-----------------------------------------------------------------------------
(* Steps that leave the file's outcomes, dev_size and the table alone. *)
LEMMA QuietStep ==
  ASSUME AllocInv, TypeOK', FileKept, len' = len, CallsKept, CallsNeedReader',
         UNCHANGED <<phase, devSize, table>>
  PROVE  AllocInv'
<1>1. NamesSafe'
  BY KeptFileNames, UnchangedMem
<1> QED
  BY <1>1 DEF AllocInv, NamesSafe, FileKept, BoundNeverAhead

(* A call that only flushes, or writes a header or cells. *)
LEMMA QuietMove ==
  ASSUME AllocInv, TypeOK', NEW w \in Writers, NEW s, FileKept, len' = len,
         Goto(w, s), UNCHANGED <<phase, devSize, table, req, host, image>>,
         pc[w] # "idle",
         s \in {"zeroFlush"} => Claims(w),
         s \in {"headerWrite", "headerFlush", "publish", "publishFlush",
                "publishTable", "journal", "logFlush"} => Owns(w),
         s \notin {"zero", "readSector"}
  PROVE  AllocInv'
<1>1. \A x \in Writers : pc'[x] = IF x = w THEN s ELSE pc[x]
  BY DEF Goto, AllocInv, TypeOK
<1>2. \A x \in Writers : Owns(x)' => Owns(x)
  BY <1>1 DEF Owns
<1>3. \A x \in Writers : Claims(x)' => Claims(x)
  BY <1>1 DEF Claims
<1>4. CallsKept /\ CallsNeedReader'
  BY <1>2, <1>3, MovedCalls
<1> QED
  BY <1>4, QuietStep

(* The invariant through the start of write_at: nothing is named yet. *)
LEMMA BeginWriteStep ==
  ASSUME AllocInv, TypeOK', NEW w \in Writers, BeginWrite(w)
  PROVE  AllocInv'
<1>1. /\ pc'[w] = "lookup"
      /\ \A x \in Writers \ {w} : pc'[x] = pc[x] /\ req'[x] = req[x]
      /\ UNCHANGED <<devVars, host, image>> /\ UNCHANGED <<phase, devSize, table>>
      /\ phase = "open"
  BY DEF BeginWrite, Goto, memVars, AllocInv, TypeOK
<1>2. CallsKept
  BY <1>1 DEF CallsKept, Owns, Claims, BlockAt
<1>3. CallsNeedReader'
  BY <1>1 DEF CallsNeedReader
<1> QED
  BY <1>1, <1>2, <1>3, UnchangedKept, QuietStep DEF AllocInv

(* Through the BAT lookup: the entry it copies was already named. *)
LEMMA LookupStep ==
  ASSUME AllocInv, TypeOK', NEW w \in Writers, Lookup(w)
  PROVE  AllocInv'
<1>1. FileKept /\ len' = len /\ pc[w] = "lookup"
  BY UnchangedKept DEF Lookup, AllocInv
<1>2. CASE ReturnError(w)
  <2>1. UNCHANGED <<phase, devSize, table>>
    BY <1>2 DEF ReturnError, memVars
  <2> QED
    BY <1>1, <1>2, <2>1, ReturnErrorCalls, QuietStep
<1>3. CASE \E o : host' = [host EXCEPT ![w] = o] /\ Goto(w, "payload")
                  /\ UNCHANGED <<memVars, req, image>>
  <2>1. /\ pc'[w] = "payload"
        /\ \A x \in Writers \ {w} : pc'[x] = pc[x] /\ host'[x] = host[x]
        /\ UNCHANGED <<req, image, phase, devSize, table>>
    BY <1>3 DEF Goto, memVars, AllocInv, TypeOK
  <2>2. CallsKept /\ CallsNeedReader'
    <3>1. \A x \in Writers : Owns(x)' => Owns(x) /\ host'[x] = host[x]
      BY <2>1 DEF Owns
    <3>2. \A x \in Writers : Claims(x)' => Claims(x) /\ host'[x] = host[x]
      BY <2>1 DEF Claims
    <3> QED
      BY <1>1, <1>3, <2>1, <3>1, <3>2, MovedCalls
  <2> QED
    BY <1>1, <2>1, <2>2, QuietStep
<1>4. CASE Goto(w, "allocate") /\ UNCHANGED <<memVars, req, host, image>>
  BY <1>1, <1>4, QuietMove DEF memVars
<1> QED
  BY <1>2, <1>3, <1>4 DEF Lookup

(* Through the claim of the tail, where a new name appears. *)
LEMMA AllocateStepKeeps ==
  ASSUME AllocInv, TypeOK', NEW w \in Writers, Allocate(w)
  PROVE  AllocInv'
<1>1. CASE NewDevSize(AlignUp(devSize)) <= MaxLen
  BY <1>1, AllocateNames DEF AllocInv, NamesSafe
<1>2. CASE ReturnError(w) /\ UNCHANGED devVars
  <2>1. UNCHANGED <<phase, devSize, table>>
    BY <1>2 DEF ReturnError, memVars
  <2> QED
    BY <1>2, <2>1, UnchangedKept, ReturnErrorCalls, QuietStep DEF AllocInv
<1> QED
  BY <1>1, <1>2 DEF Allocate

(* The sector as it stands on the device, with the call's own entry.       *)
LEMMA ReadSectorStep ==
  ASSUME AllocInv, TypeOK', NEW w \in Writers, ReadSector(w)
  PROVE  AllocInv'
<1>1. /\ pc[w] = "readSector" /\ pc'[w] = "journal"
      /\ \A x \in Writers \ {w} : pc'[x] = pc[x] /\ image'[x] = image[x]
      /\ UNCHANGED <<devVars, req, host, promise>> /\ UNCHANGED <<phase, devSize, table>>
  BY DEF ReadSector, Goto, memVars, AllocInv, TypeOK
<1>2. ASSUME NEW b \in Blocks, image'[w][b].state = "present"
      PROVE  image'[w][b] \in Settled(b)
  <2>1. \/ image'[w][b] = PresentEntry(host[w]) /\ b = BlockAt(w)
        \/ image'[w][b] = bat[b]
        \/ image'[w][b] = Uncovered
    BY DEF ReadSector, AllocInv, TypeOK
  <2>2. CASE image'[w][b] = PresentEntry(host[w]) /\ b = BlockAt(w)
    BY <1>1, <2>2, SettledCases DEF Owns
  <2>3. CASE image'[w][b] = bat[b]
    BY <2>3, SettledCases DEF AllocInv, Views
  <2> QED
    BY <1>2, <2>1, <2>2, <2>3, NotPresent
<1>3. FileKept /\ len' = len
  BY <1>1, UnchangedKept DEF AllocInv
<1>4. /\ \A x \in Writers : Owns(x)' => Owns(x) /\ host'[x] = host[x] /\ BlockAt(x)' = BlockAt(x)
      /\ \A x \in Writers : Claims(x)' => Claims(x) /\ host'[x] = host[x] /\ BlockAt(x)' = BlockAt(x)
  BY <1>1 DEF Owns, Claims, BlockAt
<1>5. ASSUME NEW b \in Blocks, NEW e \in Settled(b)', e.state = "present"
      PROVE  e \in Settled(b)
  <2>1. CASE e \in batMay'[b] \/ e = table'[b] \/ \E l \in logMay' : e = l.image[b]
    BY <1>1, <1>3, <2>1, SettledCases DEF FileKept
  <2>2. CASE \E x \in Writers : e = image'[x][b]
    BY <1>1, <1>2, <1>5, <2>2, SettledCases
  <2>3. CASE \E x \in Writers : Owns(x)' /\ BlockAt(x)' = b /\ e = PresentEntry(host'[x])
    BY <1>4, <2>3, SettledCases
  <2> QED
    BY <1>5, <2>1, <2>2, <2>3, SettledCasesPrime
<1>6. ASSUME NEW b \in Blocks, NEW e \in Named(b)', e.state = "present"
      PROVE  e \in Named(b)
  BY <1>4, <1>5, <1>6, NamedCases, NamedCasesPrime
<1>7. NoAliasing' /\ OpenBound'
  BY <1>1, <1>6, NothingNamed DEF AllocInv, TypeOK
<1>8. NamesInsideFile'
  <2>1. \A n \in lenMay' : \E m \in lenMay : m <= n
    BY <1>3 DEF FileKept, AllocInv, TypeOK, FileTypeOK
  <2> QED
    BY <1>5, <2>1, NothingSettled DEF TypeOK, FileTypeOK
<1>9. CallsNeedReader'
  BY <1>1 DEF AllocInv, CallsNeedReader
<1> QED
  BY <1>1, <1>3, <1>7, <1>8, <1>9 DEF AllocInv, FileKept, BoundNeverAhead

(* The image of a call is settled; so is what a log entry holds. *)
LEMMA ImagesSettled ==
  ASSUME AllocInv
  PROVE  /\ \A w \in Writers, b \in Blocks : image[w][b] \in Settled(b)
         /\ \A w \in Writers, b \in Blocks : JournalEntry(w).image[b] \in Settled(b)
         /\ \A b \in Blocks : log.image[b] \in Settled(b)
<1>1. \A w \in Writers, b \in Blocks : image[w][b] \in Settled(b)
  BY SettledCases
<1>2. \A w \in Writers : JournalEntry(w).image = image[w]
  BY DEF JournalEntry
<1>3. \A b \in Blocks : log.image[b] \in Settled(b)
  BY SettledCases DEF AllocInv, Views
<1> QED
  BY <1>1, <1>2, <1>3

(* Through journal_sector_write: the entry carries the writer's image. *)
LEMMA JournalStepKeeps ==
  ASSUME AllocInv, TypeOK', NEW w \in Writers, JournalStep(w)
  PROVE  AllocInv'
<1>1. CASE JournalLog(w)
  <2>1. /\ pc[w] = "journal" /\ Owns(w)
        /\ UNCHANGED <<phase, devSize, table, req, host, image>>
    BY <1>1 DEF JournalLog, memVars, Owns
  <2>2. CASE WriteLog(JournalEntry(w)) /\ Goto(w, "logFlush")
    <3>1. \A x \in Writers : pc'[x] = IF x = w THEN "logFlush" ELSE pc[x]
      BY <2>2 DEF Goto, AllocInv, TypeOK
    <3>2. \A x \in Writers : (Owns(x)' => Owns(x)) /\ (Claims(x)' => Claims(x))
      BY <2>1, <3>1 DEF Owns, Claims
    <3>3. CallsKept /\ CallsNeedReader'
      BY <2>1, <2>2, <3>2, MovedCalls
    <3>4. NamesSafe' /\ Views' /\ len' = len
      BY <2>1, <2>2, <3>3, UnchangedMem, ImagesSettled, WriteLogNames
    <3> QED
      BY <2>1, <3>3, <3>4 DEF AllocInv, NamesSafe, BoundNeverAhead
  <2>3. CASE Goto(w, "publish") /\ UNCHANGED devVars
    BY <2>1, <2>3, UnchangedKept, QuietMove DEF AllocInv
  <2> QED
    BY <1>1, <2>2, <2>3 DEF JournalLog
<1>2. CASE JournalLogFlush(w)
  <2>1. Flush /\ pc[w] = "logFlush" /\ Owns(w) /\ Goto(w, "headerWrite")
        /\ UNCHANGED <<phase, devSize, table, req, host, image>>
    BY <1>2 DEF JournalLogFlush, memVars, Owns
  <2> QED
    BY <2>1, FlushKept, QuietMove DEF AllocInv
<1>3. CASE JournalHeaderWrite(w)
  <2>1. WriteHeader(Other(activeSlot), JournalHeader) /\ pc[w] = "headerWrite" /\ Owns(w)
        /\ Goto(w, "headerFlush") /\ UNCHANGED <<phase, devSize, table, req, host, image>>
    BY <1>3 DEF JournalHeaderWrite, memVars, Owns
  <2> QED
    BY <2>1, WriteHeaderKept, QuietMove DEF AllocInv
<1>4. CASE JournalHeaderFlush(w)
  <2>1. Flush /\ pc[w] = "headerFlush" /\ Owns(w) /\ Goto(w, "publish")
        /\ UNCHANGED <<phase, devSize, table, req, host, image>>
    BY <1>4 DEF JournalHeaderFlush, Owns
  <2> QED
    BY <2>1, FlushKept, QuietMove DEF AllocInv
<1> QED
  BY <1>1, <1>2, <1>3, <1>4 DEF JournalStep

(* Through the in-place BAT write of the same image. *)
LEMMA PublishStep ==
  ASSUME AllocInv, TypeOK', NEW w \in Writers, Publish(w)
  PROVE  AllocInv'
<1>1. /\ pc[w] = "publish" /\ Owns(w) /\ WriteBatSector(image[w])
      /\ Goto(w, "publishFlush") /\ UNCHANGED <<phase, devSize, table, req, host, image>>
  BY DEF Publish, memVars, Owns
<1>2. \A x \in Writers : pc'[x] = IF x = w THEN "publishFlush" ELSE pc[x]
  BY <1>1 DEF Goto, AllocInv, TypeOK
<1>3. \A x \in Writers : (Owns(x)' => Owns(x)) /\ (Claims(x)' => Claims(x))
  BY <1>1, <1>2 DEF Owns, Claims
<1>4. CallsKept /\ CallsNeedReader'
  BY <1>1, <1>3, MovedCalls
<1>5. NamesSafe' /\ Views' /\ len' = len
  BY <1>1, <1>4, UnchangedMem, ImagesSettled, WriteBatSectorNames
<1> QED
  BY <1>1, <1>4, <1>5 DEF AllocInv, NamesSafe, BoundNeverAhead

(* The entry a call publishes in the table is the one it owns. *)
LEMMA PublishTableStep ==
  ASSUME AllocInv, TypeOK', NEW w \in Writers, PublishTable(w)
  PROVE  AllocInv'
<1>1. /\ pc[w] = "publishTable" /\ pc'[w] = "payload"
      /\ image'[w] = NoImage
      /\ \A x \in Writers \ {w} : pc'[x] = pc[x] /\ image'[x] = image[x]
      /\ UNCHANGED devVars /\ UNCHANGED <<phase, devSize, req, host>>
  BY DEF PublishTable, Goto, AllocInv, TypeOK
<1>2. \A b \in Blocks : table'[b] = IF b = BlockAt(w) THEN PresentEntry(host[w]) ELSE table[b]
  BY DEF PublishTable, AllocInv, TypeOK
<1>3. FileKept /\ len' = len
  BY <1>1, UnchangedKept DEF AllocInv
<1>4. CallsKept /\ CallsNeedReader'
  BY <1>1, NotPresent DEF CallsKept, Owns, Claims, BlockAt, AllocInv, CallsNeedReader
<1>5. BoundKept
  <2>1. \A b \in Blocks : table'[b] \in Settled(b)
    BY <1>1, <1>2, SettledCases DEF Owns
  <2> QED
    BY <1>1, <2>1 DEF BoundKept, AllocInv, TypeOK
<1>6. NamesSafe'
  BY <1>3, <1>4, <1>5, KeptFileNames
<1> QED
  BY <1>1, <1>3, <1>4, <1>6 DEF AllocInv, NamesSafe, FileKept, BoundNeverAhead

(* Through the payload write, which names nothing. *)
LEMMA WritePayloadStep ==
  ASSUME AllocInv, TypeOK', NEW w \in Writers, WritePayload(w)
  PROVE  AllocInv'
<1>1. pc[w] = "payload"
  BY DEF WritePayload
<1>2. CASE ReturnError(w) /\ UNCHANGED devVars
  <2>1. UNCHANGED <<phase, devSize, table>>
    BY <1>2 DEF ReturnError, memVars
  <2> QED
    BY <1>2, <2>1, UnchangedKept, ReturnErrorCalls, QuietStep DEF AllocInv
<1>3. CASE ~(ReturnError(w) /\ UNCHANGED devVars)
  <2>1. /\ WriteCells(PayloadFrom(w), PayloadTo(w), req[w].val)
        /\ pc'[w] \in {"finalFlush", "lookup"}
        /\ \A x \in Writers \ {w} : pc'[x] = pc[x] /\ req'[x] = req[x] /\ host'[x] = host[x]
        /\ UNCHANGED image /\ UNCHANGED <<phase, devSize, table>>
    BY <1>3 DEF WritePayload, Goto, memVars, AllocInv, TypeOK
  <2>2. FileKept /\ len' = len
    BY <2>1, WriteCellsKept DEF AllocInv
  <2>3. CallsKept
    BY <2>1 DEF CallsKept, Owns, Claims, BlockAt
  <2>4. CallsNeedReader'
    BY <1>1, <2>1 DEF CallsNeedReader, AllocInv
  <2> QED
    BY <2>1, <2>2, <2>3, <2>4, QuietStep
<1> QED
  BY <1>2, <1>3

(* Through the flush that ends write_at. *)
LEMMA AcknowledgeStep ==
  ASSUME AllocInv, TypeOK', NEW w \in Writers, Acknowledge(w)
  PROVE  AllocInv'
<1>1. /\ Flush /\ pc'[w] = "idle"
      /\ \A x \in Writers \ {w} : pc'[x] = pc[x] /\ req'[x] = req[x]
      /\ UNCHANGED <<host, image>> /\ UNCHANGED <<phase, devSize, table>>
  BY DEF Acknowledge, Goto, memVars, AllocInv, TypeOK
<1>2. CallsKept
  BY <1>1 DEF CallsKept, Owns, Claims, BlockAt
<1>3. CallsNeedReader'
  BY <1>1 DEF CallsNeedReader, AllocInv
<1> QED
  BY <1>1, <1>2, <1>3, FlushKept, QuietStep DEF AllocInv

(* A failed call may have had its effect; the call itself is gone. *)
LEMMA DeviceErrorStep ==
  ASSUME AllocInv, TypeOK', NEW w \in Writers, DeviceError(w)
  PROVE  AllocInv'
<1>1. ReturnError(w) /\ FailedEffect(w) /\ pc[w] # "idle"
  BY DEF DeviceError
<1>2. CallsKept /\ BoundKept /\ devSize' = devSize /\ phase' = phase /\ CallsNeedReader'
  BY <1>1, ReturnErrorCalls
<1>3. UNCHANGED <<phase, devSize, table>> /\ phase # "closed"
  BY <1>1 DEF ReturnError, memVars, AllocInv, CallsNeedReader
<1>4. CASE FileKept /\ len' = len
  BY <1>2, <1>3, <1>4, QuietStep
<1>5. CASE WriteLog(JournalEntry(w))
  <2>1. NamesSafe' /\ Views' /\ len' = len
    BY <1>2, <1>5, ImagesSettled, WriteLogNames
  <2> QED
    BY <1>2, <2>1 DEF AllocInv, NamesSafe, BoundNeverAhead
<1>6. CASE WriteBatSector(image[w]) \/ TearBatSector(image[w])
  <2>1. NamesSafe' /\ Views' /\ len' = len
    BY <1>2, <1>6, ImagesSettled, WriteBatSectorNames
  <2> QED
    BY <1>2, <2>1 DEF AllocInv, NamesSafe, BoundNeverAhead
<1>7. CASE SetLen(NewDevSize(AlignUp(devSize)))
  <2>1. NewDevSize(AlignUp(devSize)) \in Nat /\ NewDevSize(AlignUp(devSize)) >= devSize
    <3>1. AlignUp(devSize) \in Nat /\ AlignUp(devSize) >= devSize /\ devSize \in Nat
          /\ BlockSize \in Nat
      BY AlignUpNotBefore, SizesAssumption DEF AllocInv, TypeOK
    <3> QED
      BY <3>1 DEF NewDevSize
  <2>2. NamesSafe' /\ Views' /\ len' = NewDevSize(AlignUp(devSize))
    BY <1>2, <1>3, <1>7, <2>1, SetLenNames
  <2> QED
    BY <1>2, <2>1, <2>2 DEF AllocInv, NamesSafe, BoundNeverAhead
<1> QED
  BY <1>1, <1>4, <1>5, <1>6, <1>7, UnchangedKept, WriteCellsKept, WriteHeaderKept
  DEF FailedEffect, AllocInv

-----------------------------------------------------------------------------
(* open_inner takes the length of the file for dev_size: every settled     *)
(* entry lies below it, and nothing is claimed while no call is in flight. *)
LEMMA OpenStartStep ==
  ASSUME AllocInv, TypeOK', OpenStart
  PROVE  AllocInv'
<1>1. phase = "closed" /\ devSize' = len /\ UNCHANGED <<devVars, table, callVars>>
  BY DEF OpenStart
<1>2. FileKept /\ len' = len
  BY <1>1, UnchangedKept DEF AllocInv
<1>3. \A w \in Writers : pc[w] = "idle" /\ pc'[w] = "idle"
  BY <1>1 DEF AllocInv, CallsNeedReader, callVars
<1>4. ASSUME NEW b \in Blocks PROVE Settled(b)' = Settled(b) /\ Named(b)' = Settled(b)
  <2>1. Settled(b)' = Settled(b)
    BY <1>1 DEF Settled, devVars, batVars, logVars, callVars, Owns, BlockAt
  <2>2. \A w \in Writers : ~Claims(w)'
    BY <1>3 DEF Claims
  <2>3. \A e : e \in Named(b)' <=> e \in Settled(b)'
    BY <2>2, NamedCasesPrime
  <2>4. Named(b)' = Settled(b)'
    BY <2>3 DEF Named
  <2> QED
    BY <2>1, <2>4
<1>5. NoAliasing'
  <2>1. \A b \in Blocks : \A e \in Settled(b) : e \in Named(b)
    BY NamedCases
  <2> QED
    BY <1>4, <2>1 DEF AllocInv, NoAliasing
<1>6. OpenBound'
  BY <1>1, <1>4 DEF AllocInv, OpenBound, NamesInsideFile, Views
<1>7. NamesInsideFile'
  BY <1>1, <1>4 DEF AllocInv, NamesInsideFile, devVars, lenVars
<1>8. BoundNeverAhead'
  BY <1>1, <1>2 DEF BoundNeverAhead, AllocInv, TypeOK, FileTypeOK
<1>9. CallsNeedReader'
  BY <1>3 DEF CallsNeedReader
<1> QED
  BY <1>2, <1>5, <1>6, <1>7, <1>8, <1>9 DEF AllocInv, FileKept

(* No call is in flight while open_inner runs. *)
LEMMA OpeningCalls ==
  ASSUME AllocInv, phase # "open", UNCHANGED callVars
  PROVE  CallsKept /\ CallsNeedReader'
<1>1. \A w \in Writers : pc'[w] = "idle"
  BY DEF AllocInv, CallsNeedReader, callVars
<1> QED
  BY <1>1, UnchangedCalls DEF CallsNeedReader

(* A step of open_inner that only flushes, or writes a header. *)
LEMMA QuietOpening ==
  ASSUME AllocInv, TypeOK', phase \notin {"open", "closed"}, UNCHANGED callVars, FileKept,
         len' = len, UNCHANGED <<devSize, table>>
  PROVE  AllocInv'
<1>1. CallsKept /\ CallsNeedReader'
  BY OpeningCalls
<1>2. BoundKept
  BY SettledCases DEF BoundKept, AllocInv, TypeOK
<1>3. NamesSafe'
  BY <1>1, <1>2, KeptFileNames
<1> QED
  BY <1>1, <1>3 DEF AllocInv, NamesSafe, FileKept, BoundNeverAhead

(* Through the steps of open_inner: replay writes what the log named. *)
LEMMA OpenStepKeeps ==
  ASSUME AllocInv, TypeOK', OpenStep
  PROVE  AllocInv'
<1>1. CASE ReplayGrow
  <2> DEFINE extent == IF log.last > len THEN log.last ELSE len
  <2>1. /\ phase = "grow" /\ phase' = "apply" /\ devSize' = extent
        /\ UNCHANGED callVars /\ UNCHANGED table
        /\ IF extent > len THEN SetLen(extent) ELSE UNCHANGED devVars
    BY <1>1 DEF ReplayGrow
  <2>2. len \in Nat /\ log.last \in Nat /\ devSize \in Nat /\ devSize <= len
    BY <2>1 DEF AllocInv, TypeOK, FileTypeOK, LogEntries, BoundNeverAhead
  <2>3. extent \in Nat /\ extent >= len /\ extent >= devSize
    BY <2>2
  <2> HIDE DEF extent
  <2>4. CallsKept /\ CallsNeedReader'
    BY <2>1, OpeningCalls
  <2>5. BoundKept
    BY <2>1, <2>3, SettledCases DEF BoundKept
  <2>6. CASE SetLen(extent)
    <3>1. NamesSafe' /\ Views' /\ len' = extent
      BY <2>1, <2>3, <2>4, <2>5, <2>6, SetLenNames
    <3> QED
      BY <2>1, <2>3, <2>4, <3>1 DEF AllocInv, NamesSafe, BoundNeverAhead
  <2>7. CASE UNCHANGED devVars /\ ~(extent > len)
    <3>1. FileKept /\ len' = len
      BY <2>7, UnchangedKept DEF AllocInv
    <3>2. NamesSafe'
      BY <2>4, <2>5, <3>1, KeptFileNames
    <3> QED
      BY <2>1, <2>2, <2>3, <2>4, <2>7, <3>1, <3>2
      DEF AllocInv, NamesSafe, BoundNeverAhead, FileKept
  <2> QED
    BY <2>1, <2>6, <2>7
<1>2. CASE ReplayWrite
  <2>1. /\ phase = "apply" /\ WriteBatSector(log.image) /\ UNCHANGED callVars
        /\ UNCHANGED <<devSize, table>>
    BY <1>2 DEF ReplayWrite
  <2>2. CallsKept /\ CallsNeedReader'
    BY <2>1, OpeningCalls
  <2>3. BoundKept
    BY <2>1, SettledCases DEF BoundKept, AllocInv, TypeOK
  <2>4. NamesSafe' /\ Views' /\ len' = len
    BY <2>1, <2>2, <2>3, ImagesSettled, WriteBatSectorNames
  <2> QED
    BY <2>1, <2>2, <2>4 DEF AllocInv, NamesSafe, BoundNeverAhead
<1>3. CASE EraseLog
  <2>1. /\ phase = "erase" /\ WriteLog(NoEntry) /\ UNCHANGED callVars
        /\ UNCHANGED <<devSize, table>>
    BY <1>3 DEF EraseLog
  <2>2. CallsKept /\ CallsNeedReader'
    BY <2>1, OpeningCalls
  <2>3. BoundKept
    BY <2>1, SettledCases DEF BoundKept, AllocInv, TypeOK
  <2>4. NamesSafe' /\ Views' /\ len' = len
    BY <2>1, <2>2, <2>3, NotPresent, WriteLogNames
  <2> QED
    BY <2>1, <2>2, <2>4 DEF AllocInv, NamesSafe, BoundNeverAhead
<1>4. CASE ReplayFlush \/ EraseFlush \/ ClearFlush
  BY <1>4, FlushKept, QuietOpening DEF ReplayFlush, EraseFlush, ClearFlush, AllocInv
<1>5. CASE ClearHeader
  BY <1>5, WriteHeaderKept, QuietOpening DEF ClearHeader, AllocInv
<1>6. CASE LoadBat
  <2>1. phase = "load" /\ table' = bat /\ UNCHANGED devVars /\ UNCHANGED callVars
        /\ UNCHANGED devSize
    BY <1>6 DEF LoadBat
  <2>2. FileKept /\ len' = len
    BY <2>1, UnchangedKept DEF AllocInv
  <2>3. CallsKept /\ CallsNeedReader'
    BY <2>1, OpeningCalls
  <2>4. BoundKept
    BY <2>1, SettledCases DEF BoundKept, AllocInv, TypeOK, Views
  <2>5. NamesSafe'
    BY <2>2, <2>3, <2>4, KeptFileNames
  <2> QED
    BY <2>1, <2>2, <2>3, <2>5 DEF AllocInv, NamesSafe, FileKept, BoundNeverAhead
<1> QED
  BY <1>1, <1>2, <1>3, <1>4, <1>5, <1>6 DEF OpenStep

(* Through an open that fails, whatever its last device call did. *)
LEMMA OpenErrorStep ==
  ASSUME AllocInv, TypeOK', OpenError
  PROVE  AllocInv'
<1>1. Forget /\ phase \notin {"closed", "open"}
  BY DEF OpenError
<1>2. CallsKept /\ BoundKept /\ CallsNeedReader' /\ BoundNeverAhead'
  BY <1>1, ForgetNames
<1>3. CASE FileKept
  BY <1>2, <1>3, KeptFileNames DEF AllocInv, NamesSafe, FileKept
<1>4. CASE WriteLog(NoEntry)
  BY <1>2, <1>4, NotPresent, WriteLogNames DEF AllocInv, NamesSafe
<1>5. CASE WriteBatSector(log.image) \/ TearBatSector(log.image)
  BY <1>2, <1>5, ImagesSettled, WriteBatSectorNames DEF AllocInv, NamesSafe
<1>6. CASE log.last > len /\ SetLen(log.last)
  <2>1. log.last \in Nat /\ log.last >= devSize
    BY <1>1, <1>6 DEF AllocInv, TypeOK, FileTypeOK, LogEntries, BoundNeverAhead
  <2> QED
    BY <1>1, <1>2, <1>6, <2>1, SetLenNames DEF AllocInv, NamesSafe
<1> QED
  BY <1>3, <1>4, <1>5, <1>6, UnchangedKept, WriteHeaderKept DEF OpenError, AllocInv

(* Through any step that drops the reader. *)
LEMMA ForgetStep ==
  ASSUME AllocInv, TypeOK', FileKept, Forget
  PROVE  AllocInv'
<1>1. CallsKept /\ BoundKept /\ CallsNeedReader' /\ BoundNeverAhead'
  BY ForgetNames
<1> QED
  BY <1>1, KeptFileNames DEF AllocInv, NamesSafe, FileKept

-----------------------------------------------------------------------------
(* A sound image starts in the invariant. *)
LEMMA AllocInit ==
  ASSUME ImageSound, Init
  PROVE  AllocInv
<1>1. TypeOK
  BY TypeInit
<1>0. PICK st \in Starts : InitImage(st)
  BY DEF Init
<1>2. /\ phase = "closed" /\ len = st.len /\ lenMay = {st.len} /\ log = st.log
      /\ logMay = {st.log} /\ bat = st.bat
      /\ \A b \in Blocks : batMay[b] = {st.bat[b]} /\ table[b] = AbsentEntry
      /\ \A w \in Writers : pc[w] = "idle" /\ image[w] = NoImage
  BY <1>0 DEF Init, InitImage
<1>3. ASSUME NEW b \in Blocks, NEW e \in Named(b), e.state = "present"
      PROVE  e \in InitNames(st, b)
  <2>1. \A w \in Writers : ~Owns(w) /\ ~Claims(w)
    BY <1>2 DEF Owns, Claims
  <2>2. e # AbsentEntry /\ \A w \in Writers : e # image[w][b]
    BY <1>2, <1>3, NotPresent
  <2> QED
    BY <1>2, <1>3, <2>1, <2>2, NamedCases, SettledCases DEF InitNames
<1>4. NoAliasing
  BY <1>3 DEF ImageSound, SoundStart, NoAliasing, Apart
<1>5. NamesInsideFile
  <2>1. \A b \in Blocks : \A e \in Settled(b) : e \in Named(b)
    BY NamedCases
  <2> QED
    BY <1>2, <1>3, <2>1 DEF ImageSound, SoundStart, NamesInsideFile, EndsBy
<1> QED
  BY <1>1, <1>2, <1>4, <1>5
  DEF AllocInv, Views, CallsNeedReader, BoundNeverAhead, OpenBound

(* One case for each action of Next. *)
LEMMA AllocStep ==
  ASSUME AllocInv, [Next]_vars
  PROVE  AllocInv'
<1>1. TypeOK'
  BY TypeStep DEF AllocInv
<1>2. ASSUME NEW w \in Writers, AllocateStep(w) PROVE AllocInv'
  <2>1. CASE ZeroInit(w)
    <3>1. /\ WriteCells(host[w], host[w] + BlockSize - 1, Zero) /\ pc[w] = "zero"
          /\ Claims(w) /\ Goto(w, "zeroFlush")
          /\ UNCHANGED <<phase, devSize, table, req, host, image>>
      BY <2>1 DEF ZeroInit, memVars, Claims
    <3> QED
      BY <1>1, <3>1, WriteCellsKept, QuietMove DEF AllocInv
  <2>2. CASE PublishFlush(w)
    <3>1. /\ Flush /\ pc[w] = "publishFlush" /\ Owns(w) /\ Goto(w, "publishTable")
          /\ UNCHANGED <<phase, devSize, table, req, host, image>>
      BY <2>2 DEF PublishFlush, memVars, Owns
    <3> QED
      BY <1>1, <3>1, FlushKept, QuietMove DEF AllocInv
  <2>3. CASE ZeroFlush(w)
    BY <1>1, <2>3, ZeroFlushNames DEF AllocInv, NamesSafe
  <2> QED
    BY <1>1, <1>2, <2>1, <2>2, <2>3, AllocateStepKeeps, ReadSectorStep, PublishStep,
       PublishTableStep DEF AllocateStep
<1>3. CASE Close \/ Kill \/ Crash
  BY <1>1, <1>3, UnchangedKept, LosePowerKept, ForgetStep DEF Close, Kill, Crash, AllocInv
<1>4. CASE UNCHANGED vars
  <2>1. UNCHANGED devVars /\ UNCHANGED callVars /\ UNCHANGED <<phase, devSize, table>>
    BY <1>4 DEF vars, memVars
  <2>2. CallsNeedReader'
    BY <2>1 DEF AllocInv, CallsNeedReader, callVars
  <2> QED
    BY <1>1, <2>1, <2>2, UnchangedKept, UnchangedCalls, QuietStep DEF AllocInv
<1> QED
  BY <1>1, <1>2, <1>3, <1>4, BeginWriteStep, LookupStep, JournalStepKeeps, WritePayloadStep,
     AcknowledgeStep, DeviceErrorStep, OpenStartStep, OpenStepKeeps, OpenErrorStep
  DEF Next, WriteStep

(* The inductive invariant behind the next two theorems: as long as the    *)
(* image was sound before its first open, dev_size bounds every entry that *)
(* exists or may come to exist (allocate_block_for).                       *)
THEOREM AllocInvariant == ASSUME ImageSound PROVE Spec => []AllocInv
  BY AllocInit, AllocStep, PTL DEF Spec

(* However many threads allocate at once and wherever power is lost, no    *)
(* two virtual blocks of an image that was sound share a byte of the host  *)
(* file (allocate_block_for under the dev_size lock).                      *)
THEOREM NoAliasingAlways == ASSUME ImageSound PROVE Spec => []NoAliasing
  BY AllocInvariant, PTL DEF AllocInv

(* No crash leaves a BAT entry, in place or in the log, that names bytes   *)
(* past the end of the file (the zero-fill and its flush come first).      *)
THEOREM NamesInsideFileAlways == ASSUME ImageSound PROVE Spec => []NamesInsideFile
  BY AllocInvariant, PTL DEF AllocInv

-----------------------------------------------------------------------------
(* dev_size and the length of the file need nothing of the image.          *)
LEMMA BoundStep ==
  ASSUME TypeOK, TypeOK', BoundNeverAhead, [Next]_vars
  PROVE  BoundNeverAhead'
<1> SUFFICES ASSUME phase' # "closed" PROVE devSize' <= len'
  BY DEF BoundNeverAhead
<1>1. /\ devSize \in Nat /\ len \in Nat /\ log.last \in Nat /\ devSize' \in Nat
      /\ NewDevSize(AlignUp(devSize)) \in Nat /\ NewDevSize(AlignUp(devSize)) >= devSize
      /\ phase # "closed" => devSize <= len
  <2>1. AlignUp(devSize) \in Nat /\ AlignUp(devSize) >= devSize /\ devSize \in Nat
        /\ BlockSize \in Nat
    BY AlignUpNotBefore, SizesAssumption DEF TypeOK
  <2> QED
    BY <2>1 DEF NewDevSize, TypeOK, FileTypeOK, LogEntries, BoundNeverAhead
<1>2. CASE len' = len /\ devSize' = devSize /\ phase # "closed"
  BY <1>1, <1>2
<1>3. CASE \E w \in Writers : Allocate(w)
  <2>1. CASE devSize' = NewDevSize(AlignUp(devSize)) /\ len' = NewDevSize(AlignUp(devSize))
    BY <1>1, <2>1
  <2> QED
    BY <1>2, <1>3, <2>1
    DEF Allocate, SetLen, ReturnError, memVars, devVars, lenVars, BoundNeverAhead
<1>4. CASE \E w \in Writers : DeviceError(w)
  <2>1. devSize' = devSize /\ phase' = phase
    BY <1>4 DEF DeviceError, ReturnError, memVars
  <2>2. len' = len \/ len' = NewDevSize(AlignUp(devSize))
    BY <1>4 DEF DeviceError, FailedEffect, SetLen, WriteCells, WriteLog, WriteHeader,
       WriteBatSector, TearBatSector, devVars, lenVars
  <2> QED
    BY <1>1, <2>1, <2>2
<1>5. CASE OpenStart
  BY <1>1, <1>5 DEF OpenStart, devVars, lenVars
<1>6. CASE ReplayGrow
  BY <1>1, <1>6 DEF ReplayGrow, SetLen, devVars, lenVars
<1>7. CASE OpenError \/ Close \/ Kill \/ Crash
  BY <1>7 DEF OpenError, Close, Kill, Crash, Forget
<1>8. CASE \/ ReplayWrite \/ ReplayFlush \/ EraseLog \/ EraseFlush
           \/ ClearHeader \/ ClearFlush \/ LoadBat
  BY <1>2, <1>8
  DEF ReplayWrite, ReplayFlush, EraseLog, EraseFlush, ClearHeader, ClearFlush, LoadBat,
      WriteBatSector, WriteLog, WriteHeader, Flush, devVars, lenVars
<1>9. ASSUME NEW w \in Writers,
             BeginWrite(w) \/ Lookup(w) \/ WritePayload(w) \/ Acknowledge(w)
      PROVE  devSize' <= len'
  <2>1. len' = len /\ devSize' = devSize /\ phase' = phase
    BY <1>9 DEF BeginWrite, Lookup, WritePayload, Acknowledge, ReturnError, WriteCells, Flush,
       memVars, devVars, lenVars
  <2> QED
    BY <1>1, <2>1
<1>10. ASSUME NEW w \in Writers, (AllocateStep(w) /\ ~Allocate(w)) \/ JournalStep(w)
       PROVE  devSize' <= len'
  <2>1. len' = len /\ devSize' = devSize /\ phase' = phase
    BY <1>10 DEF AllocateStep, ZeroInit, ZeroFlush, ReadSector, Publish, PublishFlush,
       PublishTable, JournalStep, JournalLog, JournalLogFlush, JournalHeaderWrite,
       JournalHeaderFlush, WriteCells, WriteLog, WriteHeader, WriteBatSector, Flush,
       memVars, devVars, lenVars
  <2> QED
    BY <1>1, <2>1
<1>11. CASE UNCHANGED vars
  BY <1>1, <1>11 DEF vars, memVars, devVars, lenVars
<1> QED
  BY <1>3, <1>4, <1>5, <1>6, <1>7, <1>8, <1>9, <1>10, <1>11 DEF Next, WriteStep, OpenStep

(* Whatever the image, dev_size never names bytes that are not in the      *)
(* file: host_offset may trust it (the order set_len, then the bound).     *)
THEOREM BoundNeverAheadAlways == Spec => []BoundNeverAhead
<1>1. Init => BoundNeverAhead
  BY DEF Init, BoundNeverAhead
<1>2. TypeOK /\ TypeOK' /\ BoundNeverAhead /\ [Next]_vars => BoundNeverAhead'
  BY BoundStep
<1> QED
  BY <1>1, <1>2, TypeCorrect, PTL DEF Spec

-----------------------------------------------------------------------------
(***************************************************************************)
(* Nothing is written past the end of the file, whatever the image.        *)
(***************************************************************************)

(* Calls are made on a reader, and open_inner makes none. *)
LEMMA CallsStep ==
  ASSUME TypeOK, CallsNeedReader, [Next]_vars
  PROVE  CallsNeedReader'
<1>1. ASSUME NEW w \in Writers, BeginWrite(w) \/ WriteStep(w) \/ DeviceError(w)
      PROVE  CallsNeedReader'
  <2>1. phase' = phase /\ (pc[w] # "idle" \/ phase = "open")
    BY <1>1 DEF BeginWrite, WriteStep, AllocateStep, JournalStep, Lookup, Allocate, ZeroInit,
       ZeroFlush, ReadSector, Publish, PublishFlush, PublishTable, JournalLog,
       JournalLogFlush, JournalHeaderWrite, JournalHeaderFlush, WritePayload, Acknowledge,
       DeviceError, ReturnError, memVars
  <2> QED
    BY <2>1 DEF CallsNeedReader
<1>2. CASE OpenStart \/ OpenStep
  <2>1. phase # "open" /\ pc' = pc
    BY <1>2 DEF OpenStart, OpenStep, ReplayGrow, ReplayWrite, ReplayFlush, EraseLog,
       EraseFlush, ClearHeader, ClearFlush, LoadBat, callVars
  <2> QED
    BY <2>1 DEF CallsNeedReader
<1>3. CASE OpenError \/ Close \/ Kill \/ Crash
  BY <1>3 DEF OpenError, Close, Kill, Crash, Forget, CallsNeedReader
<1>4. CASE UNCHANGED vars
  BY <1>4 DEF vars, memVars, callVars, CallsNeedReader
<1> QED
  BY <1>1, <1>2, <1>3, <1>4 DEF Next

(* The block a call zeroes is part of the device. *)
ClaimInside == \A w \in Writers : pc[w] = "zero" => host[w] + BlockSize <= devSize

(* A set_len that failed may have made the file longer than dev_size says, *)
(* by no more than the next allocation will.                               *)
GrowthBound == phase # "closed" => len <= NewDevSize(AlignUp(devSize))

InsideInv ==
  /\ TypeOK
  /\ CallsNeedReader
  /\ BoundNeverAhead
  /\ ClaimInside
  /\ GrowthBound
  /\ WritesStayInside

(* The device operations and the cells past the end: those that leave the  *)
(* cells and the length alone, *)
LEMMA KeptCells ==
  ASSUME WritesStayInside, UNCHANGED <<data, len>>,
         dataMay' = dataMay \/ dataMay' = [a \in Cells |-> {data[a]}]
  PROVE  WritesStayInside'
  BY DEF WritesStayInside

(* a write below the end, *)
LEMMA CellsInside ==
  ASSUME TypeOK, WritesStayInside, NEW from, NEW to \in Int, NEW v, to < len,
         WriteCells(from, to, v)
  PROVE  WritesStayInside'
<1> SUFFICES ASSUME NEW a \in Cells, a >= len'
             PROVE  dataMay'[a] = {Junk} /\ data'[a] = Junk
  BY DEF WritesStayInside
<1>1. len' = len /\ len \in Nat /\ a \in Int
  BY SizesAssumption DEF WriteCells, lenVars, TypeOK, FileTypeOK, Cells
<1>2. a \notin from .. to
  BY <1>1
<1> QED
  BY <1>1, <1>2 DEF WriteCells, WritesStayInside

(* a set_len that does not cut the file, *)
LEMMA CellsGrown ==
  ASSUME TypeOK, WritesStayInside, NEW n \in Nat, n >= len, SetLen(n)
  PROVE  WritesStayInside'
<1> SUFFICES ASSUME NEW a \in Cells, a >= n
             PROVE  dataMay[a] = {Junk} /\ data[a] = Junk
  BY DEF WritesStayInside, SetLen, dataVars
<1>1. a >= len
  BY SizesAssumption DEF TypeOK, FileTypeOK, Cells
<1> QED
  BY <1>1 DEF WritesStayInside

(* and a loss of power. *)
LEMMA CellsLost ==
  ASSUME TypeOK, LosePower
  PROVE  WritesStayInside'
<1>1. PICK n \in lenMay : len' = n /\ \E d \in Survivors(data, dataMay) :
                             data' = [a \in Cells |-> IF a < n THEN d[a] ELSE Junk]
  BY DEF LosePower
<1>2. n \in Nat /\ \A a \in Cells : a \in Int
  BY SizesAssumption DEF TypeOK, FileTypeOK, Cells
<1>3. ASSUME NEW a \in Cells, a >= n PROVE data'[a] = Junk
  BY <1>1, <1>2, <1>3
<1> QED
  BY <1>1, <1>3 DEF LosePower, WritesStayInside

(* The piece of a payload write ends where host_offset looked. *)
LEMMA PayloadEnd ==
  ASSUME TypeOK, NEW w \in Writers
  PROVE  PayloadTo(w) \in Int
<1>1. /\ BlockSize \in Nat \ {0} /\ host[w] \in Nat
      /\ req[w].last \in Nat /\ BlockAt(w) \in Nat
  BY BlockAtType, SizesAssumption DEF TypeOK, Blocks, VirtualCells
<1>2. (BlockAt(w) + 1) * BlockSize \in Int
  BY <1>1
<1>3. ChunkEnd(w) \in Int
  BY <1>1, <1>2 DEF ChunkEnd
<1>4. ChunkEnd(w) % BlockSize \in Int
  BY <1>1, <1>3
<1> QED
  BY <1>1, <1>4 DEF PayloadTo, InBlock

(* What dev_size becomes when a block is appended. *)
LEMMA AppendedSize ==
  ASSUME TypeOK
  PROVE  /\ devSize \in Nat /\ BlockSize \in Nat \ {0} /\ len \in Nat
         /\ AlignUp(devSize) \in Nat
         /\ NewDevSize(AlignUp(devSize)) = AlignUp(devSize) + BlockSize
         /\ NewDevSize(AlignUp(devSize)) >= devSize
<1>1. AlignUp(devSize) \in Nat /\ AlignUp(devSize) >= devSize /\ devSize \in Nat
      /\ BlockSize \in Nat \ {0}
  BY AlignUpNotBefore, SizesAssumption DEF TypeOK
<1> QED
  BY <1>1 DEF NewDevSize, TypeOK, FileTypeOK

(* One case for each kind of step. *)
LEMMA InsideStep ==
  ASSUME InsideInv, [Next]_vars
  PROVE  InsideInv'
<1>1. TypeOK' /\ CallsNeedReader' /\ BoundNeverAhead' /\ TypeOK
  BY TypeStep, CallsStep, BoundStep DEF InsideInv
<1>2. ASSUME ClaimInside', GrowthBound', WritesStayInside' PROVE InsideInv'
  BY <1>1, <1>2 DEF InsideInv
<1>3. ASSUME phase' = "closed", WritesStayInside' PROVE InsideInv'
  <2>1. ClaimInside' /\ GrowthBound'
    BY <1>1, <1>3 DEF ClaimInside, GrowthBound, CallsNeedReader
  <2> QED
    BY <1>2, <1>3, <2>1
<1>4. ASSUME WritesStayInside', len' = len, devSize' = devSize,
             phase' # "closed" => phase # "closed",
             \A w \in Writers : pc'[w] = "zero" => pc[w] = "zero" /\ host'[w] = host[w]
      PROVE  InsideInv'
  <2>1. ClaimInside'
    BY <1>4 DEF InsideInv, ClaimInside
  <2>2. GrowthBound'
    BY <1>4 DEF InsideInv, GrowthBound, NewDevSize, AlignUp
  <2> QED
    BY <1>2, <1>4, <2>1, <2>2
<1>5. ASSUME NEW w \in Writers, BeginWrite(w) \/ Lookup(w) \/ JournalStep(w) \/ Acknowledge(w)
      PROVE  InsideInv'
  <2>1. /\ data' = data /\ len' = len /\ devSize' = devSize /\ phase' = phase
        /\ dataMay' = dataMay \/ dataMay' = [a \in Cells |-> {data[a]}]
    BY <1>5 DEF BeginWrite, Lookup, JournalStep, JournalLog, JournalLogFlush, ReturnError,
       JournalHeaderWrite, JournalHeaderFlush, Acknowledge, WriteLog, WriteHeader, Flush,
       memVars, devVars, dataVars, lenVars
  <2>2. \A x \in Writers : pc'[x] = "zero" => pc[x] = "zero" /\ host'[x] = host[x]
    BY <1>5 DEF BeginWrite, Lookup, JournalStep, JournalLog, JournalLogFlush, ReturnError,
       JournalHeaderWrite, JournalHeaderFlush, Acknowledge, Goto, InsideInv, TypeOK
  <2> QED
    BY <1>4, <2>1, <2>2, KeptCells DEF InsideInv
<1>6. ASSUME NEW w \in Writers, Allocate(w) PROVE InsideInv'
  <2>1. CASE NewDevSize(AlignUp(devSize)) <= MaxLen
    <3> DEFINE off == AlignUp(devSize)
    <3>1. /\ devSize \in Nat /\ BlockSize \in Nat \ {0} /\ len \in Nat /\ off \in Nat
          /\ off + BlockSize >= devSize /\ MaxLen \in Nat
          /\ NewDevSize(off) = off + BlockSize
      BY <1>1, AppendedSize, SizesAssumption
    <3> HIDE DEF off
    <3>2. /\ SetLen(off + BlockSize) /\ devSize' = off + BlockSize
          /\ host' = [host EXCEPT ![w] = off] /\ Goto(w, "zero") /\ phase' = phase
          /\ pc[w] = "allocate"
      BY <1>6, <2>1, <3>1 DEF Allocate, off
    <3>3. len <= off + BlockSize
      BY <3>1, <3>2 DEF InsideInv, GrowthBound, CallsNeedReader, off
    <3>4. WritesStayInside'
      BY <1>1, <3>1, <3>2, <3>3, CellsGrown DEF InsideInv
    <3>5. ClaimInside'
      <4> SUFFICES ASSUME NEW x \in Writers, pc'[x] = "zero"
                   PROVE  host'[x] + BlockSize <= off + BlockSize
        BY <3>2 DEF ClaimInside
      <4>1. CASE x = w
        BY <1>1, <3>1, <3>2, <4>1 DEF TypeOK
      <4>2. CASE x # w
        <5>1. pc[x] = "zero" /\ host'[x] = host[x] /\ host[x] \in Nat
          BY <1>1, <3>2, <4>2 DEF TypeOK, Goto
        <5>2. host[x] + BlockSize <= devSize
          BY <5>1 DEF InsideInv, ClaimInside
        <5> QED
          BY <3>1, <5>1, <5>2
      <4> QED
        BY <4>1, <4>2
    <3>6. GrowthBound'
      <4>1. len' = devSize'
        BY <3>2 DEF SetLen
      <4>2. NewDevSize(AlignUp(devSize')) >= devSize'
        <5>1. devSize' \in Nat /\ BlockSize \in Nat
          BY <3>1, <3>2
        <5>2. AlignUp(devSize') \in Nat /\ AlignUp(devSize') >= devSize'
          BY <5>1, AlignUpNotBefore
        <5> QED
          BY <5>1, <5>2 DEF NewDevSize
      <4> QED
        BY <4>1, <4>2 DEF GrowthBound
    <3> QED
      BY <1>2, <3>4, <3>5, <3>6
  <2>2. CASE ~(NewDevSize(AlignUp(devSize)) <= MaxLen)
    <3>1. /\ UNCHANGED devVars /\ ReturnError(w)
      BY <1>6, <2>2 DEF Allocate
    <3>2. data' = data /\ dataMay' = dataMay /\ len' = len /\ devSize' = devSize /\ phase' = phase
      BY <3>1 DEF devVars, dataVars, lenVars, ReturnError, memVars
    <3>3. \A x \in Writers : pc'[x] = "zero" => pc[x] = "zero" /\ host'[x] = host[x]
      BY <1>1, <3>1 DEF ReturnError, Goto, TypeOK
    <3> QED
      BY <1>4, <3>2, <3>3, KeptCells DEF InsideInv
  <2> QED
    BY <2>1, <2>2

<1>7. ASSUME NEW w \in Writers, AllocateStep(w), ~Allocate(w) PROVE InsideInv'
  <2>1. len' = len /\ devSize' = devSize /\ phase' = phase
    BY <1>7 DEF AllocateStep, ZeroInit, ZeroFlush, ReadSector, Publish, PublishFlush,
       PublishTable, WriteCells, WriteBatSector, Flush, memVars, devVars, lenVars
  <2>2. \A x \in Writers : pc'[x] = "zero" => pc[x] = "zero" /\ host'[x] = host[x]
    BY <1>7 DEF AllocateStep, ZeroInit, ZeroFlush, ReadSector, Publish, PublishFlush,
       PublishTable, Goto, InsideInv, TypeOK
  <2>3. CASE ZeroInit(w)
    <3>1. pc[w] = "zero" /\ WriteCells(host[w], host[w] + BlockSize - 1, Zero)
      BY <2>3 DEF ZeroInit
    <3>2. host[w] + BlockSize <= devSize /\ devSize <= len
      BY <3>1 DEF InsideInv, ClaimInside, BoundNeverAhead, CallsNeedReader
    <3>3. host[w] \in Nat /\ BlockSize \in Nat /\ devSize \in Nat /\ len \in Nat
      BY <1>1, SizesAssumption DEF TypeOK, FileTypeOK
    <3>4. WritesStayInside'
      BY <1>1, <3>1, <3>2, <3>3, CellsInside DEF InsideInv
    <3> QED
      BY <1>4, <2>1, <2>2, <3>4
  <2>4. CASE ~ZeroInit(w)
    <3>1. data' = data /\ (dataMay' = dataMay \/ dataMay' = [a \in Cells |-> {data[a]}])
      BY <1>7, <2>4 DEF AllocateStep, ZeroFlush, ReadSector, Publish, PublishFlush,
         PublishTable, WriteBatSector, Flush, devVars, dataVars
    <3> QED
      BY <1>4, <2>1, <2>2, <3>1, KeptCells DEF InsideInv
  <2> QED
    BY <2>3, <2>4
<1>8. ASSUME NEW w \in Writers, InsideDevice(w), pc[w] = "payload",
             WriteCells(PayloadFrom(w), PayloadTo(w), req[w].val)
      PROVE  WritesStayInside'
  <2>1. PayloadTo(w) < devSize /\ devSize <= len /\ devSize \in Nat /\ len \in Nat
    BY <1>8 DEF InsideDevice, InsideInv, BoundNeverAhead, CallsNeedReader, TypeOK, FileTypeOK
  <2>2. PayloadTo(w) \in Int
    BY <1>1, PayloadEnd
  <2> QED
    BY <1>1, <1>8, <2>1, <2>2, CellsInside DEF InsideInv
<1>9. ASSUME NEW w \in Writers, WritePayload(w) PROVE InsideInv'
  <2>1. len' = len /\ devSize' = devSize /\ phase' = phase
    BY <1>9 DEF WritePayload, WriteCells, ReturnError, memVars, devVars, lenVars
  <2>2. \A x \in Writers : pc'[x] = "zero" => pc[x] = "zero" /\ host'[x] = host[x]
    BY <1>9 DEF WritePayload, ReturnError, Goto, InsideInv, TypeOK
  <2>3. WritesStayInside'
    <3>1. CASE InsideDevice(w)
      BY <1>8, <1>9, <3>1 DEF WritePayload
    <3>2. CASE ~InsideDevice(w)
      <4>1. data' = data /\ dataMay' = dataMay
        BY <1>9, <3>2 DEF WritePayload, devVars, dataVars
      <4> QED
        BY <2>1, <4>1, KeptCells DEF InsideInv
    <3> QED
      BY <3>1, <3>2
  <2> QED
    BY <1>4, <2>1, <2>2, <2>3
<1>10. ASSUME NEW w \in Writers, DeviceError(w) PROVE InsideInv'
  <2>1. devSize' = devSize /\ phase' = phase /\ phase = "open" /\ FailedEffect(w)
    BY <1>10 DEF DeviceError, ReturnError, memVars, InsideInv, CallsNeedReader
  <2>2. \A x \in Writers : pc'[x] = "zero" => pc[x] = "zero" /\ host'[x] = host[x]
    BY <1>10 DEF DeviceError, ReturnError, Goto, InsideInv, TypeOK
  <2>3. CASE SetLen(NewDevSize(AlignUp(devSize)))
    <3> DEFINE n == NewDevSize(AlignUp(devSize))
    <3>1. n \in Nat /\ n >= len /\ len' = n
      BY <1>1, <2>1, <2>3, AppendedSize DEF InsideInv, GrowthBound, SetLen
    <3>2. WritesStayInside'
      BY <1>1, <2>3, <3>1, CellsGrown DEF InsideInv
    <3>3. GrowthBound'
      BY <2>1, <3>1 DEF GrowthBound, NewDevSize, AlignUp
    <3>4. ClaimInside'
      BY <2>1, <2>2 DEF InsideInv, ClaimInside
    <3> QED
      BY <1>2, <3>2, <3>3, <3>4
  <2>4. CASE ~SetLen(NewDevSize(AlignUp(devSize)))
    <3>1. len' = len
      BY <2>1, <2>4 DEF FailedEffect, WriteCells, WriteLog, WriteHeader, WriteBatSector,
         TearBatSector, devVars, lenVars
    <3>2. CASE pc[w] = "zero" /\ WriteCells(host[w], host[w] + BlockSize - 1, Zero)
      <4>1. host[w] + BlockSize <= devSize /\ devSize <= len
        BY <2>1, <3>2 DEF InsideInv, ClaimInside, BoundNeverAhead
      <4>2. host[w] \in Nat /\ BlockSize \in Nat /\ devSize \in Nat /\ len \in Nat
        BY <1>1, SizesAssumption DEF TypeOK, FileTypeOK
      <4>3. WritesStayInside'
        BY <1>1, <3>2, <4>1, <4>2, CellsInside DEF InsideInv
      <4> QED
        BY <1>4, <2>1, <2>2, <3>1, <4>3
    <3>3. CASE pc[w] = "payload" /\ WriteCells(PayloadFrom(w), PayloadTo(w), req[w].val)
      <4>1. WritesStayInside'
        BY <1>8, <1>10, <3>3 DEF DeviceError
      <4> QED
        BY <1>4, <2>1, <2>2, <3>1, <4>1
    <3>4. CASE data' = data /\ dataMay' = dataMay
      BY <1>4, <2>1, <2>2, <3>1, <3>4, KeptCells DEF InsideInv
    <3> QED
      BY <2>1, <2>4, <3>2, <3>3, <3>4 DEF FailedEffect, WriteLog, WriteHeader,
         WriteBatSector, TearBatSector, devVars, dataVars
  <2> QED
    BY <2>3, <2>4
<1>11. CASE OpenStart
  <2>1. /\ data' = data /\ dataMay' = dataMay /\ len' = len /\ devSize' = len /\ pc' = pc
        /\ phase = "closed"
    BY <1>11 DEF OpenStart, devVars, dataVars, lenVars, callVars
  <2>2. ClaimInside'
    BY <2>1 DEF InsideInv, CallsNeedReader, ClaimInside
  <2>3. GrowthBound'
    <3>1. NewDevSize(AlignUp(len)) >= len
      <4>1. len \in Nat /\ BlockSize \in Nat
        BY <1>1, SizesAssumption DEF TypeOK, FileTypeOK
      <4>2. AlignUp(len) \in Nat /\ AlignUp(len) >= len
        BY <4>1, AlignUpNotBefore
      <4> QED
        BY <4>1, <4>2 DEF NewDevSize
    <3> QED
      BY <2>1, <3>1 DEF GrowthBound
  <2> QED
    BY <1>2, <2>1, <2>2, <2>3, KeptCells DEF InsideInv
<1>12. CASE ReplayGrow
  <2> DEFINE n == IF log.last > len THEN log.last ELSE len
  <2>1. n \in Nat /\ n >= len /\ len \in Nat /\ BlockSize \in Nat
    BY <1>1, SizesAssumption DEF TypeOK, FileTypeOK, LogEntries
  <2>2. /\ devSize' = n /\ len' = n /\ pc' = pc /\ phase = "grow"
        /\ SetLen(n) \/ UNCHANGED <<data, dataMay, len>>
    BY <1>12, <2>1 DEF ReplayGrow, SetLen, callVars, devVars, dataVars, lenVars
  <2>3. ClaimInside'
    BY <2>2 DEF InsideInv, CallsNeedReader, ClaimInside
  <2>4. WritesStayInside'
    BY <1>1, <2>1, <2>2, CellsGrown, KeptCells DEF InsideInv
  <2>5. NewDevSize(AlignUp(n)) >= n
    <3> HIDE DEF n
    <3>1. AlignUp(n) \in Nat /\ AlignUp(n) >= n
      BY <2>1, AlignUpNotBefore
    <3> QED
      BY <2>1, <3>1 DEF NewDevSize
  <2>6. GrowthBound'
    <3> HIDE DEF n
    <3> QED
      BY <2>2, <2>5 DEF GrowthBound
  <2> QED
    BY <1>2, <2>3, <2>4, <2>6
<1>13. CASE OpenStep /\ ~ReplayGrow
  <2>1. /\ data' = data /\ len' = len /\ devSize' = devSize /\ callVars' = callVars
        /\ phase # "closed"
        /\ dataMay' = dataMay \/ dataMay' = [a \in Cells |-> {data[a]}]
    BY <1>13 DEF OpenStep, ReplayWrite, ReplayFlush, EraseLog, EraseFlush, ClearHeader,
       ClearFlush, LoadBat, WriteBatSector, WriteLog, WriteHeader, Flush, devVars, dataVars, lenVars
  <2> QED
    BY <1>4, <2>1, KeptCells DEF InsideInv, callVars
<1>14. CASE OpenError
  <2>1. phase' = "closed"
    BY <1>14 DEF OpenError, Forget
  <2>2. CASE phase = "grow" /\ log.last > len /\ SetLen(log.last)
    <3>1. log.last \in Nat /\ log.last >= len
      BY <1>1, <2>2 DEF TypeOK, FileTypeOK, LogEntries
    <3> QED
      BY <1>1, <1>3, <2>1, <2>2, <3>1, CellsGrown DEF InsideInv
  <2>3. CASE UNCHANGED <<data, dataMay, len>>
    BY <1>3, <2>1, <2>3, KeptCells DEF InsideInv
  <2> QED
    BY <1>14, <2>2, <2>3 DEF OpenError, WriteBatSector, TearBatSector, WriteLog, WriteHeader,
       devVars, dataVars, lenVars
<1>15. CASE Close \/ Kill
  <2>1. phase' = "closed" /\ UNCHANGED <<data, dataMay, len>>
    BY <1>15 DEF Close, Kill, Forget, devVars, dataVars, lenVars
  <2> QED
    BY <1>3, <2>1, KeptCells DEF InsideInv
<1>16. CASE Crash
  BY <1>1, <1>3, <1>16, CellsLost DEF Crash, Forget
<1>17. CASE UNCHANGED vars
  <2>1. UNCHANGED <<data, dataMay, len, devSize, phase, pc, host>>
    BY <1>17 DEF vars, devVars, dataVars, lenVars, memVars, callVars
  <2> QED
    BY <1>4, <2>1, KeptCells DEF InsideInv
<1> QED
  BY <1>5, <1>6, <1>7, <1>9, <1>10, <1>11, <1>12, <1>13, <1>14, <1>15, <1>16, <1>17
  DEF Next, WriteStep

(* Nothing is ever written past the end of the file, whatever the image,   *)
(* the number of writers, the errors and the crashes: the bound            *)
(* host_offset checks, and the tail a call zeroes, lie inside it.          *)
THEOREM WritesStayInsideAlways == Spec => []WritesStayInside
<1>1. Init => InsideInv
  <2> SUFFICES ASSUME Init PROVE InsideInv
    OBVIOUS
  <2>1. PICK st \in Starts : InitImage(st)
    BY DEF Init
  <2>2. st.len \in Nat
    BY ImageAssumption DEF ImageRecords
  <2>3. \A a \in Cells : a \in Int
    BY SizesAssumption DEF Cells
  <2>4. WritesStayInside
    BY <2>1, <2>2, <2>3 DEF InitImage, InitCell, WritesStayInside
  <2> QED
    BY <2>4, TypeInit
    DEF Init, InsideInv, CallsNeedReader, BoundNeverAhead, ClaimInside, GrowthBound
<1>2. InsideInv /\ [Next]_vars => InsideInv'
  BY InsideStep
<1>3. InsideInv => WritesStayInside
  BY DEF InsideInv
<1> QED
  BY <1>1, <1>2, <1>3, PTL DEF Spec
=============================================================================

---------------------------- MODULE PromiseProofs ---------------------------
(***************************************************************************)
(* A read returns what the writes before it promised, in the same session  *)
(* and after any loss of power and replay: proved for one writer on a      *)
(* device that reports no error, for every sound image, every sequence of  *)
(* write_at calls and every place power may be lost.                       *)
(***************************************************************************)
EXTENDS JournalProofs, DivisionProofs

(* The image, and what its log asks for, fit the host. *)
ImageFits == \A st \in Starts : st.len <= MaxLen /\ st.log.last <= MaxLen

-----------------------------------------------------------------------------
(***************************************************************************)
(* The inductive invariant.                                                *)
(***************************************************************************)
BlockOf(o) == o \div BlockSize

(* The entry of block b the next open will load, as things stand: until    *)
(* the log has been applied it is the one in the log.                      *)
Restored(b) ==
  IF ~Applied /\ (\A p \in Heads : Live(p, log)) /\ log.image[b] # Uncovered
  THEN log.image[b] ELSE bat[b]

(* The entries reads of block b go by, now or after the steps to come. *)
Candidate(e, b) ==
  \/ e = Restored(b)
  \/ phase = "open" /\ e = table[b]
  \/ \E w \in Writers : Owns(w) /\ BlockAt(w) = b /\ e = PresentEntry(host[w])

(* By the entry e a read of the cell o returns something promised, on the  *)
(* device as it reads and as any crash may leave it.                       *)
Good(e, o) ==
  \/ Lost \in promise[o]
  \/ e.state = "absent" /\ Zero \in promise[o]
  \/ e.state = "present" /\ dataMay[e.off + InBlock(o)] \subseteq promise[o]

StoreGood == \A o \in VirtualCells : \A e : Candidate(e, BlockOf(o)) => Good(e, o)

CellsViewed == \A a \in Cells : data[a] \in dataMay[a]

(* The file, and what a log may ask for, stay within what the host has. *)
FileFits ==
  /\ \A n \in lenMay : n <= MaxLen
  /\ \A l \in logMay : l.last <= MaxLen

(* The BAT in memory is that on the device, but for an allocation that is  *)
(* not in memory yet.                                                      *)
TableIsBat ==
  phase = "open" => \A b \in Blocks :
    table[b] = bat[b] \/ \E w \in Writers : BlockAt(w) = b /\ pc[w] \in {"publishFlush", "publishTable"}

(* What a call knows of the block it is on. *)
Allocating(w) ==
  pc[w] \in {"allocate", "zero", "zeroFlush", "readSector", "journal", "logFlush",
             "headerWrite", "headerFlush", "publish", "publishFlush", "publishTable"}
CallKnows ==
  \A w \in Writers :
    /\ Allocating(w) => table[BlockAt(w)].state = "absent"
    /\ pc[w] = "payload" => table[BlockAt(w)] = PresentEntry(host[w])
    /\ pc[w] = "zeroFlush" => \A a \in host[w] .. host[w] + BlockSize - 1 : data[a] = Zero

(* What a call has been asked, and how much of it is done. *)
Done(w, o) ==
  o >= req[w].first /\ (IF pc[w] = "finalFlush" THEN o <= req[w].last ELSE o < req[w].cur)
CallServes ==
  \A w \in Writers : pc[w] # "idle" =>
    /\ req[w].first <= req[w].cur /\ req[w].cur <= req[w].last
    /\ \A o \in VirtualCells : o >= req[w].first /\ o <= req[w].last =>
         Lost \in promise[o] \/ req[w].val \in promise[o]
    /\ \A o \in VirtualCells : Done(w, o) =>
         /\ table[BlockOf(o)].state = "present"
         /\ data[table[BlockOf(o)].off + InBlock(o)] = req[w].val

PromiseInv ==
  /\ AllocInv
  /\ JournalInv
  /\ CellsViewed
  /\ FileFits
  /\ TableIsBat
  /\ CallKnows
  /\ CallServes
  /\ StoreGood

-----------------------------------------------------------------------------
(***************************************************************************)
(* Cells and blocks.                                                       *)
(***************************************************************************)

(* A cell of the disk is at one place of one block. *)
LEMMA CellOf ==
  ASSUME NEW o \in VirtualCells
  PROVE  /\ o \in Nat /\ BlockSize \in Nat \ {0}
         /\ BlockOf(o) \in Blocks /\ InBlock(o) \in 0 .. BlockSize - 1
         /\ o = BlockSize * BlockOf(o) + InBlock(o)
<1>1. BlockSize \in Nat \ {0} /\ NBlocks \in Nat \ {0} /\ NBlocks * BlockSize \in Nat
  BY SizesAssumption
<1>2. o \in Nat /\ o < NBlocks * BlockSize
  BY <1>1 DEF VirtualCells
<1>3. o \div BlockSize \in Nat /\ o \div BlockSize < NBlocks
  BY <1>1, <1>2
<1>4. o % BlockSize \in 0 .. BlockSize - 1 /\ o = BlockSize * (o \div BlockSize) + (o % BlockSize)
  BY <1>1, <1>2, DivMod
<1> QED
  BY <1>1, <1>2, <1>3, <1>4 DEF BlockOf, InBlock, Blocks

(* In one block, cells are in the order of their places. *)
LEMMA CellOrder ==
  ASSUME NEW o \in VirtualCells, NEW q \in VirtualCells, BlockOf(o) = BlockOf(q)
  PROVE  o <= q <=> InBlock(o) <= InBlock(q)
<1> DEFINE k == BlockSize * BlockOf(o)
<1>1. o \in Nat /\ q \in Nat /\ InBlock(o) \in Int /\ InBlock(q) \in Int
      /\ o = k + InBlock(o) /\ q = k + InBlock(q)
  BY CellOf
<1>2. k \in Int
  BY CellOf DEF Blocks
<1> HIDE DEF k
<1> QED
  BY <1>1, <1>2

(* block_chunks: the piece under the cursor lies in the call's range and   *)
(* in the block of the cursor.                                             *)
LEMMA ChunkInside ==
  ASSUME TypeOK, NEW w \in Writers, req[w].cur <= req[w].last
  PROVE  /\ req[w].cur \in VirtualCells /\ req[w].last \in VirtualCells
         /\ ChunkEnd(w) \in VirtualCells
         /\ req[w].cur <= ChunkEnd(w) /\ ChunkEnd(w) <= req[w].last
         /\ BlockAt(w) = BlockOf(req[w].cur) /\ BlockOf(ChunkEnd(w)) = BlockAt(w)
<1> DEFINE c == req[w].cur  l == req[w].last  b == BlockAt(w)
           k == BlockSize * b  end == k + BlockSize - 1
<1>1. c \in VirtualCells /\ l \in VirtualCells /\ c <= l /\ b = BlockOf(c)
  BY DEF TypeOK, BlockAt, BlockOf
<1>2. /\ c \in Nat /\ l \in Nat /\ BlockSize \in Nat \ {0} /\ b \in Nat
      /\ InBlock(c) \in 0 .. BlockSize - 1 /\ c = k + InBlock(c)
  BY <1>1, CellOf DEF Blocks
<1>3. k \in Nat /\ (b + 1) * BlockSize = k + BlockSize
  BY <1>2
<1>4. ChunkEnd(w) = IF end < l THEN end ELSE l
  <2> DEFINE f == (b + 1) * BlockSize
  <2>1. ChunkEnd(w) = IF f - 1 < l THEN f - 1 ELSE l
    BY DEF ChunkEnd
  <2>2. f = k + BlockSize
    BY <1>3
  <2> HIDE DEF f, k, l, b
  <2> QED
    BY <1>2, <1>3, <2>1, <2>2
<1> HIDE DEF k, c, l, b
<1>5. c <= ChunkEnd(w) /\ ChunkEnd(w) <= l /\ ChunkEnd(w) \in Nat /\ ChunkEnd(w) <= end
  BY <1>1, <1>2, <1>3, <1>4
<1>6. ChunkEnd(w) \in VirtualCells
  <2>1. NBlocks * BlockSize \in Nat
    BY SizesAssumption
  <2> QED
    BY <1>1, <1>2, <1>5, <2>1 DEF VirtualCells
<1>7. BlockOf(ChunkEnd(w)) = b
  <2> DEFINE m == ChunkEnd(w) - k
  <2>1. m \in 0 .. BlockSize - 1 /\ ChunkEnd(w) = k + m
    BY <1>2, <1>3, <1>5
  <2> HIDE DEF m
  <2>2. ChunkEnd(w) = BlockSize * b + m
    BY <2>1 DEF k
  <2>3. ASSUME NEW x \in Nat, x = BlockSize * b + m PROVE x \div BlockSize = b
    BY <1>2, <2>1, <2>3, DivModUnique
  <2> QED
    BY <1>5, <2>2, <2>3 DEF BlockOf
<1> QED
  BY <1>1, <1>5, <1>6, <1>7 DEF c, l, b

(* The cells between the cursor and the end of its piece are the rest of   *)
(* one block.                                                              *)
LEMMA ChunkCells ==
  ASSUME TypeOK, NEW w \in Writers, req[w].cur <= req[w].last, NEW o \in VirtualCells
  PROVE  (req[w].cur <= o /\ o <= ChunkEnd(w)) <=>
           /\ BlockOf(o) = BlockAt(w)
           /\ InBlock(req[w].cur) <= InBlock(o) /\ InBlock(o) <= InBlock(ChunkEnd(w))
<1> DEFINE c == req[w].cur  d == ChunkEnd(w)
<1>1. c \in VirtualCells /\ d \in VirtualCells /\ BlockOf(c) = BlockAt(w) /\ BlockOf(d) = BlockAt(w)
  BY ChunkInside
<1>2. c \in Nat /\ d \in Nat /\ o \in Nat /\ BlockSize \in Nat \ {0}
      /\ BlockOf(c) \in Nat /\ BlockOf(d) \in Nat /\ BlockOf(o) \in Nat
  BY <1>1, CellOf DEF Blocks
<1> HIDE DEF c, d
<1>3. ASSUME c <= o, o <= d PROVE BlockOf(o) = BlockAt(w)
  <2>1. BlockOf(c) <= BlockOf(o) /\ BlockOf(o) <= BlockOf(d)
    BY <1>2, <1>3, DivMonotone DEF BlockOf
  <2> QED
    BY <1>1, <1>2, <2>1
<1>4. BlockOf(o) = BlockAt(w) => (c <= o <=> InBlock(c) <= InBlock(o))
                                 /\ (o <= d <=> InBlock(o) <= InBlock(d))
  BY <1>1, CellOrder
<1> QED
  BY <1>3, <1>4 DEF c, d

-----------------------------------------------------------------------------
(***************************************************************************)
(* The entries reads go by.                                                *)
(***************************************************************************)

(* While the reader is open they are the one on the device, the one in     *)
(* memory and the one a call owns.                                         *)
LEMMA OpenCandidate ==
  ASSUME phase = "open", NEW b, NEW e
  PROVE  Candidate(e, b) <=>
           \/ e = bat[b]
           \/ e = table[b]
           \/ \E w \in Writers : Owns(w) /\ BlockAt(w) = b /\ e = PresentEntry(host[w])
  BY DEF Candidate, Restored, Applied

(* The same in the next state. *)
LEMMA OpenCandidatePrime ==
  ASSUME phase' = "open", NEW b, NEW e
  PROVE  Candidate(e, b)' <=>
           \/ e = bat'[b]
           \/ e = table'[b]
           \/ \E w \in Writers : Owns(w)' /\ BlockAt(w)' = b /\ e = PresentEntry(host'[w])
  BY DEF Candidate, Restored, Applied

(* They are entries NoAliasing and NamesInsideFile speak of. *)
LEMMA CandidateSettled ==
  ASSUME PromiseInv, NEW b \in Blocks, NEW e, Candidate(e, b)
  PROVE  e \in Settled(b) /\ e \in Named(b)
<1>1. bat[b] \in batMay[b] /\ log \in logMay
  BY BatViewed DEF PromiseInv, JournalInv
<1>2. e \in Settled(b)
  BY <1>1, SettledCases DEF Candidate, Restored
<1> QED
  BY <1>2, NamedCases

(* The cell they put a virtual cell in is a cell of the file. *)
LEMMA CandidateCell ==
  ASSUME PromiseInv, NEW o \in VirtualCells, NEW e, Candidate(e, BlockOf(o)),
         e.state = "present"
  PROVE  /\ e.off \in Nat /\ InBlock(o) \in 0 .. BlockSize - 1
         /\ e.off + InBlock(o) \in Cells
         /\ \A n \in lenMay : e.off + InBlock(o) < n
         /\ phase = "open" => e.off + InBlock(o) < devSize
<1>1. BlockOf(o) \in Blocks /\ InBlock(o) \in 0 .. BlockSize - 1 /\ BlockSize \in Nat \ {0}
  BY CellOf
<1>2. e \in Settled(BlockOf(o)) /\ e \in Named(BlockOf(o))
  BY <1>1, CandidateSettled
<1>3. TypeOK /\ len \in lenMay /\ lenMay \subseteq Nat /\ devSize \in Nat /\ MaxLen \in Nat
  BY SizesAssumption DEF PromiseInv, AllocInv, Views, TypeOK, FileTypeOK
<1>4. e.off \in Nat
  BY <1>1, <1>2, <1>3, NamedType
<1>5. \A n \in lenMay : e.off + BlockSize <= n
  BY <1>1, <1>2 DEF PromiseInv, AllocInv, NamesInsideFile, EndsBy
<1>6. phase = "open" => e.off + BlockSize <= devSize
  BY <1>1, <1>2 DEF PromiseInv, AllocInv, OpenBound, EndsBy
<1>7. len <= MaxLen
  BY <1>3 DEF PromiseInv, FileFits
<1> QED
  BY <1>1, <1>3, <1>4, <1>5, <1>6, <1>7 DEF Cells

(* Entries of two blocks never put cells in the same place. *)
LEMMA CellsApart ==
  ASSUME PromiseInv, NEW b \in Blocks, NEW c \in Blocks, b # c,
         NEW e \in Named(b), NEW f \in Named(c), e.state = "present", f.state = "present",
         NEW i \in 0 .. BlockSize - 1, NEW j \in 0 .. BlockSize - 1
  PROVE  e.off + i # f.off + j
<1>1. e.off \in Nat /\ f.off \in Nat /\ BlockSize \in Nat
  BY NamedType, SizesAssumption DEF PromiseInv, AllocInv
<1>2. e.off + BlockSize <= f.off \/ f.off + BlockSize <= e.off
  BY DEF PromiseInv, AllocInv, NoAliasing, Apart
<1> QED
  BY <1>1, <1>2

-----------------------------------------------------------------------------
(***************************************************************************)
(* What a step must not do to what is stored.                              *)
(***************************************************************************)
PromisesKept == \A o \in VirtualCells : promise[o] \subseteq promise'[o]
NothingNew == \A b \in Blocks : \A e : Candidate(e, b)' => Candidate(e, b)

(* The data reads as before, flushed or not. *)
DataKept == data' = data /\ (dataMay' = dataMay \/ dataMay' = [a \in Cells |-> {data[a]}])

(* A step that makes no cell readable by a new entry, and admits nothing   *)
(* new where a cell is read.                                               *)
LEMMA StoreKept ==
  ASSUME PromiseInv, PromisesKept, NothingNew,
         \A o \in VirtualCells : \A e : Candidate(e, BlockOf(o)) /\ e.state = "present" =>
            dataMay'[e.off + InBlock(o)] \subseteq dataMay[e.off + InBlock(o)]
  PROVE  StoreGood'
<1> SUFFICES ASSUME NEW o \in VirtualCells, NEW e, Candidate(e, BlockOf(o))'
             PROVE  Good(e, o)'
  BY DEF StoreGood, BlockOf
<1>1. BlockOf(o) \in Blocks
  BY CellOf
<1>2. Candidate(e, BlockOf(o))
  BY <1>1 DEF NothingNew, BlockOf
<1>3. Good(e, o)
  BY <1>2 DEF PromiseInv, StoreGood
<1>4. promise[o] \subseteq promise'[o]
  BY DEF PromisesKept
<1> QED
  BY <1>2, <1>3, <1>4 DEF Good, InBlock

(* No cell comes to hold anything it could not. *)
LEMMA DataKeptCells ==
  ASSUME PromiseInv, DataKept
  PROVE  /\ CellsViewed'
         /\ \A a \in Cells : dataMay'[a] \subseteq dataMay[a]
  BY DEF PromiseInv, CellsViewed, DataKept

(* In particular one that writes no data. *)
LEMMA StoreUnwritten ==
  ASSUME PromiseInv, PromisesKept, NothingNew, DataKept
  PROVE  StoreGood'
<1>1. \A a \in Cells : dataMay'[a] \subseteq dataMay[a]
  BY DataKeptCells
<1>2. \A o \in VirtualCells : \A e : Candidate(e, BlockOf(o)) /\ e.state = "present" =>
         dataMay'[e.off + InBlock(o)] \subseteq dataMay[e.off + InBlock(o)]
  BY <1>1, CandidateCell
<1> QED
  BY <1>2, StoreKept

(* The device operations that write no data. *)
LEMMA DeviceKeepsData ==
  ASSUME \/ UNCHANGED devVars
         \/ Flush
         \/ \E n : SetLen(n)
         \/ \E e : WriteLog(e)
         \/ \E s, h : WriteHeader(s, h)
         \/ \E i : WriteBatSector(i)
  PROVE  DataKept
  BY DEF DataKept, Flush, SetLen, WriteLog, WriteHeader, WriteBatSector, devVars, dataVars

(* No step makes the file, or asks in the log for one, longer than the     *)
(* host has room for.                                                      *)
LEMMA FitsStep ==
  ASSUME Serial, PromiseInv, [Next]_vars
  PROVE  FileFits'
<1>1. /\ len \in lenMay /\ log \in logMay /\ lenMay \subseteq Nat /\ devSize \in Nat
      /\ TypeOK /\ MaxLen \in Nat
  BY SizesAssumption DEF PromiseInv, AllocInv, Views, TypeOK, FileTypeOK
<1>2. len <= MaxLen /\ log.last <= MaxLen /\ (phase # "closed" => devSize <= MaxLen)
  BY <1>1 DEF PromiseInv, FileFits, AllocInv, BoundNeverAhead
<1>3. /\ \A w \in Writers : ~DeviceError(w)
      /\ ~OpenError /\ ~Kill
  BY SerialExcludes DEF PromiseInv, JournalInv
<1>4. CASE UNCHANGED <<logMay, lenMay>>
  BY <1>4 DEF PromiseInv, FileFits
<1>5. CASE Flush
  BY <1>1, <1>2, <1>5 DEF FileFits, Flush
<1>6. CASE LosePower
  BY <1>6 DEF PromiseInv, FileFits, LosePower
<1>7. ASSUME NEW n, SetLen(n), n <= MaxLen PROVE FileFits'
  BY <1>7 DEF PromiseInv, FileFits, SetLen, logVars
<1>8. ASSUME NEW e, WriteLog(e), e.last <= MaxLen PROVE FileFits'
  BY <1>1, <1>8 DEF PromiseInv, FileFits, WriteLog, lenVars, NoEntry
<1>9. ASSUME NEW w \in Writers, BeginWrite(w) \/ WriteStep(w) PROVE FileFits'
  <2>1. CASE Allocate(w)
    BY <1>4, <1>7, <2>1 DEF Allocate, devVars, logVars, lenVars
  <2>2. CASE JournalLog(w)
    <3>1. JournalEntry(w).last <= MaxLen
      BY <1>2, <2>2 DEF JournalLog, JournalEntry, PromiseInv, AllocInv, CallsNeedReader
    <3> QED
      BY <1>4, <1>8, <2>2, <3>1 DEF JournalLog, devVars, logVars, lenVars
  <2>3. CASE ZeroFlush(w) \/ JournalLogFlush(w) \/ JournalHeaderFlush(w) \/ PublishFlush(w)
             \/ Acknowledge(w)
    BY <1>5, <2>3 DEF ZeroFlush, JournalLogFlush, JournalHeaderFlush, PublishFlush, Acknowledge
  <2>4. CASE \/ BeginWrite(w) \/ Lookup(w) \/ ZeroInit(w) \/ ReadSector(w)
             \/ JournalHeaderWrite(w) \/ Publish(w) \/ PublishTable(w) \/ WritePayload(w)
    <3>1. UNCHANGED <<logMay, lenMay>>
      BY <2>4 DEF BeginWrite, Lookup, ZeroInit, ReadSector, JournalHeaderWrite, Publish,
         PublishTable, WritePayload, WriteCells, WriteHeader, WriteBatSector, devVars, logVars,
         lenVars
    <3> QED
      BY <1>4, <3>1
  <2> QED
    BY <1>9, <2>1, <2>2, <2>3, <2>4 DEF WriteStep, AllocateStep, JournalStep
<1>10. CASE OpenStart \/ OpenStep
  <2>1. CASE ReplayGrow
    BY <1>2, <1>4, <1>7, <2>1 DEF ReplayGrow, devVars, logVars, lenVars
  <2>2. CASE EraseLog
    <3>1. NoEntry.last <= MaxLen
      BY <1>1 DEF NoEntry
    <3> QED
      BY <1>8, <2>2, <3>1 DEF EraseLog
  <2>3. CASE ReplayFlush \/ EraseFlush \/ ClearFlush
    BY <1>5, <2>3 DEF ReplayFlush, EraseFlush, ClearFlush
  <2>4. CASE OpenStart \/ ReplayWrite \/ ClearHeader \/ LoadBat
    <3>1. UNCHANGED <<logMay, lenMay>>
      BY <2>4 DEF OpenStart, ReplayWrite, ClearHeader, LoadBat, WriteHeader, WriteBatSector,
         devVars, logVars, lenVars
    <3> QED
      BY <1>4, <3>1
  <2> QED
    BY <1>10, <2>1, <2>2, <2>3, <2>4 DEF OpenStep
<1>11. CASE Close \/ Crash
  BY <1>4, <1>6, <1>11 DEF Close, Crash, devVars, logVars, lenVars
<1>12. CASE UNCHANGED vars
  BY <1>4, <1>12 DEF vars, devVars, logVars, lenVars
<1> QED
  BY <1>3, <1>9, <1>10, <1>11, <1>12 DEF Next

-----------------------------------------------------------------------------
(***************************************************************************)
(* The steps of write_at.  The names, the journal and the length are kept  *)
(* by every step, so that each is about the rest of the invariant.         *)
(***************************************************************************)
Rest == CellsViewed /\ TableIsBat /\ CallKnows /\ CallServes /\ StoreGood

(* Nothing is named that was not, while the reader is open. *)
LEMMA OpenNothingNew ==
  ASSUME phase = "open", UNCHANGED <<phase, bat, table>>,
         \A x \in Writers : Owns(x)' => Owns(x) /\ host'[x] = host[x] /\ BlockAt(x)' = BlockAt(x)
  PROVE  NothingNew
  BY OpenCandidate, OpenCandidatePrime DEF NothingNew

(* A step of a call that writes no data and no BAT. *)
LEMMA QuietPromise ==
  ASSUME Serial, PromiseInv, NEW w \in Writers, DataKept, phase = "open",
         UNCHANGED <<phase, bat, table, req, promise>>,
         pc[w] \notin {"idle", "finalFlush"}, pc'[w] \notin {"idle", "finalFlush", "zeroFlush"},
         pc[w] \in {"publishFlush", "publishTable"} <=> pc'[w] \in {"publishFlush", "publishTable"},
         Owns(w)' => Owns(w) /\ host'[w] = host[w],
         Allocating(w)' => table[BlockAt(w)].state = "absent",
         pc'[w] = "payload" => table[BlockAt(w)] = PresentEntry(host'[w])
  PROVE  Rest'
<1>1. \A x \in Writers : x = w
  BY DEF Serial, OneWriter
<1>2. BlockAt(w)' = BlockAt(w)
  BY DEF BlockAt
<1>3. CellsViewed'
  BY DataKeptCells
<1>4. TableIsBat'
  BY <1>1, <1>2 DEF PromiseInv, TableIsBat
<1>5. CallKnows'
  BY <1>1, <1>2 DEF CallKnows
<1>6. CallServes'
  <2>1. \A o : Done(w, o)' <=> Done(w, o)
    BY DEF Done
  <2> QED
    BY <1>1, <2>1 DEF PromiseInv, CallServes, DataKept, BlockOf, InBlock
<1>7. NothingNew
  BY <1>1, <1>2, OpenNothingNew
<1>8. StoreGood'
  BY <1>7, StoreUnwritten DEF PromisesKept
<1> QED
  BY <1>3, <1>4, <1>5, <1>6, <1>8 DEF Rest

(* A call returns an error. *)
LEMMA ReturnPromise ==
  ASSUME Serial, PromiseInv, NEW w \in Writers, DataKept, phase = "open", UNCHANGED bat,
         ReturnError(w), pc[w] \in {"lookup", "allocate", "payload"}
  PROVE  Rest'
<1>1. \A x \in Writers : x = w
  BY DEF Serial, OneWriter
<1>2. pc'[w] = "idle" /\ UNCHANGED <<phase, table, promise>>
  BY DEF ReturnError, Goto, memVars, PromiseInv, AllocInv, TypeOK
<1>3. CellsViewed'
  BY DataKeptCells
<1>4. TableIsBat'
  BY <1>1, <1>2 DEF PromiseInv, TableIsBat
<1>5. CallKnows' /\ CallServes'
  BY <1>1, <1>2 DEF CallKnows, CallServes, Allocating
<1>6. NothingNew
  BY <1>1, <1>2, OpenNothingNew DEF Owns
<1>7. StoreGood'
  BY <1>2, <1>6, StoreUnwritten DEF PromisesKept
<1> QED
  BY <1>3, <1>4, <1>5, <1>7 DEF Rest

(* A client calls write_at: from now on either content may be read. *)
LEMMA BeginPromise ==
  ASSUME Serial, PromiseInv, NEW w \in Writers, BeginWrite(w)
  PROVE  Rest'
<1>1. \A x \in Writers : x = w
  BY DEF Serial, OneWriter
<1>2. PICK r \in Requests, v \in Data :
        /\ req' = [req EXCEPT ![w] = [first |-> r[1], last |-> r[2], cur |-> r[1], val |-> v]]
        /\ promise' = [o \in VirtualCells |->
                         IF o \in r[1] .. r[2] THEN promise[o] \cup {v} ELSE promise[o]]
  BY DEF BeginWrite
<1>3. /\ phase = "open" /\ phase' = "open" /\ pc[w] = "idle" /\ pc'[w] = "lookup"
      /\ UNCHANGED <<bat, table, host>> /\ DataKept /\ TypeOK
  BY DeviceKeepsData DEF BeginWrite, Goto, memVars, devVars, batVars, PromiseInv, AllocInv, TypeOK
<1>4. /\ req'[w] = [first |-> r[1], last |-> r[2], cur |-> r[1], val |-> v]
      /\ r[1] \in VirtualCells /\ r[2] \in VirtualCells /\ r[1] <= r[2]
  BY <1>2, <1>3, RequestsAssumption DEF TypeOK
<1>5. CellsViewed'
  BY <1>3, DataKeptCells
<1>6. TableIsBat' /\ CallKnows'
  BY <1>1, <1>3 DEF PromiseInv, TableIsBat, CallKnows, Allocating
<1>7. CallServes'
  <2>1. ASSUME NEW o \in VirtualCells, o >= r[1], o <= r[2] PROVE v \in promise'[o]
    BY <1>2, <1>4, <2>1, CellOf
  <2>2. \A o \in VirtualCells : ~Done(w, o)'
    BY <1>3, <1>4, CellOf DEF Done
  <2> QED
    BY <1>1, <1>4, <2>1, <2>2, CellOf DEF CallServes
<1>8. NothingNew
  BY <1>1, <1>3, OpenNothingNew DEF Owns
<1>9. StoreGood'
  BY <1>2, <1>3, <1>8, StoreUnwritten DEF PromisesKept
<1> QED
  BY <1>5, <1>6, <1>7, <1>9 DEF Rest

(* The steps that touch neither the data nor the BAT. *)
LEMMA LookupPromise ==
  ASSUME Serial, PromiseInv, NEW w \in Writers, Lookup(w)
  PROVE  Rest'
<1>1. /\ pc[w] = "lookup" /\ phase = "open" /\ DataKept /\ UNCHANGED bat /\ TypeOK
      /\ BlockAt(w) \in Blocks
  BY DeviceKeepsData, BlockAtType
  DEF Lookup, devVars, batVars, PromiseInv, AllocInv, CallsNeedReader
<1>2. CASE ReturnError(w)
  BY <1>1, <1>2, ReturnPromise
<1>3. CASE ~ReturnError(w)
  <2>1. UNCHANGED <<phase, table, req, promise>>
    BY <1>3 DEF Lookup, memVars
  <2>2. \/ table[BlockAt(w)].state = "present" /\ pc'[w] = "payload" /\ host'[w] = table[BlockAt(w)].off
        \/ table[BlockAt(w)].state = "absent" /\ pc'[w] = "allocate"
    BY <1>1, <1>3 DEF Lookup, Goto, TypeOK
  <2>3. table[BlockAt(w)] \in Entries
    BY <1>1 DEF TypeOK
  <2>4. pc'[w] = "payload" => table[BlockAt(w)] = PresentEntry(host'[w])
    BY <2>2, <2>3 DEF Entries, PresentEntry
  <2> QED
    BY <1>1, <2>1, <2>2, <2>4, QuietPromise DEF Owns, Allocating
<1> QED
  BY <1>2, <1>3

(* allocate_block_for grows the file. *)
LEMMA AllocatePromise ==
  ASSUME Serial, PromiseInv, NEW w \in Writers, Allocate(w)
  PROVE  Rest'
<1>1. /\ pc[w] = "allocate" /\ phase = "open" /\ DataKept /\ UNCHANGED bat /\ TypeOK
  BY DeviceKeepsData
  DEF Allocate, SetLen, devVars, batVars, PromiseInv, AllocInv, CallsNeedReader
<1>2. CASE ReturnError(w)
  BY <1>1, <1>2, ReturnPromise
<1>3. CASE ~ReturnError(w)
  <2>1. UNCHANGED <<phase, table, req, promise>> /\ pc'[w] = "zero"
    BY <1>1, <1>3 DEF Allocate, Goto, TypeOK
  <2>2. table[BlockAt(w)].state = "absent"
    BY <1>1 DEF PromiseInv, CallKnows, Allocating
  <2> QED
    BY <1>1, <2>1, <2>2, QuietPromise DEF Owns
<1> QED
  BY <1>2, <1>3

(* The sector is read, journaled, and its write flushed. *)
LEMMA JournalPromise ==
  ASSUME Serial, PromiseInv, NEW w \in Writers,
         ReadSector(w) \/ JournalStep(w) \/ PublishFlush(w)
  PROVE  Rest'
<1>1. /\ pc[w] \in {"readSector", "journal", "logFlush", "headerWrite", "headerFlush",
                    "publishFlush"}
      /\ pc'[w] \in {"journal", "logFlush", "headerWrite", "headerFlush", "publish",
                     "publishTable"}
      /\ pc[w] = "publishFlush" <=> pc'[w] = "publishTable"
      /\ UNCHANGED <<phase, bat, table, req, promise, host>>
  BY DEF ReadSector, JournalStep, JournalLog, JournalLogFlush, JournalHeaderWrite,
     JournalHeaderFlush, PublishFlush, Goto, WriteLog, WriteHeader, Flush, devVars, batVars,
     memVars, PromiseInv, AllocInv, TypeOK
<1>2. DataKept
  BY DeviceKeepsData DEF ReadSector, JournalStep, JournalLog, JournalLogFlush,
     JournalHeaderWrite, JournalHeaderFlush, PublishFlush
<1>3. phase = "open"
  BY <1>1 DEF PromiseInv, AllocInv, CallsNeedReader
<1>4. table[BlockAt(w)].state = "absent"
  BY <1>1 DEF PromiseInv, CallKnows, Allocating
<1>5. Owns(w)
  BY <1>1 DEF Owns
<1> QED
  BY <1>1, <1>2, <1>3, <1>4, <1>5, QuietPromise

(* What a call that has claimed a block knows of it. *)
LEMMA ClaimedBlock ==
  ASSUME Serial, PromiseInv, NEW w \in Writers, pc[w] \in {"zero", "zeroFlush"}
  PROVE  /\ phase = "open" /\ BlockAt(w) \in Blocks /\ host[w] \in Nat
         /\ PresentEntry(host[w]) \in Named(BlockAt(w))
         /\ \A a \in host[w] .. host[w] + BlockSize - 1 : a \in Cells
         /\ table[BlockAt(w)].state = "absent"
         /\ \A e : Candidate(e, BlockAt(w)) => e.state = "absent"
<1>1. \A x \in Writers : x = w
  BY DEF Serial, OneWriter
<1>2. /\ TypeOK /\ phase = "open" /\ BlockAt(w) \in Blocks /\ host[w] \in Nat
      /\ BlockSize \in Nat \ {0} /\ len \in lenMay /\ len \in Nat /\ devSize \in Nat
      /\ MaxLen \in Nat
  BY BlockAtType, SizesAssumption
  DEF PromiseInv, AllocInv, Views, CallsNeedReader, TypeOK, FileTypeOK
<1>3. PresentEntry(host[w]) \in Named(BlockAt(w))
  BY NamedCases DEF Claims
<1>4. host[w] + BlockSize <= devSize
  BY <1>2, <1>3, NotPresent DEF PromiseInv, AllocInv, OpenBound, EndsBy
<1>5. devSize <= MaxLen
  BY <1>2 DEF PromiseInv, AllocInv, BoundNeverAhead, FileFits
<1>6. \A a \in host[w] .. host[w] + BlockSize - 1 : a \in Cells
  BY <1>2, <1>4, <1>5 DEF Cells
<1>7. table[BlockAt(w)].state = "absent"
  BY DEF PromiseInv, CallKnows, Allocating
<1>8. bat[BlockAt(w)] = table[BlockAt(w)]
  BY <1>1, <1>2 DEF PromiseInv, TableIsBat
<1>9. ~Owns(w)
  BY DEF Owns
<1>10. \A e : Candidate(e, BlockAt(w)) => e.state = "absent"
  BY <1>1, <1>2, <1>7, <1>8, <1>9, OpenCandidate
<1> QED
  BY <1>2, <1>3, <1>6, <1>7, <1>10

(* Zeros go where nothing is read. *)
LEMMA ZeroInitPromise ==
  ASSUME Serial, PromiseInv, NEW w \in Writers, ZeroInit(w)
  PROVE  Rest'
<1> DEFINE b == BlockAt(w)  f == PresentEntry(host[w])
<1>1. \A x \in Writers : x = w
  BY DEF Serial, OneWriter
<1>2. /\ pc[w] = "zero" /\ pc'[w] = "zeroFlush"
      /\ WriteCells(host[w], host[w] + BlockSize - 1, Zero)
      /\ UNCHANGED <<phase, bat, table, req, host, promise>>
  BY DEF ZeroInit, Goto, WriteCells, batVars, memVars, PromiseInv, AllocInv, TypeOK
<1>3. /\ phase = "open" /\ b \in Blocks /\ host[w] \in Nat /\ f \in Named(b)
      /\ \A a \in host[w] .. host[w] + BlockSize - 1 : a \in Cells
      /\ table[b].state = "absent"
      /\ \A e : Candidate(e, b) => e.state = "absent"
  BY <1>2, ClaimedBlock
<1>4. f.state = "present" /\ f.off = host[w] /\ BlockSize \in Nat \ {0}
  BY NotPresent, SizesAssumption
<1>5. BlockAt(w)' = b
  BY <1>2 DEF BlockAt
<1> HIDE DEF b, f
<1>6. ASSUME NEW o \in VirtualCells, NEW e, Candidate(e, BlockOf(o)), e.state = "present"
      PROVE  /\ e.off + InBlock(o) \in Cells
             /\ e.off + InBlock(o) \notin host[w] .. host[w] + BlockSize - 1
  <2>1. /\ e.off \in Nat /\ InBlock(o) \in 0 .. BlockSize - 1
        /\ e.off + InBlock(o) \in Cells
    BY <1>6, CandidateCell
  <2>2. BlockOf(o) \in Blocks /\ BlockOf(o) # b /\ e \in Named(BlockOf(o))
    BY <1>3, <1>6, CellOf, CandidateSettled
  <2>3. \A j \in 0 .. BlockSize - 1 : e.off + InBlock(o) # f.off + j
    BY <1>3, <1>4, <1>6, <2>1, <2>2, CellsApart
  <2>4. SUFFICES ASSUME e.off + InBlock(o) \in host[w] .. host[w] + BlockSize - 1 PROVE FALSE
    BY <2>1
  <2>5. e.off + InBlock(o) - host[w] \in 0 .. BlockSize - 1
    BY <1>3, <1>4, <2>1, <2>4
  <2>6. e.off + InBlock(o) = host[w] + (e.off + InBlock(o) - host[w])
    BY <1>3, <2>1
  <2> QED
    BY <1>4, <2>3, <2>5, <2>6
<1>7. CellsViewed'
  BY <1>2 DEF PromiseInv, CellsViewed, WriteCells
<1>8. TableIsBat'
  BY <1>1, <1>2, <1>5 DEF PromiseInv, TableIsBat
<1>9. CallKnows'
  <2>1. \A a \in host[w] .. host[w] + BlockSize - 1 : data'[a] = Zero
    BY <1>2, <1>3 DEF WriteCells
  <2> QED
    BY <1>1, <1>2, <1>3, <1>5, <2>1 DEF CallKnows
<1>10. CallServes'
  <2>1. \A o \in VirtualCells : Done(w, o)' <=> Done(w, o)
    BY <1>2 DEF Done
  <2>2. ASSUME NEW o \in VirtualCells, table[BlockOf(o)].state = "present"
        PROVE  data'[table[BlockOf(o)].off + InBlock(o)] = data[table[BlockOf(o)].off + InBlock(o)]
    <3>1. Candidate(table[BlockOf(o)], BlockOf(o))
      BY <1>3, OpenCandidate
    <3> QED
      BY <1>2, <1>6, <2>2, <3>1 DEF WriteCells
  <2> QED
    BY <1>1, <1>2, <2>1, <2>2 DEF PromiseInv, CallServes, BlockOf, InBlock
<1>11. NothingNew
  BY <1>1, <1>2, <1>3, OpenNothingNew DEF Owns
<1>12. StoreGood'
  <2>1. \A o \in VirtualCells : \A e : Candidate(e, BlockOf(o)) /\ e.state = "present" =>
          dataMay'[e.off + InBlock(o)] \subseteq dataMay[e.off + InBlock(o)]
    BY <1>2, <1>6 DEF WriteCells
  <2> QED
    BY <1>2, <1>11, <2>1, StoreKept DEF PromisesKept
<1> QED
  BY <1>7, <1>8, <1>9, <1>10, <1>12 DEF Rest

(* Once the zeros are flushed the new block reads as the absent one did. *)
LEMMA ZeroFlushPromise ==
  ASSUME Serial, PromiseInv, NEW w \in Writers, ZeroFlush(w)
  PROVE  Rest'
<1> DEFINE b == BlockAt(w)  f == PresentEntry(host[w])
<1>1. \A x \in Writers : x = w
  BY DEF Serial, OneWriter
<1>2. /\ pc[w] = "zeroFlush" /\ pc'[w] = "readSector" /\ Flush
      /\ UNCHANGED <<phase, bat, table, req, host, promise>>
  BY DEF ZeroFlush, Goto, Flush, memVars, PromiseInv, AllocInv, TypeOK
<1>3. /\ phase = "open" /\ b \in Blocks /\ host[w] \in Nat /\ f \in Named(b)
      /\ \A a \in host[w] .. host[w] + BlockSize - 1 : a \in Cells
      /\ table[b].state = "absent"
  BY <1>2, ClaimedBlock
<1>4. \A a \in host[w] .. host[w] + BlockSize - 1 : data[a] = Zero
  BY <1>2 DEF PromiseInv, CallKnows
<1>5. f.state = "present" /\ f.off = host[w] /\ BlockSize \in Nat \ {0}
  BY NotPresent, SizesAssumption
<1>6. BlockAt(w)' = b /\ f' = f
  BY <1>2 DEF BlockAt, PresentEntry
<1>7. DataKept /\ dataMay' = [a \in Cells |-> {data[a]}]
  BY <1>2, DeviceKeepsData DEF Flush
<1>8. CellsViewed' /\ \A a \in Cells : dataMay'[a] \subseteq dataMay[a]
  BY <1>7, DataKeptCells
<1>9. TableIsBat' /\ CallKnows'
  BY <1>1, <1>2, <1>3, <1>6 DEF PromiseInv, TableIsBat, CallKnows
<1>10. CallServes'
  <2>1. \A o \in VirtualCells : Done(w, o)' <=> Done(w, o)
    BY <1>2 DEF Done
  <2> QED
    BY <1>1, <1>2, <1>7, <2>1 DEF PromiseInv, CallServes, DataKept, BlockOf, InBlock
<1>11. StoreGood'
  <2> SUFFICES ASSUME NEW o \in VirtualCells, NEW e, Candidate(e, BlockOf(o))'
               PROVE  Good(e, o)'
    BY DEF StoreGood, BlockOf
  <2>1. Candidate(e, BlockOf(o)) \/ (BlockOf(o) = b /\ e = f)
    BY <1>1, <1>2, <1>3, <1>6, OpenCandidate, OpenCandidatePrime DEF BlockOf
  <2>2. CASE Candidate(e, BlockOf(o))
    <3>1. Good(e, o)
      BY <2>2 DEF PromiseInv, StoreGood
    <3>2. e.state = "present" => e.off + InBlock(o) \in Cells
      BY <2>2, CandidateCell
    <3> QED
      BY <1>2, <1>8, <3>1, <3>2 DEF Good, InBlock
  <2>3. CASE BlockOf(o) = b /\ e = f
    <3>1. Candidate(table[b], BlockOf(o))
      BY <1>3, <2>3, OpenCandidate
    <3>2. Good(table[b], o)
      BY <3>1 DEF PromiseInv, StoreGood
    <3>3. Lost \in promise[o] \/ Zero \in promise[o]
      BY <1>3, <3>2 DEF Good
    <3>4. InBlock(o) \in 0 .. BlockSize - 1
      BY CellOf
    <3>5. host[w] + InBlock(o) \in host[w] .. host[w] + BlockSize - 1
      BY <1>3, <1>5, <3>4
    <3>6. dataMay'[host[w] + InBlock(o)] = {Zero}
      BY <1>3, <1>4, <1>7, <3>5
    <3> QED
      BY <1>2, <1>5, <2>3, <3>3, <3>6 DEF Good, InBlock
  <2> QED
    BY <2>1, <2>2, <2>3
<1> QED
  BY <1>8, <1>9, <1>10, <1>11 DEF Rest

(* The BAT sector in place: it names what the call owns, or what it did. *)
LEMMA PublishPromise ==
  ASSUME Serial, PromiseInv, NEW w \in Writers, Publish(w)
  PROVE  Rest'
<1> DEFINE b == BlockAt(w)  f == PresentEntry(host[w])
<1>1. \A x \in Writers : x = w
  BY DEF Serial, OneWriter
<1>2. /\ pc[w] = "publish" /\ pc'[w] = "publishFlush" /\ WriteBatSector(image[w])
      /\ UNCHANGED <<phase, table, req, host, promise>> /\ phase = "open" /\ b \in Blocks
  BY BlockAtType DEF Publish, Goto, memVars, PromiseInv, AllocInv, TypeOK, CallsNeedReader
<1>3. BlockAt(w)' = b /\ Owns(w) /\ Owns(w)'
  BY <1>2 DEF BlockAt, Owns
<1>4. ASSUME NEW x \in Blocks PROVE bat'[x] = IF x = b THEN f ELSE bat[x]
  <2>1. image[w][x] = IF x = b THEN f
                      ELSE IF SectorOf(x) = SectorOf(b) THEN bat[x] ELSE Uncovered
    BY <1>2 DEF PromiseInv, JournalInv, ImageHolds
  <2>2. f # Uncovered
    BY DEF PresentEntry, Uncovered
  <2>3. bat'[x] = IF image[w][x] # Uncovered THEN image[w][x] ELSE bat[x]
    BY <1>2 DEF WriteBatSector
  <2> QED
    BY <2>1, <2>2, <2>3
<1>5. DataKept
  BY <1>2, DeviceKeepsData
<1>6. CellsViewed'
  BY <1>5, DataKeptCells
<1>7. TableIsBat'
  BY <1>1, <1>2, <1>3, <1>4 DEF PromiseInv, TableIsBat
<1>8. CallKnows'
  BY <1>1, <1>2, <1>3 DEF PromiseInv, CallKnows, Allocating
<1>9. CallServes'
  <2>1. \A o \in VirtualCells : Done(w, o)' <=> Done(w, o)
    BY <1>2 DEF Done
  <2> QED
    BY <1>1, <1>2, <1>5, <2>1 DEF PromiseInv, CallServes, DataKept, BlockOf, InBlock
<1>10. NothingNew
  <2> SUFFICES ASSUME NEW x \in Blocks, NEW e, Candidate(e, x)' PROVE Candidate(e, x)
    BY DEF NothingNew
  <2>1. e = bat'[x] \/ e = table[x] \/ (b = x /\ e = f)
    BY <1>1, <1>2, <1>3, OpenCandidatePrime
  <2> QED
    BY <1>2, <1>3, <1>4, <2>1, OpenCandidate
<1>11. StoreGood'
  BY <1>2, <1>5, <1>10, StoreUnwritten DEF PromisesKept
<1> QED
  BY <1>6, <1>7, <1>8, <1>9, <1>11 DEF Rest

(* The BAT in memory follows. *)
LEMMA PublishTablePromise ==
  ASSUME Serial, PromiseInv, NEW w \in Writers, PublishTable(w)
  PROVE  Rest'
<1> DEFINE b == BlockAt(w)  f == PresentEntry(host[w])
<1>1. \A x \in Writers : x = w
  BY DEF Serial, OneWriter
<1>2. /\ pc[w] = "publishTable" /\ pc'[w] = "payload" /\ table' = [table EXCEPT ![b] = f]
      /\ UNCHANGED <<phase, bat, req, host, promise>> /\ phase = "open" /\ b \in Blocks
      /\ table \in [Blocks -> Entries] /\ DataKept
  BY BlockAtType, DeviceKeepsData
  DEF PublishTable, Goto, devVars, batVars, PromiseInv, AllocInv, TypeOK, CallsNeedReader
<1>3. BlockAt(w)' = b /\ Owns(w) /\ ~Owns(w)'
  BY <1>2 DEF BlockAt, Owns
<1>4. bat[b] = f
  <2>1. /\ image[w][b] = f
        /\ image[w][b] # Uncovered => bat[b] = image[w][b]
    BY <1>2 DEF PromiseInv, JournalInv, ImageHolds
  <2> QED
    BY <2>1 DEF PresentEntry, Uncovered
<1>5. \A x \in Blocks : table'[x] = IF x = b THEN f ELSE table[x]
  BY <1>2
<1>6. CellsViewed'
  BY <1>2, DataKeptCells
<1>7. TableIsBat'
  BY <1>1, <1>2, <1>4, <1>5 DEF PromiseInv, TableIsBat
<1>8. CallKnows'
  BY <1>1, <1>2, <1>3, <1>5 DEF CallKnows, Allocating
<1>9. CallServes'
  <2>1. \A o \in VirtualCells : Done(w, o)' <=> Done(w, o)
    BY <1>2 DEF Done
  <2>2. table[b].state = "absent"
    BY <1>2 DEF PromiseInv, CallKnows, Allocating
  <2>3. \A o \in VirtualCells : Done(w, o) => table'[BlockOf(o)] = table[BlockOf(o)]
    BY <1>2, <1>5, <2>2, CellOf DEF PromiseInv, CallServes
  <2> QED
    BY <1>1, <1>2, <2>1, <2>3 DEF PromiseInv, CallServes, DataKept, BlockOf, InBlock
<1>10. NothingNew
  <2> SUFFICES ASSUME NEW x \in Blocks, NEW e, Candidate(e, x)' PROVE Candidate(e, x)
    BY DEF NothingNew
  <2>1. e = bat[x] \/ e = table'[x]
    BY <1>1, <1>2, <1>3, OpenCandidatePrime
  <2> QED
    BY <1>2, <1>4, <1>5, <2>1, OpenCandidate
<1>11. StoreGood'
  BY <1>2, <1>10, StoreUnwritten DEF PromisesKept
<1> QED
  BY <1>6, <1>7, <1>8, <1>9, <1>11 DEF Rest

(* The data goes to the cells of the piece, and to no other cell that is   *)
(* read.                                                                   *)
LEMMA PayloadPromise ==
  ASSUME Serial, PromiseInv, NEW w \in Writers, WritePayload(w)
  PROVE  Rest'
<1> DEFINE b == BlockAt(w)  f == PresentEntry(host[w])  v == req[w].val
<1>1. \A x \in Writers : x = w
  BY DEF Serial, OneWriter
<1>2. /\ pc[w] = "payload" /\ phase = "open" /\ phase' = "open" /\ b \in Blocks /\ TypeOK
      /\ UNCHANGED <<bat, table, promise>>
      /\ req[w].first <= req[w].cur /\ req[w].cur <= req[w].last
  BY BlockAtType
  DEF WritePayload, WriteCells, ReturnError, devVars, batVars, memVars, PromiseInv, AllocInv,
      CallsNeedReader, CallServes
<1>3. CASE ReturnError(w) /\ UNCHANGED devVars
  BY <1>2, <1>3, ReturnPromise, DeviceKeepsData
<1>4. CASE ~(ReturnError(w) /\ UNCHANGED devVars)
  <2>1. /\ WriteCells(PayloadFrom(w), PayloadTo(w), v)
        /\ \/ ChunkEnd(w) = req[w].last /\ pc'[w] = "finalFlush" /\ req' = req
           \/ /\ ChunkEnd(w) # req[w].last /\ pc'[w] = "lookup"
              /\ req' = [req EXCEPT ![w].cur = ChunkEnd(w) + 1]
    BY <1>2, <1>4 DEF WritePayload, Goto, TypeOK
  <2>2. /\ req[w].cur \in VirtualCells /\ req[w].last \in VirtualCells
        /\ ChunkEnd(w) \in VirtualCells /\ req[w].cur <= ChunkEnd(w)
        /\ ChunkEnd(w) <= req[w].last
    BY <1>2, ChunkInside
  <2>3. /\ req'[w].first = req[w].first /\ req'[w].last = req[w].last /\ req'[w].val = v
        /\ req[w].first \in Nat /\ req[w].cur \in Nat /\ req[w].last \in Nat
        /\ ChunkEnd(w) \in Nat
        /\ pc'[w] = "lookup" => req'[w].cur = ChunkEnd(w) + 1 /\ ChunkEnd(w) # req[w].last
        /\ pc'[w] = "finalFlush" => req'[w].cur = req[w].cur /\ ChunkEnd(w) = req[w].last
    <3>1. req[w].first \in VirtualCells
      BY <1>2 DEF TypeOK
    <3> QED
      BY <1>2, <2>1, <2>2, <3>1, CellOf DEF TypeOK
  <2>4. table[b] = f /\ bat[b] = f /\ ~Owns(w)
    BY <1>1, <1>2 DEF PromiseInv, CallKnows, TableIsBat, Owns
  <2>5. f.state = "present" /\ f.off = host[w] /\ host[w] \in Nat /\ BlockSize \in Nat \ {0}
    BY <1>2, NotPresent, SizesAssumption DEF TypeOK
  <2>6. Candidate(f, b) /\ f \in Named(b)
    BY <1>2, <2>4, OpenCandidate, CandidateSettled
  <2> DEFINE lo == InBlock(req[w].cur)  hi == InBlock(ChunkEnd(w))
  <2>7. lo \in 0 .. BlockSize - 1 /\ hi \in 0 .. BlockSize - 1
        /\ PayloadFrom(w) = host[w] + lo /\ PayloadTo(w) = host[w] + hi
    BY <2>2, CellOf DEF PayloadFrom, PayloadTo
  <2> HIDE DEF lo, hi, f, b
  <2>8. ASSUME NEW o \in VirtualCells, NEW e, Candidate(e, BlockOf(o)), e.state = "present",
               e.off + InBlock(o) \in PayloadFrom(w) .. PayloadTo(w)
        PROVE  req[w].cur <= o /\ o <= ChunkEnd(w)
    <3>1. e.off \in Nat /\ InBlock(o) \in 0 .. BlockSize - 1 /\ BlockOf(o) \in Blocks
          /\ e \in Named(BlockOf(o))
      BY <2>8, CandidateCell, CandidateSettled, CellOf
    <3> DEFINE j == e.off + InBlock(o) - host[w]
    <3>2. j \in lo .. hi /\ j \in 0 .. BlockSize - 1 /\ e.off + InBlock(o) = host[w] + j
      BY <2>5, <2>7, <2>8, <3>1
    <3> HIDE DEF j
    <3>3. BlockOf(o) = b
      BY <1>2, <2>5, <2>6, <2>8, <3>1, <3>2, CellsApart DEF b
    <3>4. e = f
      BY <1>1, <1>2, <2>4, <2>8, <3>3, OpenCandidate DEF b, f
    <3>5. InBlock(o) = j
      BY <2>5, <3>1, <3>2, <3>4
    <3> QED
      BY <1>2, <2>7, <3>2, <3>3, <3>5, ChunkCells DEF lo, hi, b
  <2>9. CellsViewed'
    BY <2>1 DEF PromiseInv, CellsViewed, WriteCells
  <2>10. TableIsBat' /\ CallKnows'
    BY <1>1, <1>2, <2>1 DEF PromiseInv, TableIsBat, CallKnows, Allocating
  <2>11. CallServes'
    <3>1. req'[w].first <= req'[w].cur /\ req'[w].cur <= req'[w].last
      BY <1>2, <2>1, <2>2, <2>3
    <3>2. ASSUME NEW o \in VirtualCells, Done(w, o)'
          PROVE  /\ table[BlockOf(o)].state = "present"
                 /\ data'[table[BlockOf(o)].off + InBlock(o)] = v
      <4>1. o \in Nat /\ BlockOf(o) \in Blocks /\ InBlock(o) \in 0 .. BlockSize - 1
        BY CellOf
      <4>2. Done(w, o) \/ (req[w].cur <= o /\ o <= ChunkEnd(w))
        BY <1>2, <2>1, <2>3, <3>2, <4>1 DEF Done
      <4>3. CASE Done(w, o)
        <5>1. /\ table[BlockOf(o)].state = "present"
              /\ data[table[BlockOf(o)].off + InBlock(o)] = v
          BY <1>2, <4>3 DEF PromiseInv, CallServes
        <5>2. Candidate(table[BlockOf(o)], BlockOf(o))
          BY <1>2, OpenCandidate
        <5>3. table[BlockOf(o)].off + InBlock(o) \in Cells
          BY <5>1, <5>2, CandidateCell
        <5> QED
          BY <2>1, <5>1, <5>3 DEF WriteCells
      <4>4. CASE req[w].cur <= o /\ o <= ChunkEnd(w)
        <5>1. BlockOf(o) = b /\ lo <= InBlock(o) /\ InBlock(o) <= hi
          BY <1>2, <4>4, ChunkCells DEF lo, hi, b
        <5>2. host[w] + InBlock(o) \in Cells
          BY <2>5, <2>6, <5>1, CandidateCell
        <5>3. host[w] + InBlock(o) \in PayloadFrom(w) .. PayloadTo(w)
          BY <2>5, <2>7, <4>1, <5>1
        <5> QED
          BY <2>1, <2>4, <2>5, <5>1, <5>2, <5>3 DEF WriteCells
      <4> QED
        BY <4>2, <4>3, <4>4
    <3> QED
      BY <1>1, <1>2, <2>3, <3>1, <3>2 DEF PromiseInv, CallServes, BlockOf, InBlock
  <2>12. StoreGood'
    <3> SUFFICES ASSUME NEW o \in VirtualCells, NEW e, Candidate(e, BlockOf(o))'
                 PROVE  Good(e, o)'
      BY DEF StoreGood, BlockOf
    <3>1. ~Owns(w)'
      BY <2>1 DEF Owns
    <3>2. Candidate(e, BlockOf(o))
      BY <1>1, <1>2, <3>1, OpenCandidate, OpenCandidatePrime DEF BlockOf
    <3>3. Good(e, o)
      BY <3>2 DEF PromiseInv, StoreGood
    <3>4. CASE e.state = "present" /\ e.off + InBlock(o) \in PayloadFrom(w) .. PayloadTo(w)
      <4>1. req[w].cur <= o /\ o <= ChunkEnd(w) /\ o \in Nat
        BY <3>2, <3>4, <2>8, CellOf
      <4>2. req[w].first <= o /\ o <= req[w].last
        BY <1>2, <2>2, <2>3, <4>1
      <4>3. Lost \in promise[o] \/ v \in promise[o]
        BY <1>2, <4>2 DEF PromiseInv, CallServes
      <4>4. e.off + InBlock(o) \in Cells
        BY <3>2, <3>4, CandidateCell
      <4>5. dataMay'[e.off + InBlock(o)] = dataMay[e.off + InBlock(o)] \cup {v}
        BY <2>1, <3>4, <4>4 DEF WriteCells
      <4> QED
        BY <1>2, <3>3, <3>4, <4>3, <4>5 DEF Good, InBlock
    <3>5. CASE ~(e.state = "present" /\ e.off + InBlock(o) \in PayloadFrom(w) .. PayloadTo(w))
      <4>1. e.state = "present" => e.off + InBlock(o) \in Cells
        BY <3>2, CandidateCell
      <4>2. e.state = "present" => dataMay'[e.off + InBlock(o)] = dataMay[e.off + InBlock(o)]
        BY <2>1, <3>5, <4>1 DEF WriteCells
      <4> QED
        BY <1>2, <3>3, <4>2 DEF Good, InBlock
    <3> QED
      BY <3>4, <3>5
  <2> QED
    BY <2>9, <2>10, <2>11, <2>12 DEF Rest
<1> QED
  BY <1>3, <1>4

(* The final flush: from now on only the new content may be read. *)
LEMMA AcknowledgePromise ==
  ASSUME Serial, PromiseInv, NEW w \in Writers, Acknowledge(w)
  PROVE  Rest'
<1>1. \A x \in Writers : x = w
  BY DEF Serial, OneWriter
<1>2. /\ pc[w] = "finalFlush" /\ pc'[w] = "idle" /\ Flush /\ phase = "open"
      /\ UNCHANGED <<phase, bat, table>>
      /\ promise' = [o \in VirtualCells |->
                       IF o \in req[w].first .. req[w].last /\ Lost \notin promise[o]
                       THEN {req[w].val} ELSE promise[o]]
  BY DEF Acknowledge, Goto, Flush, memVars, PromiseInv, AllocInv, TypeOK, CallsNeedReader
<1>3. ~Owns(w) /\ ~Owns(w)' /\ \A b \in Blocks : table[b] = bat[b]
  BY <1>1, <1>2 DEF Owns, PromiseInv, TableIsBat
<1>4. DataKept /\ dataMay' = [a \in Cells |-> {data[a]}]
  BY <1>2, DeviceKeepsData DEF Flush
<1>5. CellsViewed' /\ \A a \in Cells : dataMay'[a] \subseteq dataMay[a]
  BY <1>4, DataKeptCells
<1>6. TableIsBat' /\ CallKnows' /\ CallServes'
  BY <1>1, <1>2, <1>3 DEF TableIsBat, CallKnows, CallServes, Allocating
<1>7. StoreGood'
  <2> SUFFICES ASSUME NEW o \in VirtualCells, NEW e, Candidate(e, BlockOf(o))'
               PROVE  Good(e, o)'
    BY DEF StoreGood, BlockOf
  <2>1. BlockOf(o) \in Blocks /\ o \in Nat
    BY CellOf
  <2>2. e = table[BlockOf(o)] /\ Candidate(e, BlockOf(o))
    BY <1>1, <1>2, <1>3, <2>1, OpenCandidate, OpenCandidatePrime DEF BlockOf
  <2>3. e.state = "present" => e.off + InBlock(o) \in Cells
    BY <2>2, CandidateCell
  <2>4. CASE o \in req[w].first .. req[w].last /\ Lost \notin promise[o]
    <3>1. o >= req[w].first /\ o <= req[w].last
      <4>1. req[w].first \in Nat /\ req[w].last \in Nat
        <5>1. req[w].first \in VirtualCells /\ req[w].last \in VirtualCells
          BY DEF PromiseInv, AllocInv, TypeOK
        <5> QED
          BY <5>1, CellOf
      <4> QED
        BY <2>1, <2>4, <4>1
    <3>2. Done(w, o)
      BY <1>2, <3>1 DEF Done
    <3>3. e.state = "present" /\ data[e.off + InBlock(o)] = req[w].val
      BY <1>2, <2>2, <3>2 DEF PromiseInv, CallServes
    <3>4. dataMay'[e.off + InBlock(o)] = {req[w].val} /\ promise'[o] = {req[w].val}
      BY <1>2, <1>4, <2>3, <2>4, <3>3
    <3> QED
      BY <3>3, <3>4 DEF Good, InBlock
  <2>5. CASE ~(o \in req[w].first .. req[w].last /\ Lost \notin promise[o])
    <3>1. promise'[o] = promise[o]
      BY <1>2, <2>5
    <3>2. Good(e, o)
      BY <2>2 DEF PromiseInv, StoreGood
    <3> QED
      BY <1>5, <2>3, <3>1, <3>2 DEF Good, InBlock
  <2> QED
    BY <2>4, <2>5
<1> QED
  BY <1>5, <1>6, <1>7 DEF Rest

-----------------------------------------------------------------------------
(***************************************************************************)
(* open_inner, drop and power loss: no call is under way after the step.   *)
(***************************************************************************)
(* Then reads go by what will be loaded, and by nothing else. *)
LEMMA IdlePromise ==
  ASSUME \A w \in Writers : pc'[w] = "idle",
         phase' = "open" => \A b \in Blocks : table'[b] = bat'[b],
         \A b \in Blocks : \A e : e = Restored(b)' => Candidate(e, b)
  PROVE  TableIsBat' /\ CallKnows' /\ CallServes' /\ NothingNew
<1>1. TableIsBat' /\ CallKnows' /\ CallServes'
  BY DEF TableIsBat, CallKnows, CallServes, Allocating
<1>2. \A b \in Blocks : \A e : Candidate(e, b)' => e = Restored(b)'
  <2>1. \A w \in Writers : ~Owns(w)'
    BY DEF Owns
  <2>2. phase' = "open" => \A b \in Blocks : Restored(b)' = bat'[b]
    BY DEF Restored, Applied
  <2> QED
    BY <2>1, <2>2 DEF Candidate
<1> QED
  BY <1>1, <1>2 DEF NothingNew

(* Replaying, erasing and clearing the log, and loading the BAT, change    *)
(* nothing of what will be loaded.                                         *)
LEMMA OpenRestores ==
  ASSUME Serial, PromiseInv, OpenStart \/ OpenStep, NEW b \in Blocks
  PROVE  Restored(b)' = Restored(b)
<1>1. \A w \in Writers : pc[w] = "idle" /\ pc'[w] = "idle"
  <2>1. phase # "open" /\ UNCHANGED callVars
    BY DEF OpenStart, OpenStep, ReplayGrow, ReplayWrite, ReplayFlush, EraseLog, EraseFlush,
       ClearHeader, ClearFlush, LoadBat
  <2> QED
    BY <2>1 DEF PromiseInv, AllocInv, CallsNeedReader, callVars
<1>2. ~At({"headerFlush"}) /\ ~At({"headerFlush"})'
  BY <1>1, IdleBefore, IdleAfter
<1>3. CASE OpenStart \/ ReplayGrow \/ ReplayWrite \/ ReplayFlush
  <2>1. /\ phase \in {"closed", "grow", "apply", "applyFlush"}
        /\ phase' \in {"grow", "apply", "applyFlush", "erase", "load"} /\ log' = log
    BY <1>3 DEF OpenStart, ReplayGrow, ReplayWrite, ReplayFlush, SetLen, WriteBatSector, Flush,
       devVars, logVars
  <2>2. Heads = {header'} /\ Heads' = {header'}
    BY <1>2, <1>3, <2>1 DEF Heads, OpenStart, ReplayGrow, ReplayWrite, ReplayFlush
  <2>3. /\ Restored(b) = IF Live(header', log) /\ log.image[b] # Uncovered
                         THEN log.image[b] ELSE bat[b]
        /\ Restored(b)' = IF phase' \in {"grow", "apply", "applyFlush"} /\ Live(header', log)
                             /\ log.image[b] # Uncovered
                          THEN log.image[b] ELSE bat'[b]
    BY <2>1, <2>2 DEF Restored, Applied, Live
  <2>4. CASE OpenStart
    <3>1. bat' = bat /\ phase' = IF Live(header', log) THEN "grow" ELSE "load"
      BY <2>4 DEF OpenStart, Live, devVars, batVars
    <3> QED
      BY <2>3, <3>1
  <2>5. CASE ReplayGrow
    <3>1. bat' = bat /\ phase' = "apply"
      BY <2>5 DEF ReplayGrow, SetLen, devVars, batVars
    <3> QED
      BY <2>3, <3>1
  <2>6. CASE ReplayWrite
    <3>1. phase = "apply" /\ phase' = "applyFlush" /\ header' = header
          /\ bat'[b] = IF log.image[b] # Uncovered THEN log.image[b] ELSE bat[b]
      BY <2>6 DEF ReplayWrite, WriteBatSector
    <3>2. Live(header', log)
      BY <3>1 DEF PromiseInv, JournalInv, ReplayHolds
    <3> QED
      BY <2>3, <3>1, <3>2
  <2>7. CASE ReplayFlush
    <3>1. phase = "applyFlush" /\ phase' = "erase" /\ bat' = bat
      BY <2>7 DEF ReplayFlush, Flush
    <3>2. log.image[b] # Uncovered => bat[b] = log.image[b]
      BY <3>1 DEF PromiseInv, JournalInv, ReplayHolds
    <3> QED
      BY <2>3, <3>1, <3>2
  <2> QED
    BY <1>3, <2>4, <2>5, <2>6, <2>7
<1>4. CASE EraseLog \/ EraseFlush \/ ClearHeader \/ ClearFlush \/ LoadBat
  <2>1. Applied /\ Applied' /\ bat' = bat
    BY <1>4 DEF EraseLog, EraseFlush, ClearHeader, ClearFlush, LoadBat, WriteLog, WriteHeader,
       Flush, devVars, batVars, Applied
  <2> QED
    BY <2>1 DEF Restored
<1> QED
  BY <1>3, <1>4 DEF OpenStep

(* The steps of open_inner. *)
LEMMA OpenPromise ==
  ASSUME Serial, PromiseInv, OpenStart \/ OpenStep
  PROVE  Rest'
<1>1. /\ \A w \in Writers : pc'[w] = "idle"
      /\ promise' = promise
      /\ phase' = "open" => table' = bat /\ bat' = bat
  <2>1. /\ phase # "open" /\ UNCHANGED <<callVars, promise>>
        /\ phase' = "open" => table' = bat /\ bat' = bat
    BY DEF OpenStart, OpenStep, ReplayGrow, ReplayWrite, ReplayFlush, EraseLog, EraseFlush,
       ClearHeader, ClearFlush, LoadBat, devVars, batVars
  <2> QED
    BY <2>1 DEF PromiseInv, AllocInv, CallsNeedReader, callVars
<1>2. DataKept
  BY DeviceKeepsData
  DEF OpenStart, OpenStep, ReplayGrow, ReplayWrite, ReplayFlush, EraseLog, EraseFlush,
      ClearHeader, ClearFlush, LoadBat
<1>3. \A b \in Blocks : \A e : e = Restored(b)' => Candidate(e, b)
  BY OpenRestores DEF Candidate
<1>4. TableIsBat' /\ CallKnows' /\ CallServes' /\ NothingNew
  BY <1>1, <1>3, IdlePromise
<1>5. CellsViewed' /\ StoreGood'
  BY <1>1, <1>2, <1>4, DataKeptCells, StoreUnwritten DEF PromisesKept
<1> QED
  BY <1>4, <1>5 DEF Rest

(* What a crash, or a drop, leaves to be loaded is one of the entries that *)
(* reads may go by.                                                        *)
LEMMA EndRestores ==
  ASSUME Serial, PromiseInv, Close \/ Crash, NEW b \in Blocks, NEW e, e = Restored(b)'
  PROVE  Candidate(e, b)
<1>1. phase # "closed" /\ phase' = "closed"
  BY DEF Close, Crash, Forget
<1>2. /\ hdr'[PickSlot(hdr')] \in Heads /\ log' \in logMay /\ bat'[b] \in batMay[b]
  <2>1. CASE Close
    <3>1. phase = "open" /\ (\A w \in Writers : pc[w] = "idle") /\ UNCHANGED <<hdr, log, bat>>
      BY <2>1 DEF Close, devVars, hdrVars, logVars, batVars
    <3>2. hdr[PickSlot(hdr)] = header /\ header \in Heads
      BY <3>1 DEF PromiseInv, JournalInv, ActiveIsPicked, HeaderInv, HeaderInPlace, Heads
    <3> QED
      BY <3>1, <3>2, BatViewed DEF PromiseInv, JournalInv
  <2>2. CASE Crash
    <3>1. hdr' \in Survivors(hdr, hdrMay) /\ log' \in logMay /\ bat' \in Survivors(bat, batMay)
      BY <2>2 DEF Crash, LosePower
    <3> QED
      BY <3>1, HeadsCover, BatSurvivor DEF PromiseInv
  <2> QED
    BY <2>1, <2>2
<1> DEFINE p == hdr'[PickSlot(hdr')]
<1>3. e = IF Live(p, log') /\ log'.image[b] # Uncovered THEN log'.image[b] ELSE bat'[b]
  <2>1. Heads' = {p} /\ ~Applied'
    BY <1>1 DEF Heads, Applied
  <2> QED
    BY <2>1 DEF Restored, Live
<1> HIDE DEF p
<1>4. CASE Applied
  <2>1. Restored(b) = bat[b]
    BY <1>4 DEF Restored
  <2>2. CASE Live(p, log') /\ log'.image[b] # Uncovered
    <3>1. /\ e = log'.image[b]
          /\ \/ e = bat[b]
             \/ \E w \in Writers : Owns(w) /\ BlockAt(w) = b /\ e = PresentEntry(host[w])
      BY <1>2, <1>3, <1>4, <2>2 DEF p, PromiseInv, JournalInv, LiveRestores, Restores
    <3> QED
      BY <2>1, <3>1 DEF Candidate
  <2>3. CASE ~(Live(p, log') /\ log'.image[b] # Uncovered)
    <3>1. e = bat'[b]
      BY <1>3, <2>3
    <3>2. bat'[b] = bat[b]
      <4>1. CASE At({"publishFlush"})
        <5>1. PICK w \in Writers : pc[w] = "publishFlush"
          BY <4>1 DEF At
        <5>2. ~At({"headerFlush"}) /\ ~At({"logFlush"}) /\ phase = "open" /\ Live(header, log)
          BY <5>1 DEF At, Serial, OneWriter, PromiseInv, AllocInv, CallsNeedReader, JournalInv,
             LogHolds
        <5>3. Heads = {header} /\ logMay = {log}
          BY <5>2 DEF Heads, PromiseInv, JournalInv, Settling
        <5>4. log.image[b] = Uncovered
          BY <1>2, <2>3, <5>2, <5>3 DEF p
        <5> QED
          BY <1>2, <4>1, <5>4 DEF PromiseInv, JournalInv, InPlaceHolds
      <4>2. CASE ~At({"publishFlush"})
        BY <1>2, <1>4, <4>2 DEF PromiseInv, JournalInv, Settling, Applied
      <4> QED
        BY <4>1, <4>2
    <3> QED
      BY <2>1, <3>1, <3>2 DEF Candidate
  <2> QED
    BY <2>2, <2>3
<1>5. CASE ~Applied
  <2>1. phase \in {"grow", "apply", "applyFlush"} /\ \A w \in Writers : pc[w] = "idle"
    BY <1>1, <1>5 DEF Applied, PromiseInv, AllocInv, TypeOK, Phases, CallsNeedReader
  <2>2. ~At({"headerFlush"}) /\ ~At({"logFlush"}) /\ ~At({"publishFlush"})
    BY <2>1, IdleBefore
  <2>3. Heads = {header} /\ logMay = {log} /\ Live(header, log)
    BY <1>1, <2>1, <2>2 DEF Heads, PromiseInv, JournalInv, Settling, ReplayHolds
  <2>4. p = header /\ log' = log
    BY <1>2, <2>3 DEF p
  <2>5. Restored(b) = IF log.image[b] # Uncovered THEN log.image[b] ELSE bat[b]
    BY <1>5, <2>3 DEF Restored
  <2>6. log.image[b] = Uncovered => bat'[b] = bat[b]
    <3>1. CASE phase = "applyFlush"
      BY <1>2, <3>1 DEF PromiseInv, JournalInv, InPlaceHolds
    <3>2. CASE phase # "applyFlush"
      BY <1>2, <2>2, <3>2 DEF PromiseInv, JournalInv, Settling
    <3> QED
      BY <3>1, <3>2
  <2> QED
    BY <1>3, <2>3, <2>4, <2>5, <2>6 DEF Candidate
<1> QED
  BY <1>4, <1>5

(* The reader is dropped, or power is lost. *)
LEMMA EndPromise ==
  ASSUME Serial, PromiseInv, Close \/ Crash
  PROVE  Rest'
<1>1. (\A w \in Writers : pc'[w] = "idle") /\ phase' = "closed" /\ promise' = promise
  BY DEF Close, Crash, Forget
<1>2. \A b \in Blocks : \A e : e = Restored(b)' => Candidate(e, b)
  BY EndRestores
<1>3. TableIsBat' /\ CallKnows' /\ CallServes' /\ NothingNew
  BY <1>1, <1>2, IdlePromise
<1>4. PromisesKept
  BY <1>1 DEF PromisesKept
<1>5. CASE Close
  <2>1. DataKept
    BY <1>5, DeviceKeepsData DEF Close
  <2> QED
    BY <1>3, <1>4, <2>1, DataKeptCells, StoreUnwritten DEF Rest
<1>6. CASE Crash
  <2>1. PICK n \in lenMay, d \in Survivors(data, dataMay) :
          /\ data' = [a \in Cells |-> IF a < n THEN d[a] ELSE Junk]
          /\ dataMay' = [a \in Cells |-> {data'[a]}]
    BY <1>6 DEF Crash, LosePower
  <2>2. \A a \in Cells : d[a] \in dataMay[a]
    <3>1. DOMAIN data = Cells
      BY DEF PromiseInv, AllocInv, TypeOK, FileTypeOK
    <3> QED
      BY <3>1, SurvivorIsAdmitted DEF PromiseInv, CellsViewed
  <2>3. CellsViewed'
    BY <2>1 DEF CellsViewed
  <2>4. ASSUME NEW o \in VirtualCells, NEW e, Candidate(e, BlockOf(o)), e.state = "present"
        PROVE  dataMay'[e.off + InBlock(o)] \subseteq dataMay[e.off + InBlock(o)]
    <3> DEFINE a == e.off + InBlock(o)
    <3>1. a \in Cells /\ a < n
      BY <2>4, CandidateCell
    <3> HIDE DEF a
    <3>2. dataMay'[a] = {d[a]}
      BY <2>1, <3>1
    <3> QED
      BY <2>2, <3>1, <3>2 DEF a
  <2>5. StoreGood'
    BY <1>3, <1>4, <2>4, StoreKept
  <2> QED
    BY <1>3, <2>3, <2>5 DEF Rest
<1> QED
  BY <1>5, <1>6

(* A step that changes nothing. *)
LEMMA StutterPromise ==
  ASSUME PromiseInv, UNCHANGED vars
  PROVE  Rest'
<1>1. UNCHANGED <<hdr, log, bat, data, dataMay, phase, header, activeSlot, table, pc, req, host,
                  promise>>
  BY DEF vars, devVars, hdrVars, logVars, batVars, dataVars, memVars, callVars
<1>2. /\ \A w \in Writers : /\ BlockAt(w)' = BlockAt(w) /\ Owns(w)' = Owns(w)
                            /\ Allocating(w)' = Allocating(w)
                            /\ \A o : Done(w, o)' = Done(w, o)
      /\ Heads' = Heads /\ Applied' = Applied
  BY <1>1 DEF BlockAt, Owns, Allocating, Done, Heads, At, JournalHeader, ClearedHeader, Applied
<1>3. CellsViewed' /\ TableIsBat' /\ CallKnows' /\ CallServes'
  BY <1>1, <1>2 DEF PromiseInv, CellsViewed, TableIsBat, CallKnows, CallServes, BlockOf, InBlock
<1>4. NothingNew
  BY <1>1, <1>2 DEF NothingNew, Candidate, Restored, Live
<1>5. PromisesKept /\ DataKept
  BY <1>1 DEF PromisesKept, DataKept
<1> QED
  BY <1>3, <1>4, <1>5, StoreUnwritten DEF Rest

-----------------------------------------------------------------------------
(* A new image, or one with a log to replay, reads as its entries say. *)
LEMMA PromiseInit ==
  ASSUME ImageSound, ImageReadable, ImageJournaled, ImageFits, Init
  PROVE  PromiseInv
<1>1. PICK st \in Starts : InitImage(st)
  BY DEF Init
<1>2. AllocInv /\ JournalInv
  BY AllocInit, JournalInit
<1>3. phase = "closed" /\ \A w \in Writers : pc[w] = "idle"
  BY DEF Init
<1>4. /\ hdr = st.hdr /\ log = st.log /\ logMay = {st.log} /\ bat = st.bat /\ lenMay = {st.len}
      /\ data = [a \in Cells |-> InitCell(st, a)]
      /\ dataMay = [a \in Cells |-> {InitCell(st, a)}]
      /\ promise = [o \in VirtualCells |-> {InitValue(st, o)}]
  BY <1>1 DEF InitImage
<1>5. /\ st.len \in Nat /\ st.log.last \in Nat /\ st.len <= MaxLen /\ st.log.last <= MaxLen
  BY ImageAssumption DEF ImageFits, ImageRecords, LogEntries
<1>6. CellsViewed /\ FileFits /\ TableIsBat /\ CallKnows /\ CallServes
  BY <1>3, <1>4, <1>5 DEF CellsViewed, FileFits, TableIsBat, CallKnows, CallServes, Allocating
<1>7. StoreGood
  <2> SUFFICES ASSUME NEW o \in VirtualCells, NEW e, Candidate(e, BlockOf(o))
               PROVE  Good(e, o)
    BY DEF StoreGood
  <2>1. BlockOf(o) \in Blocks /\ InBlock(o) \in 0 .. BlockSize - 1 /\ BlockSize \in Nat \ {0}
    BY CellOf
  <2>2. e = InitEntry(st, BlockOf(o))
    <3>1. Heads = {st.hdr[PickSlot(st.hdr)]} /\ ~Applied /\ \A w \in Writers : ~Owns(w)
      BY <1>3, <1>4 DEF Heads, Applied, Owns
    <3>2. Live(st.hdr[PickSlot(st.hdr)], st.log) <=> Pending(st)
      BY DEF Live, Pending
    <3> QED
      BY <1>3, <1>4, <3>1, <3>2 DEF Candidate, Restored, InitEntry
  <2>3. promise[o] = {InitValue(st, o)}
    BY <1>4
  <2>4. CASE e.state # "present"
    BY <2>2, <2>3, <2>4 DEF Good, InitValue, BlockOf
  <2>5. CASE e.state = "present"
    <3>1. e.off \in Nat /\ e.off + BlockSize <= st.len
      <4>1. e \in InitNames(st, BlockOf(o))
        BY <2>2 DEF InitEntry, InitNames
      <4>2. e \in Entries
        BY <2>1, <2>5, <4>1, ImageAssumption
        DEF InitNames, ImageRecords, LogEntries, Images, Uncovered
      <4> QED
        BY <2>1, <2>5, <4>1, <4>2 DEF ImageSound, SoundStart, EndsBy, Entries
    <3>2. e.off + BlockSize <= InitEnd(st)
      BY <1>5, <2>1, <3>1 DEF InitEnd
    <3>3. e.off + InBlock(o) \in Cells
      BY <1>5, <2>1, <3>1, SizesAssumption DEF Cells
    <3>4. InitValue(st, o) = InitCell(st, e.off + InBlock(o))
      BY <2>2, <2>5, <3>2 DEF InitValue, BlockOf
    <3> QED
      BY <1>4, <2>3, <2>5, <3>3, <3>4 DEF Good
  <2> QED
    BY <2>4, <2>5
<1> QED
  BY <1>2, <1>6, <1>7 DEF PromiseInv

(* Every serial step keeps the promise. *)
LEMMA PromiseStep ==
  ASSUME Serial, PromiseInv, SeqBelowLimit, [Next]_vars
  PROVE  PromiseInv'
<1>1. AllocInv' /\ JournalInv' /\ FileFits'
  BY AllocStep, JournalPreserved, FitsStep DEF PromiseInv
<1>2. /\ \A w \in Writers : ~DeviceError(w)
      /\ ~OpenError /\ ~Kill
  BY SerialExcludes DEF PromiseInv, JournalInv
<1>3. ASSUME NEW w \in Writers, BeginWrite(w) \/ WriteStep(w) PROVE Rest'
  BY <1>3, BeginPromise, LookupPromise, AllocatePromise, JournalPromise, ZeroInitPromise,
     ZeroFlushPromise, PublishPromise, PublishTablePromise, PayloadPromise, AcknowledgePromise
  DEF WriteStep, AllocateStep
<1>4. ASSUME OpenStart \/ OpenStep PROVE Rest'
  BY <1>4, OpenPromise
<1>5. ASSUME Close \/ Crash PROVE Rest'
  BY <1>5, EndPromise
<1>6. ASSUME UNCHANGED vars PROVE Rest'
  BY <1>6, StutterPromise
<1>7. Rest'
  BY <1>2, <1>3, <1>4, <1>5, <1>6 DEF Next
<1> QED
  BY <1>1, <1>7 DEF PromiseInv, Rest

(* The inductive invariant of what reads return. *)
THEOREM PromiseInvariant ==
  ASSUME ImageSound, ImageReadable, ImageJournaled, ImageFits, Serial
  PROVE  Spec /\ []SeqBelowLimit => []PromiseInv
  BY PromiseInit, PromiseStep, PTL DEF Spec

(* Every read of an open image returns what the writes before it promised: *)
(* an acknowledged write is what is read from then on, through any loss of *)
(* power and the replay that follows; one that was not acknowledged has    *)
(* happened or not, cell by cell; and no block becomes unreadable.         *)
THEOREM ReadsArePromisedAlways ==
  ASSUME ImageSound, ImageReadable, ImageJournaled, ImageFits, Serial
  PROVE  Spec /\ []SeqBelowLimit => []ReadsArePromised
<1>1. PromiseInv => ReadsArePromised
  <2> SUFFICES ASSUME PromiseInv, phase = "open", NEW o \in VirtualCells, Lost \notin promise[o]
               PROVE  Readable(o) /\ ReadCell(o) \in promise[o]
    BY DEF ReadsArePromised
  <2> DEFINE e == table[BlockOf(o)]
  <2>1. Candidate(e, BlockOf(o))
    BY OpenCandidate
  <2>2. Good(e, o)
    BY <2>1 DEF PromiseInv, StoreGood
  <2>3. CASE e.state = "absent" /\ Zero \in promise[o]
    BY <2>3 DEF Readable, ReadCell, BlockOf
  <2>4. CASE e.state = "present" /\ dataMay[e.off + InBlock(o)] \subseteq promise[o]
    <3>1. e.off + InBlock(o) \in Cells /\ e.off + InBlock(o) < devSize
      BY <2>1, <2>4, CandidateCell
    <3>2. data[e.off + InBlock(o)] \in promise[o]
      BY <2>4, <3>1 DEF PromiseInv, CellsViewed
    <3> QED
      BY <2>4, <3>1, <3>2 DEF Readable, ReadCell, BlockOf
  <2> QED
    BY <2>2, <2>3, <2>4 DEF Good
<1> QED
  BY <1>1, PromiseInvariant, PTL
=============================================================================

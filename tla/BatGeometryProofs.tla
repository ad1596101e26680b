-------------------------- MODULE BatGeometryProofs --------------------------
(***************************************************************************)
(* The BAT arithmetic for every block size, chunk ratio and disk size.     *)
(***************************************************************************)
EXTENDS BatGeometry, DivisionProofs

(* data_bat_index counts one bitmap entry per whole chunk before it. *)
LEMMA IndexIsShift ==
  ASSUME NEW b \in Nat, NEW r \in Nat \ {0}
  PROVE  DataBatIndex(b, r) \in Nat /\ DataBatIndex(b, r) = b + (b \div r)
<1> DEFINE q == b \div r  m == b % r
<1>1. q \in Nat /\ m \in 0 .. r - 1 /\ b = r * q + m
  BY DivMod
<1>2. DataBatIndex(b, r) = q * (r + 1) + m
  BY DEF DataBatIndex
<1> HIDE DEF q, m
<1>3. q * (r + 1) = r * q + q /\ r * q \in Nat
  BY <1>1
<1> QED
  BY <1>1, <1>2, <1>3 DEF q

(* Blocks keep their order in the BAT, so no two share an entry. *)
LEMMA IndexMonotone ==
  ASSUME NEW b \in Nat, NEW c \in Nat, NEW r \in Nat \ {0}, b < c
  PROVE  DataBatIndex(b, r) < DataBatIndex(c, r)
<1> DEFINE p == b \div r  q == c \div r
<1>1. p <= q
  BY DivMonotone
<1>2. p \in Nat /\ q \in Nat
  BY DivMod
<1>3. DataBatIndex(b, r) = b + p /\ DataBatIndex(c, r) = c + q
  BY IndexIsShift
<1> HIDE DEF p, q
<1> QED
  BY <1>1, <1>2, <1>3

(* No block's entry is a sector-bitmap entry, and no two blocks share one, *)
(* for every disk (data_bat_index).                                        *)
THEOREM DataIndexes ==
  ASSUME NEW r \in Nat \ {0}
  PROVE  /\ \A b \in Nat : ~IsBitmapIndex(DataBatIndex(b, r), r)
         /\ \A b, c \in Nat : DataBatIndex(b, r) = DataBatIndex(c, r) => b = c
<1>1. ASSUME NEW b \in Nat PROVE ~IsBitmapIndex(DataBatIndex(b, r), r)
  <2> DEFINE q == b \div r  m == b % r  x == DataBatIndex(b, r)
  <2>1. q \in Nat /\ m \in 0 .. r - 1
    BY DivMod
  <2>2. x \in Nat /\ x = q * (r + 1) + m
    BY IndexIsShift DEF DataBatIndex
  <2> HIDE DEF q, m, x
  <2>3. q * (r + 1) = (r + 1) * q
    BY <2>1
  <2>4. r + 1 \in Nat \ {0} /\ m \in 0 .. (r + 1) - 1 /\ x = (r + 1) * q + m
    BY <2>1, <2>2, <2>3
  <2>5. x % (r + 1) = m
    BY <2>1, <2>2, <2>4, DivModUnique
  <2>6. m # r
    BY <2>1
  <2> QED
    BY <2>5, <2>6 DEF IsBitmapIndex, x
<1>2. ASSUME NEW b \in Nat, NEW c \in Nat, DataBatIndex(b, r) = DataBatIndex(c, r)
      PROVE  b = c
  <2>1. CASE b < c
    BY <1>2, <2>1, IndexMonotone, IndexIsShift
  <2>2. CASE c < b
    BY <1>2, <2>2, IndexMonotone, IndexIsShift
  <2> QED
    BY <2>1, <2>2
<1> QED
  BY <1>1, <1>2

(* The block of a byte of the disk is no later than the disk's last block. *)
LEMMA BlockOnDisk ==
  ASSUME NEW c \in Nat, NEW n \in Nat, NEW d \in Nat \ {0}, c < n
  PROVE  /\ DivCeil(n, d) - 1 \in Nat
         /\ c \div d <= DivCeil(n, d) - 1
<1> DEFINE q == c \div d  m == c % d
<1>1. q \in Nat /\ m \in 0 .. d - 1 /\ c = d * q + m
  BY DivMod
<1>2. (c + d) \div d = q + 1
  <2> HIDE DEF q, m
  <2>1. d * (q + 1) = d * q + d /\ d * q \in Nat
    BY <1>1
  <2>2. c + d \in Nat /\ c + d = d * (q + 1) + m
    BY <1>1, <2>1
  <2> QED
    BY <1>1, <2>2, DivModUnique
<1>3. c + d \in Nat /\ n + d - 1 \in Nat /\ c + d <= n + d - 1
  OBVIOUS
<1>4. (c + d) \div d <= (n + d - 1) \div d
  BY <1>3, DivMonotone
<1>5. DivCeil(n, d) = (n + d - 1) \div d /\ DivCeil(n, d) \in Nat
  BY <1>3, DivMod DEF DivCeil
<1> HIDE DEF q, m
<1>6. q + 1 <= DivCeil(n, d)
  BY <1>2, <1>4, <1>5
<1> QED
  BY <1>1, <1>5, <1>6 DEF q

-----------------------------------------------------------------------------
(* What block_chunks and the table have in common while a reader is open.  *)
GeometryInv ==
  /\ GeometryTypeOK
  /\ phase \in {"idle", "split"} => entries = RequiredEntries(disk)
  /\ phase # "split" => chunks = << >>
  /\ IndexInTable

(* The fields of a disk are numbers, its divisors not zero. *)
LEMMA DiskType ==
  ASSUME disk \in Disks
  PROVE  /\ disk.blockSize \in Nat \ {0} /\ disk.ratio \in Nat \ {0}
         /\ disk.size \in Nat /\ disk.regionLen \in Nat
  BY GeometryAssumption DEF Disks

(* A piece is never empty and never runs past the transfer. *)
LEMMA ChunkLenType ==
  ASSUME GeometryTypeOK, cursor < end
  PROVE  ChunkLen(cursor) \in 1 .. end - cursor
<1>1. disk.blockSize \in Nat \ {0} /\ cursor \in Nat /\ end \in Nat
  BY DiskType DEF GeometryTypeOK
<1>2. cursor % disk.blockSize \in 0 .. disk.blockSize - 1
  BY <1>1, DivMod
<1> QED
  BY <1>1, <1>2 DEF ChunkLen

(* The index under the cursor is in the table and not a bitmap's. *)
LEMMA CursorIndex ==
  ASSUME GeometryTypeOK, phase = "split", cursor < end
  PROVE  LET i == DataBatIndex(cursor \div disk.blockSize, disk.ratio)
         IN  /\ i \in Nat
             /\ i < RequiredEntries(disk)
             /\ ~IsBitmapIndex(i, disk.ratio)
<1> DEFINE b == cursor \div disk.blockSize
           last == DivCeil(disk.size, disk.blockSize) - 1
           r == disk.ratio
<1>1. /\ disk.blockSize \in Nat \ {0} /\ disk.ratio \in Nat \ {0} /\ disk.size \in Nat
      /\ cursor \in Nat /\ end \in Nat /\ end <= disk.size
  BY DiskType DEF GeometryTypeOK
<1>2. cursor < disk.size /\ disk.size # 0
  BY <1>1
<1>3. last \in Nat /\ b <= last
  BY <1>1, <1>2, BlockOnDisk
<1>4. b \in Nat
  BY <1>1, DivMod
<1>5. RequiredEntries(disk) = DataBatIndex(last, r) + 1
  BY <1>2 DEF RequiredEntries
<1>6. r \in Nat \ {0}
  BY <1>1
<1> HIDE DEF b, last, r
<1>7. DataBatIndex(b, r) \in Nat /\ DataBatIndex(last, r) \in Nat
  BY <1>3, <1>4, <1>6, IndexIsShift
<1>8. DataBatIndex(b, r) <= DataBatIndex(last, r)
  <2>1. CASE b = last
    BY <1>7, <2>1
  <2>2. CASE b < last
    BY <1>3, <1>4, <1>6, <1>7, <2>2, IndexMonotone
  <2> QED
    BY <1>3, <1>4, <2>1, <2>2
<1>9. ~IsBitmapIndex(DataBatIndex(b, r), r)
  BY <1>4, <1>6, DataIndexes
<1> QED
  BY <1>5, <1>7, <1>8, <1>9 DEF b, r

(* One turn of block_chunks keeps the invariant. *)
LEMMA SplitOneStep ==
  ASSUME GeometryInv, SplitOne
  PROVE  GeometryInv'
<1> DEFINE n == ChunkLen(cursor)
           i == DataBatIndex(cursor \div disk.blockSize, disk.ratio)
           c == [in_block |-> cursor % disk.blockSize, bat_idx |-> i,
                 buf_pos |-> bufPos, chunk_len |-> n]
<1>1. /\ phase = "split" /\ cursor < end
      /\ chunks' = Append(chunks, c)
      /\ cursor' = cursor + n /\ bufPos' = bufPos + n
      /\ UNCHANGED <<disk, entries, phase, offset, end>>
  BY DEF SplitOne
<1>2. n \in 1 .. end - cursor
  BY <1>1, ChunkLenType DEF GeometryInv
<1>3. i \in Nat /\ i < entries /\ ~IsBitmapIndex(i, disk.ratio)
  BY <1>1, CursorIndex DEF GeometryInv
<1>4. cursor % disk.blockSize \in Nat
  <2>1. cursor \in Nat /\ disk.blockSize \in Nat \ {0}
    BY DiskType DEF GeometryInv, GeometryTypeOK
  <2> QED
    BY <2>1, DivMod
<1> HIDE DEF n, i
<1>5. cursor \in Nat /\ end \in Nat /\ bufPos \in Nat /\ chunks \in Seq(Chunk)
  BY DEF GeometryInv, GeometryTypeOK
<1>6. n \in Nat /\ cursor + n \in Nat /\ bufPos + n \in Nat /\ cursor + n <= end
  BY <1>1, <1>2, <1>5
<1>7. c \in Chunk
  BY <1>3, <1>4, <1>5, <1>6 DEF Chunk
<1>8. c.bat_idx = i
  OBVIOUS
<1> HIDE DEF c
<1>9. chunks' \in Seq(Chunk) /\ Len(chunks') = Len(chunks) + 1
      /\ \A k \in 1 .. Len(chunks') : chunks'[k] = IF k <= Len(chunks) THEN chunks[k] ELSE c
  BY <1>1, <1>5, <1>7
<1>10. GeometryTypeOK'
  BY <1>1, <1>6, <1>9 DEF GeometryInv, GeometryTypeOK
<1>11. IndexInTable'
  <2> SUFFICES ASSUME NEW k \in 1 .. Len(chunks')
               PROVE  chunks'[k].bat_idx < entries /\ ~IsBitmapIndex(chunks'[k].bat_idx, disk.ratio)
    BY <1>1 DEF IndexInTable
  <2>1. CASE k <= Len(chunks)
    <3>1. k \in 1 .. Len(chunks)
      BY <1>5, <1>9, <2>1
    <3> QED
      BY <1>9, <2>1, <3>1 DEF GeometryInv, IndexInTable
  <2>2. CASE ~(k <= Len(chunks))
    BY <1>3, <1>8, <1>9, <2>2
  <2> QED
    BY <2>1, <2>2
<1> QED
  BY <1>1, <1>10, <1>11 DEF GeometryInv

(* One case for each action of Next. *)
LEMMA GeometryStep ==
  ASSUME GeometryInv, [Next]_vars
  PROVE  GeometryInv'
<1>1. CASE LoadTable
  <2>1. RequiredEntries(disk) \in Nat
    <3>1. disk.blockSize \in Nat \ {0} /\ disk.ratio \in Nat \ {0} /\ disk.size \in Nat
      BY DiskType DEF GeometryInv, GeometryTypeOK
    <3>2. CASE disk.size = 0
      BY <3>2 DEF RequiredEntries
    <3>3. CASE disk.size # 0
      <4>1. DivCeil(disk.size, disk.blockSize) - 1 \in Nat
        BY <3>1, <3>3, BlockOnDisk
      <4>2. DataBatIndex(DivCeil(disk.size, disk.blockSize) - 1, disk.ratio) \in Nat
        BY <3>1, <4>1, IndexIsShift
      <4> QED
        BY <3>3, <4>2 DEF RequiredEntries
    <3> QED
      BY <3>2, <3>3
  <2>2. chunks = << >> /\ chunks' = << >>
    BY <1>1 DEF LoadTable, GeometryInv
  <2>3. /\ phase' \in {"idle", "refused"}
        /\ phase' = "idle" => entries' = RequiredEntries(disk)
        /\ entries' \in Nat /\ UNCHANGED <<disk, offset, end, cursor, bufPos, chunks>>
    BY <1>1, <2>1 DEF LoadTable, GeometryInv, GeometryTypeOK
  <2>4. RequiredEntries(disk)' = RequiredEntries(disk)
    BY <2>3 DEF RequiredEntries
  <2>5. IndexInTable'
    BY <2>2 DEF IndexInTable
  <2> QED
    BY <2>2, <2>3, <2>4, <2>5 DEF GeometryInv, GeometryTypeOK
<1>2. ASSUME NEW o \in U64, NEW n \in U64, BeginTransfer(o, n) PROVE GeometryInv'
  <2>1. o \in Nat /\ n \in Nat
    BY DEF U64
  <2>2. RequiredEntries(disk)' = RequiredEntries(disk)
    BY <1>2 DEF BeginTransfer, RequiredEntries
  <2>3. IndexInTable'
    BY <1>2 DEF BeginTransfer, IndexInTable
  <2> QED
    BY <1>2, <2>1, <2>2, <2>3 DEF BeginTransfer, GeometryInv, GeometryTypeOK
<1>3. CASE EndTransfer
  <2>1. RequiredEntries(disk)' = RequiredEntries(disk)
    BY <1>3 DEF EndTransfer, RequiredEntries
  <2>2. IndexInTable'
    BY <1>3 DEF EndTransfer, IndexInTable
  <2> QED
    BY <1>3, <2>1, <2>2 DEF EndTransfer, GeometryInv, GeometryTypeOK
<1>4. CASE UNCHANGED vars
  BY <1>4 DEF vars, GeometryInv, GeometryTypeOK, IndexInTable, RequiredEntries
<1> QED
  BY <1>1, <1>2, <1>3, <1>4, SplitOneStep DEF Next

(* Before the table is loaded there is no transfer. *)
LEMMA GeometryInit == Init => GeometryInv
  BY DEF Init, GeometryInv, GeometryTypeOK, IndexInTable

(* Every index block_chunks asks for is loaded and is a data entry, on     *)
(* every disk whose BAT region bat_region_covers_the_disk let through.     *)
THEOREM IndexInTableAlways == Spec => []IndexInTable
  BY GeometryInit, GeometryStep, PTL DEF Spec, GeometryInv

(* transfer_end and block_chunks keep the transfer on the disk and the     *)
(* cursor in the transfer.                                                 *)
THEOREM GeometryTypeCorrect == Spec => []GeometryTypeOK
  BY GeometryInit, GeometryStep, PTL DEF Spec, GeometryInv

-----------------------------------------------------------------------------
(***************************************************************************)
(* The pieces tile the transfer.                                           *)
(***************************************************************************)

(* A piece is of one block: the one its first byte is in. *)
OneBlock(c) ==
  /\ c.chunk_len >= 1
  /\ c.in_block = (offset + c.buf_pos) % disk.blockSize
  /\ c.in_block + c.chunk_len <= disk.blockSize
  /\ c.bat_idx = DataBatIndex((offset + c.buf_pos) \div disk.blockSize, disk.ratio)
  /\ c.buf_pos + c.chunk_len <= bufPos

(* The pieces so far follow each other and reach up to the cursor. *)
TileInv ==
  /\ GeometryInv
  /\ cursor = offset + bufPos
  /\ \A i \in 1 .. Len(chunks) : OneBlock(chunks[i])
  /\ \A i, j \in 1 .. Len(chunks) : i < j =>
       chunks[i].buf_pos + chunks[i].chunk_len <= chunks[j].buf_pos
  /\ \A k \in 0 .. bufPos - 1 : \E i \in 1 .. Len(chunks) : Carries(chunks[i], k)

(* A byte of a piece has its place in the block, and its entry. *)
LEMMA CarriedByte ==
  ASSUME GeometryTypeOK, NEW c \in Chunk, OneBlock(c), NEW k \in Nat, Carries(c, k)
  PROVE  /\ c.in_block + (k - c.buf_pos) = (offset + k) % disk.blockSize
         /\ c.bat_idx = DataBatIndex((offset + k) \div disk.blockSize, disk.ratio)
<1> DEFINE d == disk.blockSize  v == offset + c.buf_pos  q == v \div d  m == v % d
           x == k - c.buf_pos
<1>1. /\ d \in Nat \ {0} /\ offset \in Nat /\ c.buf_pos \in Nat /\ c.chunk_len \in Nat
      /\ v \in Nat
  BY DiskType DEF GeometryTypeOK, Chunk
<1>2. x \in Nat /\ x < c.chunk_len /\ offset + k = v + x
  BY <1>1 DEF Carries
<1>3. q \in Nat /\ m \in 0 .. d - 1 /\ v = d * q + m
  BY <1>1, DivMod
<1>4. m + c.chunk_len <= d /\ c.in_block = m /\ c.bat_idx = DataBatIndex(q, disk.ratio)
  BY DEF OneBlock
<1> HIDE DEF d, v, q, m, x
<1>5. m + x \in 0 .. d - 1 /\ d * q \in Nat
  BY <1>1, <1>2, <1>3, <1>4
<1>6. offset + k \in Nat /\ offset + k = d * q + (m + x)
  BY <1>1, <1>2, <1>3, <1>5
<1>7. (offset + k) \div d = q /\ (offset + k) % d = m + x
  BY <1>1, <1>3, <1>5, <1>6, DivModUnique
<1> QED
  BY <1>4, <1>7 DEF d, x

(* What carries a byte is a chunk around it. *)
LEMMA CarriesIs ==
  ASSUME NEW c \in Chunk, NEW k \in Nat, Carries(c, k)
  PROVE  c.buf_pos <= k /\ k < c.buf_pos + c.chunk_len
BY DEF Carries, Chunk

(* Two runs of bytes that share a byte do not follow one another. *)
LEMMA SharedByte ==
  ASSUME NEW p \in Nat, NEW n \in Nat, NEW q \in Nat, NEW k \in Nat,
         k < p + n, q <= k
  PROVE  ~(p + n <= q)
OBVIOUS

(* What tiles is what the invariant says. *)
LEMMA TileInvTiles ==
  ASSUME TileInv
  PROVE  ChunksTile
<1>1. offset \in Nat /\ bufPos \in Nat /\ cursor = offset + bufPos /\ GeometryTypeOK
      /\ chunks \in Seq(Chunk)
  BY DEF TileInv, GeometryInv, GeometryTypeOK
<1> SUFFICES ASSUME NEW k \in 0 .. bufPos - 1
             PROVE  \E i \in 1 .. Len(chunks) :
                      /\ Carries(chunks[i], k)
                      /\ \A j \in 1 .. Len(chunks) : Carries(chunks[j], k) => j = i
                      /\ chunks[i].in_block + (k - chunks[i].buf_pos) = (offset + k) % disk.blockSize
                      /\ chunks[i].bat_idx = DataBatIndex((offset + k) \div disk.blockSize, disk.ratio)
  <2>1. cursor - offset = bufPos
    BY <1>1
  <2> QED
    BY <2>1 DEF ChunksTile
<1>2. PICK i \in 1 .. Len(chunks) : Carries(chunks[i], k)
  BY DEF TileInv
<1>3. k \in Nat /\ chunks[i] \in Chunk /\ OneBlock(chunks[i])
  BY <1>1 DEF TileInv
<1>4. ASSUME NEW j \in 1 .. Len(chunks), Carries(chunks[j], k) PROVE j = i
  <2>1. chunks[j] \in Chunk /\ i \in Nat /\ j \in Nat
    BY <1>1
  <2>2. /\ i < j => chunks[i].buf_pos + chunks[i].chunk_len <= chunks[j].buf_pos
        /\ j < i => chunks[j].buf_pos + chunks[j].chunk_len <= chunks[i].buf_pos
    BY DEF TileInv
  <2>3. /\ chunks[i].buf_pos \in Nat /\ chunks[i].chunk_len \in Nat
        /\ chunks[j].buf_pos \in Nat /\ chunks[j].chunk_len \in Nat
    BY <1>3, <2>1 DEF Chunk
  <2>4. chunks[i].buf_pos <= k /\ k < chunks[i].buf_pos + chunks[i].chunk_len
    BY <1>2, <1>3, CarriesIs, Zenon
  <2>5. chunks[j].buf_pos <= k /\ k < chunks[j].buf_pos + chunks[j].chunk_len
    BY <1>3, <1>4, <2>1, CarriesIs, Zenon
  <2>6. ~(chunks[i].buf_pos + chunks[i].chunk_len <= chunks[j].buf_pos)
    BY <1>3, <2>3, <2>4, <2>5, SharedByte, Zenon
  <2>7. ~(chunks[j].buf_pos + chunks[j].chunk_len <= chunks[i].buf_pos)
    BY <1>3, <2>3, <2>4, <2>5, SharedByte, Zenon
  <2>8. ~(i < j) /\ ~(j < i)
    BY <2>2, <2>6, <2>7, Zenon
  <2> QED
    BY <2>1, <2>8
<1>5. /\ chunks[i].in_block + (k - chunks[i].buf_pos) = (offset + k) % disk.blockSize
      /\ chunks[i].bat_idx = DataBatIndex((offset + k) \div disk.blockSize, disk.ratio)
  BY <1>1, <1>2, <1>3, CarriedByte
<1> QED
  BY <1>2, <1>4, <1>5

(* One turn of block_chunks adds the piece that follows. *)
LEMMA SplitOneTiles ==
  ASSUME TileInv, GeometryInv', SplitOne
  PROVE  TileInv'
<1> DEFINE n == ChunkLen(cursor)  d == disk.blockSize
           c == [in_block |-> cursor % d, bat_idx |-> DataBatIndex(cursor \div d, disk.ratio),
                 buf_pos |-> bufPos, chunk_len |-> n]
           z == Len(chunks)
<1>1. /\ phase = "split" /\ cursor < end
      /\ chunks' = Append(chunks, c)
      /\ cursor' = cursor + n /\ bufPos' = bufPos + n
      /\ UNCHANGED <<disk, offset>>
  BY DEF SplitOne
<1>2. GeometryTypeOK /\ offset \in Nat /\ bufPos \in Nat /\ cursor = offset + bufPos
      /\ end \in Nat /\ chunks \in Seq(Chunk) /\ z \in Nat
  BY DEF TileInv, GeometryInv, GeometryTypeOK
<1>3. n \in 1 .. end - cursor /\ (cursor % d) + n <= d
  <2>1. n \in 1 .. end - cursor
    BY <1>1, <1>2, ChunkLenType
  <2>2. d \in Nat \ {0} /\ cursor \in Nat
    BY <1>2, DiskType DEF GeometryTypeOK
  <2>3. cursor % d \in 0 .. d - 1
    BY <2>2, DivMod
  <2>4. n <= d - (cursor % d)
    BY <1>2, <2>2, <2>3 DEF ChunkLen
  <2> HIDE DEF n, d
  <2> QED
    BY <2>1, <2>2, <2>3, <2>4, <1>2
<1>4. n \in Nat /\ n >= 1
  BY <1>2, <1>3
<1>5. /\ c.in_block = cursor % d /\ c.bat_idx = DataBatIndex(cursor \div d, disk.ratio)
      /\ c.buf_pos = bufPos /\ c.chunk_len = n
  OBVIOUS
<1>6. /\ c.chunk_len >= 1 /\ c.in_block = (offset + c.buf_pos) % d /\ c.in_block + c.chunk_len <= d
      /\ c.bat_idx = DataBatIndex((offset + c.buf_pos) \div d, disk.ratio)
      /\ c.buf_pos + c.chunk_len <= bufPos'
  <2> HIDE DEF c, n
  <2>1. c.buf_pos + c.chunk_len <= bufPos'
    BY <1>1, <1>2, <1>4, <1>5
  <2> QED
    BY <1>2, <1>3, <1>4, <1>5, <2>1
<1> HIDE DEF n, d, c
<1>7. /\ Len(chunks') = z + 1 /\ chunks'[z + 1] = c
      /\ \A i \in 1 .. z : chunks'[i] = chunks[i] /\ chunks[i] \in Chunk
  BY <1>1, <1>2
<1> HIDE DEF z
<1>8. ASSUME NEW i \in 1 .. z
      PROVE  OneBlock(chunks[i])' /\ OneBlock(chunks[i])
    <2>1. OneBlock(chunks[i]) /\ chunks[i] \in Chunk
      BY <1>7 DEF TileInv, z
    <2>2. chunks[i].buf_pos + chunks[i].chunk_len <= bufPos + n
      BY <1>2, <1>4, <2>1 DEF OneBlock, Chunk
    <2>3. chunks'[i] = chunks[i]
      BY <1>7
    <2> QED
      BY <1>1, <2>1, <2>2, <2>3 DEF OneBlock
<1>9. \A i \in 1 .. Len(chunks') : OneBlock(chunks[i])'
  <2> SUFFICES ASSUME NEW i \in 1 .. z + 1 PROVE OneBlock(chunks[i])'
    BY <1>7
  <2>1. CASE i \in 1 .. z
    BY <1>8, <2>1
  <2>2. CASE i = z + 1
    <3>1. chunks'[i] = c
      BY <1>7, <2>2
    <3> QED
      BY <1>1, <1>6, <3>1 DEF OneBlock, d
  <2> QED
    BY <1>2, <2>1, <2>2
<1>10. \A i, j \in 1 .. Len(chunks') : i < j =>
          chunks'[i].buf_pos + chunks'[i].chunk_len <= chunks'[j].buf_pos
  <2> SUFFICES ASSUME NEW i \in 1 .. z + 1, NEW j \in 1 .. z + 1, i < j
               PROVE  chunks'[i].buf_pos + chunks'[i].chunk_len <= chunks'[j].buf_pos
    BY <1>7
  <2>1. i \in 1 .. z /\ (j \in 1 .. z \/ j = z + 1)
    BY <1>2
  <2>2. CASE j \in 1 .. z
    <3>1. chunks[i].buf_pos + chunks[i].chunk_len <= chunks[j].buf_pos
      BY <2>1, <2>2 DEF TileInv, z
    <3> QED
      BY <1>7, <2>1, <2>2, <3>1
  <2>3. CASE j = z + 1
    <3>1. OneBlock(chunks[i])
      BY <1>8, <2>1
    <3> QED
      BY <1>5, <1>7, <2>1, <2>3, <3>1 DEF OneBlock
  <2> QED
    BY <2>1, <2>2, <2>3
<1>11. \A k \in 0 .. bufPos' - 1 : \E i \in 1 .. Len(chunks') : Carries(chunks'[i], k)
  <2> SUFFICES ASSUME NEW k \in 0 .. bufPos + n - 1
               PROVE  \E i \in 1 .. z + 1 : Carries(chunks'[i], k)
    <3>1. bufPos' = bufPos + n /\ Len(chunks') = z + 1
      BY <1>1, <1>7
    <3>2. 1 .. Len(chunks') = 1 .. z + 1 /\ 0 .. bufPos' - 1 = 0 .. bufPos + n - 1
      BY <1>2, <1>4, <3>1
    <3> QED
      BY <3>2, Zenon
  <2>1. CASE k < bufPos
    <3>1. PICK i \in 1 .. z : Carries(chunks[i], k)
      BY <1>2, <2>1 DEF TileInv, z
    <3>2. i \in 1 .. z + 1 /\ chunks'[i] = chunks[i]
      BY <1>2, <1>7
    <3> QED
      BY <3>1, <3>2
  <2>2. CASE k >= bufPos
    <3>1. Carries(c, k) /\ z + 1 \in 1 .. z + 1
      BY <1>2, <1>4, <1>5, <2>2 DEF Carries
    <3> QED
      BY <1>7, <3>1
  <2> QED
    BY <1>2, <1>4, <2>1, <2>2
<1>12. cursor' = offset' + bufPos'
  BY <1>1, <1>2, <1>4
<1> QED
  BY <1>9, <1>10, <1>11, <1>12 DEF TileInv

(* One case for each action of Next. *)
LEMMA TileStep ==
  ASSUME TileInv, [Next]_vars
  PROVE  TileInv'
<1>1. GeometryInv'
  BY GeometryStep DEF TileInv
<1>2. ASSUME NEW o \in Nat, chunks' = << >>, bufPos' = 0, cursor' = o, offset' = o
      PROVE  TileInv'
  <2>1. cursor' = offset' + bufPos'
    BY <1>2
  <2>2. (\A i \in 1 .. Len(chunks') : FALSE) /\ (\A k \in 0 .. bufPos' - 1 : FALSE)
    BY <1>2
  <2> QED
    BY <1>1, <2>1, <2>2 DEF TileInv
<1>3. CASE LoadTable
  <2>1. chunks = << >> /\ UNCHANGED <<offset, cursor, bufPos, chunks>> /\ phase = "opening"
    BY <1>3 DEF LoadTable, TileInv, GeometryInv
  <2>2. bufPos = 0 /\ offset \in Nat /\ cursor = offset
    <3>1. ~(0 \in 0 .. bufPos - 1)
      BY <2>1 DEF TileInv
    <3> QED
      BY <3>1 DEF TileInv, GeometryInv, GeometryTypeOK
  <2> QED
    BY <1>2, <2>1, <2>2 DEF TileInv, GeometryInv, GeometryTypeOK
<1>4. ASSUME NEW o \in U64, NEW n \in U64, BeginTransfer(o, n) PROVE TileInv'
  BY <1>2, <1>4, GeometryAssumption DEF BeginTransfer, U64
<1>5. CASE EndTransfer
  BY <1>2, <1>5 DEF EndTransfer
<1>6. CASE SplitOne
  BY <1>1, <1>6, SplitOneTiles
<1>7. CASE UNCHANGED vars
  BY <1>1, <1>7 DEF vars, TileInv, OneBlock
<1> QED
  BY <1>3, <1>4, <1>5, <1>6, <1>7 DEF Next

(* block_chunks covers every byte of the caller's buffer once, and carries *)
(* it to its place in its own block, for every disk and every transfer.    *)
THEOREM ChunksTileAlways == Spec => []ChunksTile
<1>1. Init => TileInv
  BY GeometryInit DEF Init, TileInv
<1> QED
  BY <1>1, TileStep, TileInvTiles, PTL DEF Spec

(* A quotient whose divisor is capped is bounded from below. *)
LEMMA QuotientAtLeast ==
  ASSUME NEW n \in Nat, NEW b \in Nat \ {0}, NEW cap \in Nat, b <= cap, n >= 16 * cap
  PROVE  n \div b >= 16
<1> DEFINE q == n \div b  m == n % b
<1>1. q \in Nat /\ m \in 0 .. b - 1 /\ n = b * q + m
  BY DivMod
<1> HIDE DEF q, m
<1>2. SUFFICES ASSUME q <= 15 PROVE FALSE
  BY <1>1 DEF q
<1>3. b * q <= 15 * b /\ b * q \in Nat
  BY <1>1, <1>2
<1> QED
  BY <1>1, <1>3

(* The chunk ratio of every image that opens is at least 16, so            *)
(* data_bat_index never divides by zero: block sizes are at most 256 MiB   *)
(* and sector sizes 512 or 4096.                                           *)
THEOREM ChunkRatioPositive ==
  ASSUME NEW b \in Nat \ {0}, b <= 268435456, NEW s \in {512, 4096}
  PROVE  ChunkRatio(b, s) >= 16
<1>1. 8388608 * s \in Nat /\ 8388608 * s >= 16 * 268435456
  BY SMT
<1>2. (8388608 * s) \div b >= 16
  BY <1>1, QuotientAtLeast, SMT
<1> QED
  BY <1>2, SMT DEF ChunkRatio
=============================================================================

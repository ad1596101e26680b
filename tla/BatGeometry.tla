----------------------------- MODULE BatGeometry -----------------------------
(***************************************************************************)
(* A transfer on the disk that Geometry describes: the part of the BAT     *)
(* that bat_region_covers_the_disk has loaded, and transfer_end and        *)
(* block_chunks of src/src/reader.rs, which cut the transfer into pieces   *)
(* of one block each and ask for the BAT entry of each.                    *)
(***************************************************************************)
EXTENDS Geometry, Sequences

CONSTANTS
  BlockSizes,      \* block sizes in bytes; powers of two in the format
  ChunkRatios,     \* data entries per sector-bitmap entry
  VirtualSizes,    \* sizes of the virtual disk in bytes
  RegionLens,      \* lengths of the BAT region in bytes
  U64Limit         \* integers of the code are below this

ASSUME GeometryAssumption ==
  /\ BlockSizes \subseteq Nat \ {0}
  /\ ChunkRatios \subseteq Nat \ {0}
  /\ VirtualSizes \subseteq Nat
  /\ RegionLens \subseteq Nat
  /\ U64Limit \in Nat \ {0}

VARIABLES
  disk,      \* block_size, chunk_ratio, virtual_size and BAT region length
  entries,   \* how many BAT entries are loaded
  phase,
  offset, end, cursor, bufPos,   \* the transfer and block_chunks' locals
  chunks

vars == <<disk, entries, phase, offset, end, cursor, bufPos, chunks>>

U64 == 0 .. U64Limit - 1
Disks == [blockSize : BlockSizes, ratio : ChunkRatios, size : VirtualSizes,
          regionLen : RegionLens]

-----------------------------------------------------------------------------
(* bat_region_covers_the_disk, and the entries that are loaded. *)
LoadTable ==
  /\ phase = "opening"
  /\ \/ /\ RegionCovers(disk)
        /\ entries' = RequiredEntries(disk)
        /\ phase' = "idle"
     \/ /\ ~RegionCovers(disk)
        /\ phase' = "refused"
        /\ UNCHANGED entries
  /\ UNCHANGED <<disk, offset, end, cursor, bufPos, chunks>>

(* transfer_end: an empty transfer is done, one that overflows or ends     *)
(* past the disk is refused; the rest are split.                           *)
BeginTransfer(o, n) ==
  /\ phase = "idle"
  /\ n # 0
  /\ o + n < U64Limit
  /\ o + n <= disk.size
  /\ offset' = o
  /\ end' = o + n
  /\ cursor' = o
  /\ bufPos' = 0
  /\ chunks' = << >>
  /\ phase' = "split"
  /\ UNCHANGED <<disk, entries>>

(* One turn of the loop of block_chunks. *)
ChunkLenWhole(c) ==
  IF disk.blockSize < end - c THEN disk.blockSize ELSE end - c
ChunkLenUncapped(c) == disk.blockSize - (c % disk.blockSize)
ChunkLen(c) ==
  LET room == disk.blockSize - (c % disk.blockSize)
  IN  IF room < end - c THEN room ELSE end - c
SplitOne ==
  /\ phase = "split"
  /\ cursor < end
  /\ chunks' = Append(chunks,
       [in_block |-> cursor % disk.blockSize,
        bat_idx |-> DataBatIndex(cursor \div disk.blockSize, disk.ratio),
        buf_pos |-> bufPos,
        chunk_len |-> ChunkLen(cursor)])
  /\ cursor' = cursor + ChunkLen(cursor)
  /\ bufPos' = bufPos + ChunkLen(cursor)
  /\ UNCHANGED <<disk, entries, phase, offset, end>>

(* The caller has its chunks. *)
EndTransfer ==
  /\ phase = "split"
  /\ cursor >= end
  /\ phase' = "idle"
  /\ offset' = 0 /\ end' = 0 /\ cursor' = 0 /\ bufPos' = 0
  /\ chunks' = << >>
  /\ UNCHANGED <<disk, entries>>

Init ==
  /\ disk \in Disks
  /\ entries = 0
  /\ phase = "opening"
  /\ offset = 0 /\ end = 0 /\ cursor = 0 /\ bufPos = 0
  /\ chunks = << >>

Next ==
  \/ LoadTable
  \/ \E o, n \in U64 : BeginTransfer(o, n)
  \/ SplitOne
  \/ EndTransfer

Spec == Init /\ [][Next]_vars

-----------------------------------------------------------------------------
Chunk == [in_block : Nat, bat_idx : Nat, buf_pos : Nat, chunk_len : Nat]

(* Every variable has the type of the field or local it stands for; the    *)
(* cursor never leaves the transfer, nor the transfer the disk.            *)
GeometryTypeOK ==
  /\ disk \in Disks
  /\ entries \in Nat
  /\ phase \in {"opening", "refused", "idle", "split"}
  /\ offset \in Nat /\ end \in Nat /\ cursor \in Nat /\ bufPos \in Nat
  /\ cursor <= end
  /\ phase = "split" => end <= disk.size
  /\ chunks \in Seq(Chunk)

(* bat_entry_at never answers "BAT index out of range", and never a        *)
(* sector-bitmap entry: every index block_chunks asks for lies in the part *)
(* of the BAT that bat_region_covers_the_disk had loaded, and is a data    *)
(* entry.                                                                  *)
IndexInTable ==
  \A i \in 1 .. Len(chunks) :
    chunks[i].bat_idx < entries /\ ~IsBitmapIndex(chunks[i].bat_idx, disk.ratio)

(* The pieces tile the transfer: byte k of the caller's buffer belongs to  *)
(* exactly one of them, and that one carries it to the place the virtual   *)
(* offset has in its block, under the block's own BAT entry.               *)
Carries(c, k) == k \in c.buf_pos .. c.buf_pos + c.chunk_len - 1
ChunksTile ==
  \A k \in 0 .. (cursor - offset) - 1 :
    LET v == offset + k IN
    \E i \in 1 .. Len(chunks) :
      /\ Carries(chunks[i], k)
      /\ \A j \in 1 .. Len(chunks) : Carries(chunks[j], k) => j = i
      /\ chunks[i].in_block + (k - chunks[i].buf_pos) = v % disk.blockSize
      /\ chunks[i].bat_idx = DataBatIndex(v \div disk.blockSize, disk.ratio)
=============================================================================

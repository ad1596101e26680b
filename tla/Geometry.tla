------------------------------ MODULE Geometry -------------------------------
(***************************************************************************)
(* The shape of the block allocation table: chunk_ratio and data_bat_index *)
(* of src/src/bat.rs, which step over the sector-bitmap entry that ends    *)
(* every chunk, and bat_region_covers_the_disk of src/src/reader.rs, which *)
(* decides whether a BAT region is long enough and how much of it is       *)
(* loaded.  A disk d is a record of its blockSize, ratio, size and         *)
(* regionLen.                                                              *)
(***************************************************************************)
EXTENDS Integers

CONSTANT BAT_ENTRY_SIZE

ASSUME EntryAssumption == BAT_ENTRY_SIZE \in Nat \ {0}

(* chunk_ratio, for the block and sector sizes open_inner lets through.    *)
ChunkRatio(blockSize, sectorSize) == (8388608 * sectorSize) \div blockSize

(* data_bat_index. *)
DataBatIndex(block, ratio) == (block \div ratio) * (ratio + 1) + (block % ratio)

(* A sector-bitmap entry closes every run of `ratio` data entries. *)
IsBitmapIndex(i, ratio) == i % (ratio + 1) = ratio

DivCeil(n, d) == (n + d - 1) \div d

(* bat_region_covers_the_disk: the entries the disk needs.                 *)
RequiredEntriesShort(d) ==
  IF d.size = 0 THEN 0
  ELSE DataBatIndex(DivCeil(d.size, d.blockSize) - 1, d.ratio)
RequiredEntries(d) ==
  IF d.size = 0 THEN 0
  ELSE DataBatIndex(DivCeil(d.size, d.blockSize) - 1, d.ratio) + 1
RegionCovers(d) ==
  /\ d.regionLen % BAT_ENTRY_SIZE = 0
  /\ d.size = 0 \/ RequiredEntries(d) <= d.regionLen \div BAT_ENTRY_SIZE
=============================================================================

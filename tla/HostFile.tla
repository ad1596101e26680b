------------------------------ MODULE HostFile ------------------------------
(***************************************************************************)
(* The host file that carries a VHDX image, seen through the               *)
(* fs_core::BlockDevice trait (read_at, write_at, set_len, flush), with    *)
(* the structures src/src/reader.rs keeps in it: two header slots, one log *)
(* entry at the start of the log region, the BAT, the payload cells and    *)
(* the length of the file.                                                 *)
(*                                                                         *)
(* The device is a volatile cache over stable storage.  For each piece of  *)
(* the file a pair of variables is kept: what a read returns now (hdr,     *)
(* log, bat, data, len) and the set of contents a crash may leave          *)
(* (hdrMay, ...).  A write adds to the set, a flush collapses it, a crash  *)
(* picks from it.  Everything written since the last flush may therefore   *)
(* land in any order, in part, or not at all.                              *)
(*                                                                         *)
(* A write is torn where that can be told: a header or log entry written   *)
(* in part fails its CRC-32C and is the value TornHeader / NoEntry, and a  *)
(* BAT sector written in part may leave any of its entries unreadable, by  *)
(* a power loss or by a write that fails, as Tears says.                   *)
(***************************************************************************)
EXTENDS Integers, FiniteSets, Durability

CONSTANTS
  NBlocks,            \* payload blocks of the virtual disk
  EntriesPerSector,   \* BAT entries per 4 KiB sector (512 in the format)
  BlockSize,          \* cells per payload block
  MaxLen,             \* bound: the host has room for this many cells
  SeqBits,            \* width of header.sequence_number (64 in the code)
  SeqLimit,           \* 2 ^ SeqBits: sequence numbers wrap here
  Data,               \* what a client may store in a cell
  Zero,               \* what an absent block reads as
  Junk,               \* what a cell nobody has written holds
  Tears               \* what may spoil a BAT sector being written: "crash", "error"

ASSUME SizesAssumption ==
  /\ NBlocks \in Nat \ {0}
  /\ EntriesPerSector \in Nat \ {0}
  /\ BlockSize \in Nat \ {0}
  /\ MaxLen \in Nat
  /\ SeqBits \in Nat \ {0}
  /\ SeqLimit \in Nat \ {0}
  /\ Tears \subseteq {"crash", "error"}

ASSUME SeqLimitAssumption == SeqLimit = 2 ^ SeqBits

ASSUME CellAssumption == Zero # Junk /\ Zero \notin Data /\ Junk \notin Data

VARIABLES hdr, hdrMay, log, logMay, bat, batMay, data, dataMay, len, lenMay

hdrVars == <<hdr, hdrMay>>
logVars == <<log, logMay>>
batVars == <<bat, batMay>>
dataVars == <<data, dataMay>>
lenVars == <<len, lenMay>>
devVars == <<hdrVars, logVars, batVars, dataVars, lenVars>>

-----------------------------------------------------------------------------
(***************************************************************************)
(* What the file is made of.                                               *)
(***************************************************************************)
Blocks == 0 .. NBlocks - 1
Cells == 0 .. MaxLen - 1
CellValues == Data \cup {Zero, Junk}
Slots == {1, 2}

(* A BAT entry, by the three things the code does with its state:          *)
(* "absent" (NotPresent, Undefined, Zero, Unmapped), "present"             *)
(* (FullyPresent) and "refused" (PartiallyPresent, Reserved); "spoiled" is *)
(* eight bytes a torn sector write left behind.                            *)
Entries == [state : {"absent", "present", "refused", "spoiled"}, off : Nat]
AbsentEntry == [state |-> "absent", off |-> 0]
SpoiledEntry == [state |-> "spoiled", off |-> 0]
PresentEntry(o) == [state |-> "present", off |-> o]

(* Stands in the image of a sector for every block whose entry lies in     *)
(* another sector.                                                         *)
Uncovered == [state |-> "uncovered", off |-> 0]

(* The 4 KiB BAT sector that holds a block's entry.                        *)
SectorOf(b) == b \div EntriesPerSector

(* A GUID: whether its first eight bytes are non-zero, and its last eight  *)
(* bytes as the set of bits that are set, so that XOR is the symmetric     *)
(* difference.                                                             *)
Bits == 0 .. SeqBits - 1
Guids == [lead : BOOLEAN, mix : SUBSET Bits]
NoGuid == [lead |-> FALSE, mix |-> {}]

(* `room` says whether log_offset and log_length leave room for an entry.   *)
Headers == [ok : BOOLEAN, seq : Nat, guid : Guids, room : BOOLEAN]
TornHeader == [ok |-> FALSE, seq |-> 0, guid |-> NoGuid, room |-> FALSE]

(* A log entry of this writer: one descriptor, for one BAT sector.         *)
(* `image` is the sector's new content, `last` its last_file_offset.       *)
NoImage == [b \in Blocks |-> Uncovered]
Images == [Blocks -> Entries \cup {Uncovered}]
LogEntries == [ok : BOOLEAN, guid : Guids, seq : Nat, image : Images, last : Nat]
NoEntry == [ok |-> FALSE, guid |-> NoGuid, seq |-> 0, image |-> NoImage, last |-> 0]

-----------------------------------------------------------------------------
(***************************************************************************)
(* The device operations, as effects on the whole file.                    *)
(***************************************************************************)
WriteHeader(s, h) ==
  /\ hdr' = [hdr EXCEPT ![s] = h]
  /\ hdrMay' = [hdrMay EXCEPT ![s] = @ \cup {h, TornHeader}]
  /\ UNCHANGED <<logVars, batVars, dataVars, lenVars>>

WriteLog(e) ==
  /\ log' = e
  /\ logMay' = logMay \cup {e, NoEntry}
  /\ UNCHANGED <<hdrVars, batVars, dataVars, lenVars>>

WriteBatSector(sector) ==
  /\ bat' = [b \in Blocks |-> IF sector[b] # Uncovered THEN sector[b] ELSE bat[b]]
  /\ batMay' = [b \in Blocks |->
       IF sector[b] # Uncovered
       THEN batMay[b] \cup {sector[b]} \cup (IF "crash" \in Tears THEN {SpoiledEntry} ELSE {})
       ELSE batMay[b]]
  /\ UNCHANGED <<hdrVars, logVars, dataVars, lenVars>>

(* A write of a sector that fails on its way: the entries before `cut` are *)
(* written, the one there is spoiled, those after it are as they were.     *)
TearBatSector(sector) ==
  /\ "error" \in Tears
  /\ \E cut \in Blocks :
       /\ sector[cut] # Uncovered
       /\ bat' = [b \in Blocks |-> IF b = cut THEN SpoiledEntry
                                  ELSE IF b < cut /\ sector[b] # Uncovered THEN sector[b]
                                  ELSE bat[b]]
  /\ batMay' = [b \in Blocks |->
       IF sector[b] # Uncovered THEN batMay[b] \cup {sector[b], SpoiledEntry} ELSE batMay[b]]
  /\ UNCHANGED <<hdrVars, logVars, dataVars, lenVars>>

WriteCells(from, to, v) ==
  /\ data' = [a \in Cells |-> IF a \in from .. to THEN v ELSE data[a]]
  /\ dataMay' = [a \in Cells |-> IF a \in from .. to THEN dataMay[a] \cup {v} ELSE dataMay[a]]
  /\ UNCHANGED <<hdrVars, logVars, batVars, lenVars>>

SetLen(n) ==
  /\ len' = n
  /\ lenMay' = lenMay \cup {n}
  /\ UNCHANGED <<hdrVars, logVars, batVars, dataVars>>

Flush ==
  /\ hdrMay' = [s \in Slots |-> {hdr[s]}]
  /\ logMay' = {log}
  /\ batMay' = [b \in Blocks |-> {bat[b]}]
  /\ dataMay' = [a \in Cells |-> {data[a]}]
  /\ lenMay' = {len}
  /\ UNCHANGED <<hdr, log, bat, data, len>>

(* Power is lost: the cache is gone and the file is what reached storage.  *)
(* Cells past the length it came back with hold nothing anyone wrote.      *)
LosePower ==
  \E n \in lenMay :
    /\ len' = n
    /\ lenMay' = {n}
    /\ hdr' \in Survivors(hdr, hdrMay)
    /\ hdrMay' = [s \in Slots |-> {hdr'[s]}]
    /\ log' \in logMay
    /\ logMay' = {log'}
    /\ bat' \in Survivors(bat, batMay)
    /\ batMay' = [b \in Blocks |-> {bat'[b]}]
    /\ \E d \in Survivors(data, dataMay) :
         data' = [a \in Cells |-> IF a < n THEN d[a] ELSE Junk]
    /\ dataMay' = [a \in Cells |-> {data'[a]}]

FileTypeOK ==
  /\ hdr \in [Slots -> Headers]
  /\ hdrMay \in [Slots -> SUBSET Headers]
  /\ log \in LogEntries
  /\ logMay \in SUBSET LogEntries
  /\ bat \in [Blocks -> Entries]
  /\ batMay \in [Blocks -> SUBSET Entries]
  /\ data \in [Cells -> CellValues]
  /\ dataMay \in [Cells -> SUBSET CellValues]
  /\ len \in Nat
  /\ lenMay \in SUBSET Nat
=============================================================================

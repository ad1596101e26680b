------------------------------ MODULE LogRegion ------------------------------
(***************************************************************************)
(* The circular log region as src/src/log.rs reads it: what a sector may   *)
(* hold, when parse_log_entry accepts an entry, and which of those found   *)
(* select_chain takes for the ends of the chain.                           *)
(*                                                                         *)
(* A sector is one 4 KiB slot.  An entry occupies `len` consecutive        *)
(* sectors, counted round the end of the region; sector `part` of it is    *)
(* recognisable as that, and the entry's CRC-32C matches exactly when all  *)
(* its parts lie in their places.  Part 0 carries the entry header, the    *)
(* only one that starts with the "loge" signature.  What an entry writes   *)
(* is one target sector, and the value it writes there is its sequence     *)
(* number, so that two entries never write the same thing.                 *)
(***************************************************************************)
EXTENDS Integers, Sequences, FiniteSets

CONSTANTS
  NSectors,    \* length of the log region in sectors
  Targets      \* the file sectors that log entries write

ASSUME RegionAssumption == NSectors \in Nat \ {0}

Positions == 0 .. NSectors - 1
LogGuids == {"none", "ours", "other"}

(* `tail` is the offset of the first entry of the sequence this one ends.  *)
LogEntry == [guid : LogGuids, seq : Nat, len : 1 .. NSectors, tail : Positions,
             target : Targets]
Blank == [part |-> 0 - 1]

(* Sector k of an entry. *)
Part(e, k) == [part |-> k, entry |-> e]

(* n sectors on from p, round the end of the region; how far q is from p.  *)
AfterFlat(p, n) == p + n
After(p, n) == (p + n) % NSectors
From(p, q) == (q + NSectors - p) % NSectors

-----------------------------------------------------------------------------
(* DISCOVERY_CHECKSUM_PASSES: how often discovery may checksum the region. *)
OnePass == 1
DISCOVERY_CHECKSUM_PASSES == 4

(* parse_log_entry, by its checks: signature, GUID, checksum. *)
HasSignature(r, p) == r[p].part = 0
Ours(r, p, guid) == r[p].entry.guid = guid
Intact(r, p) ==
  \A k \in 0 .. r[p].entry.len - 1 : r[After(p, k)] = Part(r[p].entry, k)

(* Pass 2 of select_chain: among the offsets found, the highest sequence   *)
(* number, at the lowest offset on a tie.                                  *)
HeadLowest(r, found) == CHOOSE p \in found : \A q \in found : p <= q
HeadOf(r, found) ==
  CHOOSE p \in found : \A q \in found :
    \/ r[p].entry.seq > r[q].entry.seq
    \/ r[p].entry.seq = r[q].entry.seq /\ p <= q

(* Pass 3: where the head says its sequence began.                         *)
StartLowest(r, found) == HeadLowest(r, found)
StartOf(r, found) == r[HeadOf(r, found)].entry.tail
=============================================================================

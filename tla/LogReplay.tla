------------------------------ MODULE LogReplay ------------------------------
(***************************************************************************)
(* Opening an image whose log another implementation left: a writer that   *)
(* appends entries round the circular log region, applies them in place    *)
(* when it likes, and is cut off at any point; then open_inner of          *)
(* src/src/reader.rs, which collects the chain (discover one slot at a     *)
(* time, then the passes of select_chain), applies it, erases the region   *)
(* and clears the header's log GUID, and may itself be cut off and run     *)
(* again.                                                                  *)
(*                                                                         *)
(* The writer is external: it follows the format, and is modelled by what  *)
(* collect_replay_chain relies on.                                         *)
(***************************************************************************)
EXTENDS LogRegion, Durability

CONSTANTS
  Lengths,        \* how many sectors an entry may take
  ZERO_CHUNK,     \* how many sectors one write of write_zeros covers
  MaxSeq,         \* bound: entries the writer appends
  EraseCrashes    \* FALSE: power holds out while the region is being erased

ASSUME ReplayAssumption ==
  /\ Lengths \subseteq 1 .. NSectors
  /\ ZERO_CHUNK \in Nat \ {0}
  /\ MaxSeq \in Nat
  /\ EraseCrashes \in BOOLEAN

VARIABLES
  region, regionMay,   \* the log region: as read now, as a crash may leave it
  place, placeMay,     \* the target sectors
  guid, guidMay,       \* header.log_guid
  phase,
  wpos, wseq,          \* the writer: where and with what it appends next
  live,                \* its entries from the last committed one's tail on
  nApplied,            \* how many of them it has applied
  append,              \* the entry it is appending, if any
  committed,           \* per target: the value a reader must be given
  budget, exhausted,   \* discover: checksum budget, and whether it ran out
  found,               \* the offsets of the entries it accepted
  chain, idx           \* the chain; the offset or the entry that is next

fileVars == <<region, regionMay, place, placeMay, guid, guidMay>>
writerVars == <<wpos, wseq, live, nApplied, append>>
scanVars == <<budget, exhausted, found>>
vars == <<fileVars, phase, writerVars, committed, scanVars, chain, idx>>

Torn == 0 - 1
Values == Torn .. MaxSeq

-----------------------------------------------------------------------------
(* The device: writes reach the cache, a flush makes them last.            *)
WriteRegion(new) ==
  /\ region' = [p \in Positions |-> IF p \in DOMAIN new THEN new[p] ELSE region[p]]
  /\ regionMay' = [p \in Positions |->
                     IF p \in DOMAIN new THEN regionMay[p] \cup {new[p]} ELSE regionMay[p]]
  /\ UNCHANGED <<place, placeMay, guid, guidMay>>

WritePlace(t, v) ==
  /\ place' = [place EXCEPT ![t] = v]
  /\ placeMay' = [placeMay EXCEPT ![t] = @ \cup {v, Torn}]
  /\ UNCHANGED <<region, regionMay, guid, guidMay>>

FlushAll ==
  /\ regionMay' = [p \in Positions |-> {region[p]}]
  /\ placeMay' = [t \in Targets |-> {place[t]}]
  /\ guidMay' = {guid}
  /\ UNCHANGED <<region, place, guid>>

-----------------------------------------------------------------------------
(* The writer.                                                             *)
Slot == [pos : Positions, e : LogEntry]
NoSlot == [pos |-> 0 - 1]
Used == IF live = << >> THEN 0 ELSE 1 + From(After(live[1].pos, 1), wpos)
NotApplied == SubSeq(live, nApplied + 1, Len(live))

(* An entry goes where the last one ended, if that leaves everything from  *)
(* the last committed tail on (Used).  Its own tail is the oldest entry    *)
(* the writer has yet to apply.                                            *)
AppendEntry(t, n) ==
  /\ phase = "write"
  /\ wseq < MaxSeq
  /\ Used + n <= NSectors
  /\ LET tail == IF NotApplied = << >> THEN wpos ELSE NotApplied[1].pos
         e == [guid |-> "ours", seq |-> wseq + 1, len |-> n, tail |-> tail, target |-> t]
     IN  /\ WriteRegion([p \in {After(wpos, k) : k \in 0 .. n - 1} |->
                           Part(e, From(wpos, p))])
         /\ append' = [pos |-> wpos, e |-> e]
  /\ phase' = "append"
  /\ UNCHANGED <<wpos, wseq, live, nApplied, committed, scanVars, chain, idx>>

CommitEntry ==
  /\ phase = "append"
  /\ FlushAll
  /\ committed' = [committed EXCEPT ![append.e.target] = append.e.seq]
  /\ live' = Append(NotApplied, append)
  /\ nApplied' = 0
  /\ wpos' = After(wpos, append.e.len)
  /\ wseq' = append.e.seq
  /\ append' = NoSlot
  /\ phase' = "write"
  /\ UNCHANGED <<scanVars, chain, idx>>

WriteBack ==
  /\ phase = "write"
  /\ NotApplied # << >>
  /\ WritePlace(NotApplied[1].e.target, NotApplied[1].e.seq)
  /\ phase' = "writeBack"
  /\ UNCHANGED <<writerVars, committed, scanVars, chain, idx>>

WriteBackFlush ==
  /\ phase = "writeBack"
  /\ FlushAll
  /\ nApplied' = nApplied + 1
  /\ phase' = "write"
  /\ UNCHANGED <<wpos, wseq, live, append, committed, scanVars, chain, idx>>

-----------------------------------------------------------------------------
(* open_inner, steps 3 and 4c: collect_replay_chain reads the region, if   *)
(* the header names a log, and begins to probe it.                         *)
CollectChain ==
  /\ phase = "closed"
  /\ phase' = IF guid = "none" THEN "open" ELSE "probe"
  /\ budget' = NSectors * DISCOVERY_CHECKSUM_PASSES
  /\ UNCHANGED <<fileVars, writerVars, committed, exhausted, found, chain, idx>>

(* discover, one slot: an entry is stepped over whole, a refused slot by   *)
(* one sector, and a slot that claims more than the budget is refused      *)
(* without being examined.                                                 *)
Probe ==
  /\ phase = "probe"
  /\ idx < NSectors
  /\ LET entry == region[idx].entry
         offered == HasSignature(region, idx) /\ Ours(region, idx, guid)
         charged == offered /\ entry.len <= budget
         accepted == charged /\ Intact(region, idx)
     IN  /\ budget' = IF charged THEN budget - entry.len ELSE budget
         /\ exhausted' = (exhausted \/ (offered /\ ~charged))
         /\ found' = IF accepted THEN found \cup {idx} ELSE found
         /\ idx' = IF accepted THEN idx + entry.len ELSE idx + 1
  /\ UNCHANGED <<fileVars, phase, writerVars, committed, chain>>

(* The two refusals of collect_replay_chain, the log with nothing in it,   *)
(* and passes 2 and 3 of select_chain.                                     *)
SelectChain ==
  /\ phase = "probe"
  /\ idx >= NSectors
  /\ LET start == StartOf(region, found) IN
     /\ phase' = IF exhausted THEN "refused"            \* Corrupt
                 ELSE IF found = {} THEN "open"
                 ELSE IF start \notin found THEN "refused"    \* LogUnassembled
                 ELSE "walk"
     /\ idx' = IF phase' = "walk" THEN start ELSE 0
     /\ found' = IF phase' = "walk" THEN found ELSE {}
  /\ budget' = 0
  /\ exhausted' = FALSE
  /\ UNCHANGED <<fileVars, writerVars, committed, chain>>

(* Pass 4: each entry right after its predecessor, round the end of the    *)
(* region, with exactly the next sequence number.                          *)
WalkChain ==
  /\ phase = "walk"
  /\ LET entry == region[idx].entry IN
     IF idx \in found /\ (chain # << >> => entry.seq = chain[Len(chain)].seq + 1)
     THEN /\ chain' = Append(chain, entry)
          /\ idx' = After(idx, entry.len)
          /\ UNCHANGED <<phase, found>>
     ELSE /\ phase' = IF chain = << >> THEN "open" ELSE "apply"
          /\ idx' = 1
          /\ found' = {}
          /\ UNCHANGED chain
  /\ UNCHANGED <<fileVars, writerVars, committed, budget, exhausted>>

(* apply_chain: an entry's descriptors, then a flush, entry by entry.      *)
ApplyEntry ==
  /\ phase = "apply"
  /\ WritePlace(chain[idx].target, chain[idx].seq)
  /\ phase' = "applyFlush"
  /\ UNCHANGED <<writerVars, committed, scanVars, chain, idx>>

ApplyFlush ==
  /\ phase = "applyFlush"
  /\ FlushAll
  /\ idx' = IF idx = Len(chain) THEN 0 ELSE idx + 1
  /\ phase' = IF idx = Len(chain) THEN "erase" ELSE "apply"
  /\ UNCHANGED <<writerVars, committed, scanVars, chain>>

(* zero_log_region: write_zeros in chunks from the start, then a flush.    *)
EraseChunk ==
  /\ phase = "erase"
  /\ WriteRegion([p \in idx .. idx + ZERO_CHUNK - 1 |-> Blank])
  /\ idx' = idx + ZERO_CHUNK
  /\ phase' = IF idx + ZERO_CHUNK < NSectors THEN "erase" ELSE "eraseFlush"
  /\ UNCHANGED <<writerVars, committed, scanVars, chain>>

EraseFlush ==
  /\ phase = "eraseFlush"
  /\ FlushAll
  /\ phase' = "clear"
  /\ UNCHANGED <<writerVars, committed, scanVars, chain, idx>>

(* rewrite_header_clear_log, into the other slot: until the flush a crash  *)
(* leaves the old header current, or the new one.                          *)
ClearGuid ==
  /\ phase = "clear"
  /\ guid' = "none"
  /\ guidMay' = guidMay \cup {"none"}
  /\ phase' = "clearFlush"
  /\ UNCHANGED <<region, regionMay, place, placeMay, writerVars, committed, scanVars, chain, idx>>

ClearFlush ==
  /\ phase = "clearFlush"
  /\ FlushAll
  /\ phase' = "open"
  /\ UNCHANGED <<writerVars, committed, scanVars, chain, idx>>

(* The reader is dropped: what it showed its client is what later readers  *)
(* must show.  An open that was refused may be tried again.                *)
Close ==
  /\ phase \in {"open", "refused"}
  /\ phase' = "closed"
  /\ committed' = IF phase = "open" THEN place ELSE committed
  /\ append' = IF phase = "open" THEN NoSlot ELSE append
  /\ chain' = << >>
  /\ idx' = 0
  /\ UNCHANGED <<fileVars, wpos, wseq, live, nApplied, scanVars>>

Crash ==
  /\ phase \notin {"closed", "refused", "open"}
  /\ phase \in {"erase", "eraseFlush"} => EraseCrashes
  /\ region' \in Survivors(region, regionMay)
  /\ regionMay' = [p \in Positions |-> {region'[p]}]
  /\ place' \in Survivors(place, placeMay)
  /\ placeMay' = [t \in Targets |-> {place'[t]}]
  /\ guid' \in guidMay
  /\ guidMay' = {guid'}
  /\ phase' = "closed"
  /\ budget' = 0 /\ exhausted' = FALSE /\ found' = {}
  /\ chain' = << >>
  /\ idx' = 0
  /\ UNCHANGED <<writerVars, committed>>

-----------------------------------------------------------------------------
(* A region nobody used, or one where a whole entry of some earlier log    *)
(* GUID lies; the writer has stamped its own GUID in the header.           *)
Stale(t) == [guid |-> "other", seq |-> MaxSeq + 1, len |-> NSectors, tail |-> 0, target |-> t]
Init ==
  /\ \/ region = [p \in Positions |-> Blank]
     \/ \E t \in Targets : region = [p \in Positions |-> Part(Stale(t), p)]
  /\ regionMay = [p \in Positions |-> {region[p]}]
  /\ place = [t \in Targets |-> 0]
  /\ placeMay = [t \in Targets |-> {0}]
  /\ guid = "ours"
  /\ guidMay = {"ours"}
  /\ phase = "write"
  /\ wpos \in Positions
  /\ wseq = 0
  /\ live = << >>
  /\ nApplied = 0
  /\ append = NoSlot
  /\ committed = [t \in Targets |-> 0]
  /\ budget = 0 /\ exhausted = FALSE /\ found = {}
  /\ chain = << >>
  /\ idx = 0

Writer ==
  \/ \E t \in Targets, n \in Lengths : AppendEntry(t, n)
  \/ CommitEntry \/ WriteBack \/ WriteBackFlush
Opener ==
  \/ CollectChain \/ Probe \/ SelectChain \/ WalkChain
  \/ ApplyEntry \/ ApplyFlush \/ EraseChunk \/ EraseFlush \/ ClearGuid \/ ClearFlush
Next == Writer \/ Opener \/ Close \/ Crash
Spec == Init /\ [][Next]_vars

-----------------------------------------------------------------------------
Sectors == {Blank} \cup [part : Nat, entry : LogEntry]

(* Every variable has the type of what it stands for. *)
LogTypeOK ==
  /\ region \in [Positions -> Sectors]
  /\ regionMay \in [Positions -> SUBSET Sectors]
  /\ place \in [Targets -> Values]
  /\ placeMay \in [Targets -> SUBSET Values]
  /\ guid \in LogGuids /\ guidMay \subseteq LogGuids
  /\ phase \in {"write", "append", "writeBack", "closed", "refused", "probe", "walk", "apply", "applyFlush",
                "erase", "eraseFlush", "clear", "clearFlush", "open"}
  /\ wpos \in Positions /\ wseq \in 0 .. MaxSeq
  /\ live \in Seq(Slot) /\ nApplied \in 0 .. Len(live)
  /\ append \in Slot \cup {NoSlot}
  /\ committed \in [Targets -> Values]
  /\ budget \in Nat /\ exhausted \in BOOLEAN /\ found \subseteq Positions
  /\ chain \in Seq(LogEntry)
  /\ idx \in Nat

(* A reader that is handed out shows every entry that was committed, and   *)
(* an entry whose append was cut off whole or not at all: however often    *)
(* the open itself was cut off before (collect_replay_chain, apply_chain   *)
(* and its flush per entry, the erase and the header rewrite).             *)
RecoversCommitted ==
  phase = "open" =>
    \A t \in Targets :
      \/ place[t] = committed[t]
      \/ append # NoSlot /\ append.e.target = t /\ place[t] = append.e.seq

(* A log some writer left, cut off at any point, is never turned away: the *)
(* head's tail names an entry that is found, and the checksum budget of    *)
(* discover is enough.                                                     *)
OpenNeverRefuses == phase # "refused"

(* The chain that is applied is exactly what the writer had committed and  *)
(* not let go of, in order, with the entry that was being appended if all  *)
(* of it landed: no entry of an earlier lap and none of another GUID.      *)
Entries(es) == [i \in 1 .. Len(es) |-> es[i].e]
ChainIsLive ==
  phase = "apply" =>
    \/ chain = Entries(live)
    \/ append # NoSlot /\ chain = Entries(Append(NotApplied, append))
=============================================================================

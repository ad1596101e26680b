-------------------------- MODULE LogReplayProofs ---------------------------
(***************************************************************************)
(* What another implementation left in its log is found, and replayed: for *)
(* every length of the region and of the entries, however often the        *)
(* replay is cut off.                                                      *)
(***************************************************************************)
EXTENDS LogReplay, DivisionProofs, SequenceTheorems

(* A sector that begins an entry of this log. *)
IsHead(c) == c.part = 0 /\ c.entry.guid = "ours"
Whole(p) == IsHead(region[p]) /\ Intact(region, p)

(* The file: a read sees what a crash may leave, and what the log would    *)
(* write is a value.                                                       *)
FileHolds ==
  /\ region \in [Positions -> Sectors] /\ regionMay \in [Positions -> SUBSET Sectors]
  /\ \A p \in Positions :
       region[p] \in regionMay[p] /\ \A c \in regionMay[p] : IsHead(c) => c.entry.seq \in 1 .. MaxSeq
  /\ place \in [Targets -> Values] /\ placeMay \in [Targets -> SUBSET Values]
  /\ \A t \in Targets : place[t] \in placeMay[t]
  /\ guid \in guidMay /\ guidMay \subseteq {"ours", "none"}

(* The locals, phase by phase. *)
ScanHolds ==
  /\ append # NoSlot => append.e.seq \in 1 .. MaxSeq
  /\ \A i \in 1 .. Len(live) : live[i].e.seq \in 1 .. MaxSeq
  /\ \A i \in 1 .. Len(chain) : chain[i].seq \in 1 .. MaxSeq
  /\ \A p \in found : IsHead(region[p])
  /\ phase = "append" => append # NoSlot
  /\ phase = "probe" => guid = "ours"
  /\ phase \in {"write", "append", "writeBack", "closed", "probe"} => chain = << >>
  /\ phase \notin {"probe", "walk"} => found = {}
  /\ phase # "probe" => exhausted = FALSE
  /\ phase = "writeBack" => nApplied < Len(live)
  /\ phase \in {"closed", "refused"} => idx = 0
  /\ phase = "walk" => idx \in Positions
  /\ phase \in {"apply", "applyFlush"} => idx \in 1 .. Len(chain)
TypeInv == LogTypeOK /\ FileHolds /\ ScanHolds

-----------------------------------------------------------------------------
(* The writer's entries lie one after the other, and the next one has room. *)
Place(i) == From(live[1].pos, live[i].pos)
LayoutHolds ==
  /\ wseq >= Len(live) /\ (live = << >> => wseq = 0)
  /\ live # << >> =>
       /\ wpos = After(live[Len(live)].pos, live[Len(live)].e.len)
       /\ live[Len(live)].e.tail = live[1].pos
  /\ \A i \in 1 .. Len(live) :
       /\ live[i].e.guid = "ours" /\ live[i].e.seq = wseq - Len(live) + i
       /\ Place(i) + live[i].e.len <= Used
       /\ \A j \in 1 .. i : Place(j) <= Place(i)
       /\ i < Len(live) => live[i + 1].pos = After(live[i].pos, live[i].e.len)
  /\ append # NoSlot =>
       /\ append.pos = wpos /\ append.e.guid = "ours" /\ append.e.seq = wseq + 1
       /\ Used + append.e.len <= NSectors
       /\ append.e.tail = IF NotApplied = << >> THEN wpos ELSE NotApplied[1].pos

(* What a crash may leave of the region: the live entries, and heads that   *)
(* are theirs, the appended entry's, or those of older entries that only    *)
(* the append may have broken.                                              *)
Appended(q) ==
  IF append # NoSlot /\ From(append.pos, q) < append.e.len
  THEN {Part(append.e, From(append.pos, q))} ELSE {}
LiveStored ==
  \A i \in 1 .. Len(live) : \A k \in 0 .. live[i].e.len - 1 :
    regionMay[After(live[i].pos, k)] = {Part(live[i].e, k)}
HeadsKnown ==
  \A p \in Positions : \A c \in regionMay[p] : IsHead(c) =>
    \/ \E i \in 1 .. Len(live) : p = live[i].pos /\ c.entry = live[i].e
    \/ append # NoSlot /\ p = append.pos /\ c.entry = append.e
    \/ /\ c.entry.seq <= wseq - Len(live)
       /\ \A k \in 0 .. c.entry.len - 1 :
            regionMay[After(p, k)] \subseteq {Part(c.entry, k)} \cup Appended(After(p, k))
LastHolds ==
  \A i \in 1 .. Len(live) :
    (\A j \in i + 1 .. Len(live) : live[j].e.target # live[i].e.target) =>
      committed[live[i].e.target] = live[i].e.seq
Standing == guidMay = {"ours"} /\ LiveStored /\ HeadsKnown /\ LastHolds

(* The chain there is to find. *)
Landed == append # NoSlot /\ \A k \in 0 .. append.e.len - 1 :
                               region[After(append.pos, k)] = Part(append.e, k)
Active == IF Landed THEN Append(NotApplied, append) ELSE live

(* Of the targets no entry in question writes. *)
Kept(t) == place[t] = committed[t] /\ placeMay[t] = {committed[t]}
OthersKept(es) == \A t \in Targets : (\A i \in 1 .. Len(es) : es[i].e.target # t) => Kept(t)

(* Everything there was to replay has been, or there is nothing. *)
Recovered ==
  \A t \in Targets :
    /\ placeMay[t] = {place[t]}
    /\ \/ place[t] = committed[t]
       \/ append # NoSlot /\ append.e.target = t /\ place[t] = append.e.seq
Spent ==
  Recovered /\ \A p \in Positions : IsHead(region[p]) => p = wpos /\ ~Intact(region, p)

WritingHolds ==
  phase \in {"write", "append", "writeBack"} =>
    /\ Standing /\ OthersKept(NotApplied)
    /\ phase # "append" => append = NoSlot
    /\ phase = "append" => Landed
    /\ phase = "writeBack" =>
         NotApplied # << >> /\ place[NotApplied[1].e.target] = NotApplied[1].e.seq

(* Discovery has found what there is, and spent no more than two regions   *)
(* and what the head of a cut-off append claims.                           *)
ProbeHolds ==
  LET spent == NSectors * 4 - budget
      odd == IF wpos < idx THEN NSectors ELSE 0
  IN  /\ exhausted = FALSE
      /\ found = {p \in Positions : p < idx /\ Whole(p)}
      /\ spent \in 0 .. 2 * NSectors + odd
      /\ \A q \in Positions : q >= idx /\ q # wpos /\ IsHead(region[q]) => spent <= q + odd
WalkHolds ==
  /\ found = {p \in Positions : Whole(p)}
  /\ Active # << >> /\ Len(chain) <= Len(Active)
  /\ \A i \in 1 .. Len(chain) : chain[i] = Active[i].e
  /\ idx = IF Len(chain) < Len(Active) THEN Active[Len(chain) + 1].pos
           ELSE After(Active[Len(Active)].pos, Active[Len(Active)].e.len)

(* Each target holds what the last of the first n entries wrote there. *)
Reached(n) ==
  \A t \in Targets :
    \/ \A i \in 1 .. n : Active[i].e.target # t
    \/ \E i \in 1 .. n : /\ Active[i].e.target = t /\ place[t] = Active[i].e.seq
                         /\ \A j \in i + 1 .. n : Active[j].e.target # t
ReplayHolds ==
  /\ phase \in {"closed", "refused", "probe"} => (Standing /\ OthersKept(Active)) \/ Spent
  /\ phase \in {"walk", "apply", "applyFlush"} => Standing /\ OthersKept(Active)
  /\ phase = "open" => Spent
  /\ phase \in {"closed", "refused", "probe", "walk", "apply", "applyFlush", "open"} =>
       \A p \in Positions : regionMay[p] = {region[p]}
  /\ phase = "probe" => ProbeHolds
  /\ phase = "walk" => WalkHolds
  /\ phase \in {"apply", "applyFlush"} => chain = Entries(Active)
  /\ phase = "apply" => Reached(idx - 1)
  /\ phase = "applyFlush" => Reached(idx)
  /\ phase \in {"erase", "eraseFlush", "clear", "clearFlush"} => Recovered
  /\ phase = "erase" => \A p \in Positions : p < idx => region[p] = Blank
  /\ phase = "eraseFlush" => \A p \in Positions : region[p] = Blank
  /\ phase \in {"clear", "clearFlush"} => \A p \in Positions : regionMay[p] = {Blank}

RecoveryInv == LayoutHolds /\ WritingHolds /\ ReplayHolds /\ OpenNeverRefuses

-----------------------------------------------------------------------------
(* The region is a ring: a step leads on, or round its end. *)
LEMMA AfterIs ==
  ASSUME NEW p \in Positions, NEW k \in 0 .. NSectors
  PROVE  /\ After(p, k) = IF p + k < NSectors THEN p + k ELSE p + k - NSectors
         /\ After(p, k) \in Positions
<1>1. NSectors \in Nat \ {0} /\ p \in Nat /\ k \in Nat /\ p < NSectors /\ k <= NSectors
  BY RegionAssumption DEF Positions
<1>2. CASE p + k < NSectors
  <2>1. p + k \in 0 .. NSectors - 1 /\ p + k = NSectors * 0 + (p + k) /\ p + k \in Nat
    BY <1>1, <1>2
  <2>2. (p + k) % NSectors = p + k
    BY <1>1, <2>1, DivModUnique
  <2> QED
    BY <1>2, <2>1, <2>2 DEF After, Positions
<1>3. CASE ~(p + k < NSectors)
  <2>1. /\ p + k - NSectors \in 0 .. NSectors - 1 /\ p + k \in Nat
        /\ p + k = NSectors * 1 + (p + k - NSectors)
    BY <1>1, <1>3
  <2>2. (p + k) % NSectors = p + k - NSectors
    BY <1>1, <2>1, DivModUnique
  <2> QED
    BY <1>3, <2>1, <2>2 DEF After, Positions
<1> QED
  BY <1>2, <1>3

(* How far one sector is from another. *)
LEMMA FromIs ==
  ASSUME NEW p \in Positions, NEW q \in Positions
  PROVE  /\ From(p, q) = IF q >= p THEN q - p ELSE q - p + NSectors
         /\ From(p, q) \in 0 .. NSectors - 1
<1>1. NSectors \in Nat \ {0} /\ p \in Nat /\ q \in Nat /\ p < NSectors /\ q < NSectors
  BY RegionAssumption DEF Positions
<1>2. CASE q >= p
  <2>1. /\ q - p \in 0 .. NSectors - 1 /\ q + NSectors - p \in Nat
        /\ q + NSectors - p = NSectors * 1 + (q - p)
    BY <1>1, <1>2
  <2>2. (q + NSectors - p) % NSectors = q - p
    BY <1>1, <2>1, DivModUnique
  <2> QED
    BY <1>2, <2>1, <2>2 DEF From
<1>3. CASE ~(q >= p)
  <2>1. /\ q - p + NSectors \in 0 .. NSectors - 1 /\ q + NSectors - p \in Nat
        /\ q + NSectors - p = NSectors * 0 + (q - p + NSectors)
    BY <1>1, <1>3
  <2>2. (q + NSectors - p) % NSectors = q - p + NSectors
    BY <1>1, <2>1, DivModUnique
  <2> QED
    BY <1>3, <2>1, <2>2 DEF From
<1> QED
  BY <1>2, <1>3

(* Going as far as a sector is leads to it, and nowhere else does. *)
LEMMA RingIs ==
  ASSUME NEW p \in Positions, NEW q \in Positions, NEW k \in 0 .. NSectors - 1
  PROVE  /\ After(p, From(p, q)) = q
         /\ From(p, After(p, k)) = k
         /\ From(p, q) = 0 => p = q
<1>1. NSectors \in Nat \ {0} /\ p \in Nat /\ q \in Nat /\ p < NSectors /\ q < NSectors
      /\ k \in 0 .. NSectors
  BY RegionAssumption DEF Positions
<1>2. From(p, q) \in 0 .. NSectors
      /\ From(p, q) = IF q >= p THEN q - p ELSE q - p + NSectors
  BY <1>1, FromIs
<1>3. After(p, From(p, q)) = q
  <2> DEFINE d == From(p, q)
  <2> HIDE DEF d
  <2>1. d \in 0 .. NSectors /\ d = IF q >= p THEN q - p ELSE q - p + NSectors
    BY <1>2 DEF d
  <2>2. After(p, d) = IF p + d < NSectors THEN p + d ELSE p + d - NSectors
    BY <2>1, AfterIs
  <2>3. After(p, d) = q
    BY <1>1, <2>1, <2>2
  <2> QED
    BY <2>3 DEF d
<1>4. From(p, After(p, k)) = k
  <2> DEFINE a == After(p, k)
  <2> HIDE DEF a
  <2>1. a \in Positions /\ a = IF p + k < NSectors THEN p + k ELSE p + k - NSectors
    BY <1>1, AfterIs DEF a
  <2>2. From(p, a) = IF a >= p THEN a - p ELSE a - p + NSectors
    BY <2>1, FromIs
  <2>3. From(p, a) = k
    BY <1>1, <2>1, <2>2
  <2> QED
    BY <2>3 DEF a
<1>5. From(p, q) = 0 => p = q
  BY <1>1, <1>2
<1> QED
  BY <1>3, <1>4, <1>5

(* An entry, a slot of the log, and their sectors. *)
LEMMA SlotIs ==
  ASSUME NEW s \in Slot
  PROVE  /\ s.pos \in Positions /\ s.e \in LogEntry /\ s.e.len \in 1 .. NSectors
         /\ s.e.seq \in Nat /\ s.e.target \in Targets /\ s.e.tail \in Positions /\ s # NoSlot
BY DEF Slot, LogEntry, NoSlot, Positions

(* A sector of an entry is a sector, and not an empty one. *)
LEMMA PartIs ==
  ASSUME NEW e \in LogEntry, NEW k \in Nat
  PROVE  /\ Part(e, k) \in Sectors /\ Part(e, k) # Blank
         /\ Part(e, k).part = k /\ Part(e, k).entry = e
BY DEF Part, Sectors, Blank

(* An empty sector begins nothing. *)
LEMMA BlankIs == Blank \in Sectors /\ ~IsHead(Blank)
BY DEF Blank, Sectors, IsHead

(* A sector that begins an entry has one. *)
LEMMA HeadIs ==
  ASSUME NEW c \in Sectors, IsHead(c)
  PROVE  /\ c.entry \in LogEntry /\ c.entry.len \in 1 .. NSectors /\ c.entry.seq \in Nat
         /\ c.entry.tail \in Positions /\ c.entry.target \in Targets /\ c = Part(c.entry, 0)
<1>1. c # Blank
  BY BlankIs
<1>2. c \in [part : Nat, entry : LogEntry]
  BY <1>1 DEF Sectors
<1> QED
  BY <1>2 DEF IsHead, Part, LogEntry

(* What a crash leaves is one of the contents it may leave. *)
LEMMA SurvivorIs ==
  ASSUME NEW view, NEW may, \A x \in DOMAIN view : view[x] \in may[x],
         NEW w \in Survivors(view, may)
  PROVE  /\ DOMAIN w = DOMAIN view /\ w = [x \in DOMAIN view |-> w[x]]
         /\ \A x \in DOMAIN view : w[x] \in may[x]
<1> DEFINE unsure == {x \in DOMAIN view : may[x] # {view[x]}}
           picks == {f \in [unsure -> UNION {may[x] : x \in unsure}] :
                       \A x \in unsure : f[x] \in may[x]}
<1>1. PICK f \in picks : w = [x \in DOMAIN view |-> IF x \in unsure THEN f[x] ELSE view[x]]
  BY DEF Survivors
<1>2. \A x \in unsure : f[x] \in may[x]
  OBVIOUS
<1> HIDE DEF unsure, picks
<1> QED
  BY <1>1, <1>2

(* What is left of a sequence of entries without the first a. *)
LEMMA DropIs ==
  ASSUME NEW s \in Seq(Slot), NEW a \in 0 .. Len(s), NEW r, r = SubSeq(s, a + 1, Len(s))
  PROVE  /\ r \in Seq(Slot) /\ Len(r) = Len(s) - a
         /\ \A i \in 1 .. Len(s) - a : r[i] = s[a + i] /\ a + i \in 1 .. Len(s)
         /\ r = << >> <=> a = Len(s)
         /\ Len(s) \in Nat /\ a \in Nat
         /\ \A i \in 1 .. Len(s) : s[i] \in Slot
<1>1. Len(s) \in Nat /\ a \in Nat /\ a <= Len(s)
      /\ \A i \in 1 .. Len(s) : s[i] \in Slot
  BY LenProperties, ElementOfSeq
<1> DEFINE m == a + 1  n == Len(s)
<1>2. \A i \in m .. n : s[i] \in Slot
  BY <1>1
<1>3. m \in Int /\ n \in Int
  BY <1>1
<1> HIDE DEF m, n
<1>4. /\ SubSeq(s, m, n) \in Seq(Slot)
      /\ Len(SubSeq(s, m, n)) = IF m <= n THEN n - m + 1 ELSE 0
      /\ \A i \in 1 .. n - m + 1 : SubSeq(s, m, n)[i] = s[m + i - 1]
  BY <1>2, <1>3, SubSeqProperties
<1>5. r = SubSeq(s, m, n)
  BY DEF m, n
<1>6. Len(r) = Len(s) - a
  BY <1>1, <1>4, <1>5 DEF m, n
<1>7. \A i \in 1 .. Len(s) - a : r[i] = s[a + i] /\ a + i \in 1 .. Len(s)
  <2> TAKE i \in 1 .. Len(s) - a
  <2>1. i \in 1 .. n - m + 1 /\ m + i - 1 = a + i /\ a + i \in 1 .. Len(s)
    BY <1>1 DEF m, n
  <2> QED
    BY <1>4, <1>5, <2>1
<1>8. r = << >> <=> a = Len(s)
  BY <1>1, <1>4, <1>5, <1>6, EmptySeq
<1> QED
  BY <1>1, <1>4, <1>5, <1>6, <1>7, <1>8

(* The entries the writer has not applied. *)
LEMMA NotAppliedIs ==
  ASSUME live \in Seq(Slot), nApplied \in 0 .. Len(live)
  PROVE  /\ NotApplied \in Seq(Slot) /\ Len(NotApplied) = Len(live) - nApplied
         /\ \A i \in 1 .. Len(live) - nApplied :
              NotApplied[i] = live[nApplied + i] /\ nApplied + i \in 1 .. Len(live)
         /\ NotApplied = << >> <=> nApplied = Len(live)
         /\ Len(live) \in Nat /\ nApplied \in Nat
         /\ \A i \in 1 .. Len(live) : live[i] \in Slot
BY DropIs DEF NotApplied

-----------------------------------------------------------------------------
(* Writing sectors of the log region. *)
LEMMA RegionWritten ==
  ASSUME FileHolds, NEW new, WriteRegion(new),
         \A p \in DOMAIN new \cap Positions :
           new[p] \in Sectors /\ (IsHead(new[p]) => new[p].entry.seq \in 1 .. MaxSeq)
  PROVE  FileHolds'
<1>1. \A p \in Positions : /\ region'[p] = IF p \in DOMAIN new THEN new[p] ELSE region[p]
                           /\ regionMay'[p] = IF p \in DOMAIN new THEN regionMay[p] \cup {new[p]}
                                              ELSE regionMay[p]
  BY DEF WriteRegion
<1>2. region' \in [Positions -> Sectors] /\ regionMay' \in [Positions -> SUBSET Sectors]
  BY DEF WriteRegion, FileHolds
<1>3. ASSUME NEW p \in Positions
      PROVE  region'[p] \in regionMay'[p] /\ \A c \in regionMay'[p] : IsHead(c) => c.entry.seq \in 1 .. MaxSeq
  <2>1. region[p] \in regionMay[p] /\ \A c \in regionMay[p] : IsHead(c) => c.entry.seq \in 1 .. MaxSeq
    BY <1>3 DEF FileHolds
  <2>2. CASE p \in DOMAIN new
    BY <1>1, <1>3, <2>1, <2>2
  <2>3. CASE p \notin DOMAIN new
    BY <1>1, <1>3, <2>1, <2>3
  <2> QED
    BY <2>2, <2>3
<1> QED
  BY <1>2, <1>3 DEF FileHolds, WriteRegion

(* Writing a target sector. *)
LEMMA PlaceWritten ==
  ASSUME FileHolds, NEW t \in Targets, NEW v \in Values, WritePlace(t, v)
  PROVE  /\ FileHolds' /\ place'[t] = v
         /\ \A u \in Targets : u # t => place'[u] = place[u] /\ placeMay'[u] = placeMay[u]
<1>1. Torn \in Values
  BY ReplayAssumption DEF Torn, Values
<1> QED
  BY <1>1 DEF FileHolds, WritePlace

(* A flush leaves nothing to chance. *)
LEMMA FileFlushed ==
  ASSUME FileHolds, FlushAll
  PROVE  /\ FileHolds' /\ region' = region /\ place' = place /\ guid' = guid
         /\ \A p \in Positions : regionMay'[p] = {region[p]} /\ regionMay'[p] \subseteq regionMay[p]
         /\ \A t \in Targets : placeMay'[t] = {place[t]} /\ placeMay'[t] \subseteq placeMay[t]
         /\ guidMay' = {guid} /\ guidMay' \subseteq guidMay
BY DEF FileHolds, FlushAll

(* Nor does a power loss, of what it might leave. *)
LEMMA FileLost ==
  ASSUME FileHolds, Crash
  PROVE  /\ FileHolds'
         /\ \A p \in Positions : region'[p] \in regionMay[p] /\ regionMay'[p] = {region'[p]}
         /\ \A t \in Targets : place'[t] \in placeMay[t] /\ placeMay'[t] = {place'[t]}
         /\ guid' \in guidMay /\ guidMay' = {guid'}
<1>1. /\ region' \in Survivors(region, regionMay) /\ regionMay' = [p \in Positions |-> {region'[p]}]
      /\ place' \in Survivors(place, placeMay) /\ placeMay' = [t \in Targets |-> {place'[t]}]
      /\ guid' \in guidMay /\ guidMay' = {guid'}
  BY DEF Crash
<1>2. /\ DOMAIN region = Positions /\ DOMAIN place = Targets
      /\ \A p \in Positions : region[p] \in regionMay[p]
      /\ \A t \in Targets : place[t] \in placeMay[t]
  BY DEF FileHolds
<1>3. /\ DOMAIN region' = Positions /\ region' = [p \in Positions |-> region'[p]]
      /\ \A p \in Positions : region'[p] \in regionMay[p]
  BY <1>1, <1>2, SurvivorIs
<1>4. /\ DOMAIN place' = Targets /\ place' = [t \in Targets |-> place'[t]]
      /\ \A t \in Targets : place'[t] \in placeMay[t]
  BY <1>1, <1>2, SurvivorIs
<1>5. region' \in [Positions -> Sectors] /\ place' \in [Targets -> Values]
  BY <1>3, <1>4 DEF FileHolds
<1>6. \A p \in Positions : /\ region'[p] \in regionMay[p] /\ regionMay'[p] = {region'[p]}
                           /\ region'[p] \in Sectors
  BY <1>1, <1>3, <1>5
<1>7. \A t \in Targets : place'[t] \in placeMay[t] /\ placeMay'[t] = {place'[t]} /\ place'[t] \in Values
  BY <1>1, <1>4, <1>5
<1>8. regionMay' \in [Positions -> SUBSET Sectors] /\ placeMay' \in [Targets -> SUBSET Values]
  BY <1>1, <1>6, <1>7
<1>9. guid' \in guidMay' /\ guidMay' \subseteq {"ours", "none"}
  BY <1>1 DEF FileHolds
<1>10. \A p \in Positions : region'[p] \in regionMay'[p]
         /\ \A c \in regionMay'[p] : IsHead(c) => c.entry.seq \in 1 .. MaxSeq
  BY <1>6 DEF FileHolds
<1> QED
  BY <1>1, <1>5, <1>6, <1>7, <1>8, <1>9, <1>10 DEF FileHolds

(* The file does not change in a step that leaves it alone. *)
LEMMA FileKept ==
  ASSUME FileHolds, UNCHANGED fileVars
  PROVE  FileHolds'
BY DEF FileHolds, fileVars

(* The entry that is appended, and the sectors it goes to. *)
LEMMA AppendIs ==
  ASSUME TypeInv, NEW t \in Targets, NEW n \in Lengths, AppendEntry(t, n)
  PROVE  /\ append' \in Slot /\ append'.pos = wpos /\ wpos \in Positions
         /\ append'.e.seq = wseq + 1 /\ wseq + 1 \in 1 .. MaxSeq
         /\ append'.e.guid = "ours" /\ append'.e.len = n /\ append'.e.target = t
         /\ append'.e.tail = IF NotApplied = << >> THEN wpos ELSE NotApplied[1].pos
         /\ Used + n <= NSectors /\ n \in 1 .. NSectors
         /\ WriteRegion([p \in {After(wpos, k) : k \in 0 .. n - 1} |-> Part(append'.e, From(wpos, p))])
<1> DEFINE tail == IF NotApplied = << >> THEN wpos ELSE NotApplied[1].pos
           e == [guid |-> "ours", seq |-> wseq + 1, len |-> n, tail |-> tail, target |-> t]
<1>1. append' = [pos |-> wpos, e |-> e]
      /\ WriteRegion([p \in {After(wpos, k) : k \in 0 .. n - 1} |-> Part(e, From(wpos, p))])
      /\ Used + n <= NSectors /\ wseq < MaxSeq
  BY DEF AppendEntry
<1>2. n \in 1 .. NSectors /\ wpos \in Positions /\ wseq \in 0 .. MaxSeq /\ MaxSeq \in Nat
      /\ live \in Seq(Slot) /\ nApplied \in 0 .. Len(live)
  BY ReplayAssumption DEF TypeInv, LogTypeOK
<1>3. wseq + 1 \in 1 .. MaxSeq /\ wseq + 1 \in Nat
  BY <1>1, <1>2
<1>4. tail \in Positions
  <2>1. CASE NotApplied = << >>
    BY <1>2, <2>1
  <2>2. CASE NotApplied # << >>
    <3>1. NotApplied[1] \in Slot
      BY <1>2, <2>2, NotAppliedIs, EmptySeq, ElementOfSeq
    <3> QED
      BY <2>2, <3>1, SlotIs
  <2> QED
    BY <2>1, <2>2
<1>5. e \in LogEntry
  BY <1>2, <1>3, <1>4 DEF LogEntry, LogGuids
<1> HIDE DEF tail
<1>6. append' \in Slot /\ append'.e = e /\ append'.pos = wpos
  BY <1>1, <1>2, <1>5 DEF Slot
<1> QED
  BY <1>1, <1>2, <1>3, <1>6 DEF tail

(* What is written for an entry is its sectors. *)
LEMMA AppendedSectors ==
  ASSUME NEW s \in Slot, s.e.seq \in 1 .. MaxSeq, NEW new,
         new = [p \in {After(s.pos, k) : k \in 0 .. s.e.len - 1} |-> Part(s.e, From(s.pos, p))]
  PROVE  /\ DOMAIN new = {After(s.pos, k) : k \in 0 .. s.e.len - 1}
         /\ DOMAIN new \subseteq Positions
         /\ \A k \in 0 .. s.e.len - 1 : new[After(s.pos, k)] = Part(s.e, k)
         /\ \A p \in DOMAIN new : new[p] = Part(s.e, From(s.pos, p)) /\ new[p] \in Sectors
                                  /\ (IsHead(new[p]) => new[p].entry.seq \in 1 .. MaxSeq)
<1>1. s.pos \in Positions /\ s.e \in LogEntry /\ s.e.len \in 1 .. NSectors /\ NSectors \in Nat
  BY SlotIs, RegionAssumption
<1>2. \A k \in 0 .. s.e.len - 1 : k \in 0 .. NSectors - 1 /\ k \in 0 .. NSectors
  BY <1>1
<1>3. \A k \in 0 .. s.e.len - 1 : After(s.pos, k) \in Positions /\ From(s.pos, After(s.pos, k)) = k
  BY <1>1, <1>2, AfterIs, RingIs
<1>4. DOMAIN new \subseteq Positions
  BY <1>3
<1>5. \A p \in DOMAIN new : new[p] = Part(s.e, From(s.pos, p)) /\ From(s.pos, p) \in Nat
  BY <1>1, <1>4, FromIs
<1> QED
  BY <1>1, <1>3, <1>4, <1>5, PartIs

-----------------------------------------------------------------------------
(* Every step keeps the file in order. *)
LEMMA FileStep ==
  ASSUME TypeInv, [Next]_vars
  PROVE  FileHolds'
<1>1. /\ FileHolds /\ MaxSeq \in Nat /\ wseq \in 0 .. MaxSeq /\ wpos \in Positions
      /\ live \in Seq(Slot) /\ nApplied \in 0 .. Len(live) /\ chain \in Seq(LogEntry)
  BY ReplayAssumption DEF TypeInv, LogTypeOK
<1>2. \A v \in 1 .. MaxSeq : v \in Values
  BY <1>1 DEF Values, Torn
<1>3. ASSUME NEW t \in Targets, NEW n \in Lengths, AppendEntry(t, n) PROVE FileHolds'
  <2>1. /\ append' \in Slot /\ append'.pos = wpos /\ append'.e.seq \in 1 .. MaxSeq /\ append'.e.len = n
        /\ WriteRegion([p \in {After(wpos, k) : k \in 0 .. n - 1} |-> Part(append'.e, From(wpos, p))])
    BY <1>3, AppendIs
  <2> DEFINE new == [p \in {After(wpos, k) : k \in 0 .. n - 1} |-> Part(append'.e, From(wpos, p))]
  <2>2. new = [p \in {After(append'.pos, k) : k \in 0 .. append'.e.len - 1} |->
                 Part(append'.e, From(append'.pos, p))]
    BY <2>1
  <2> HIDE DEF new
  <2>3. \A p \in DOMAIN new : new[p] \in Sectors /\ (IsHead(new[p]) => new[p].entry.seq \in 1 .. MaxSeq)
    BY <2>1, <2>2, AppendedSectors
  <2>4. WriteRegion(new)
    BY <2>1 DEF new
  <2> QED
    BY <1>1, <2>3, <2>4, RegionWritten
<1>4. CASE CommitEntry \/ WriteBackFlush \/ ApplyFlush \/ EraseFlush \/ ClearFlush
  <2>1. FlushAll
    BY <1>4 DEF CommitEntry, WriteBackFlush, ApplyFlush, EraseFlush, ClearFlush
  <2> QED
    BY <1>1, <2>1, FileFlushed
<1>5. CASE WriteBack
  <2>1. NotApplied # << >> /\ WritePlace(NotApplied[1].e.target, NotApplied[1].e.seq)
    BY <1>5 DEF WriteBack
  <2>2. 1 \in 1 .. Len(live) - nApplied
    BY <1>1, <2>1, NotAppliedIs
  <2>3. NotApplied[1] = live[nApplied + 1] /\ nApplied + 1 \in 1 .. Len(live)
    BY <1>1, <2>2, NotAppliedIs
  <2>4. NotApplied[1] \in Slot /\ NotApplied[1].e.seq \in 1 .. MaxSeq
    BY <1>1, <2>3, ElementOfSeq DEF TypeInv, ScanHolds
  <2> QED
    BY <1>1, <1>2, <2>1, <2>4, SlotIs, PlaceWritten
<1>6. CASE ApplyEntry
  <2>1. WritePlace(chain[idx].target, chain[idx].seq) /\ idx \in 1 .. Len(chain)
        /\ chain[idx].seq \in 1 .. MaxSeq
    BY <1>6 DEF ApplyEntry, TypeInv, ScanHolds
  <2>2. chain[idx] \in LogEntry
    BY <1>1, <2>1, ElementOfSeq
  <2>3. chain[idx].target \in Targets
    BY <2>2 DEF LogEntry
  <2> QED
    BY <1>1, <1>2, <2>1, <2>3, PlaceWritten
<1>7. CASE EraseChunk
  <2> DEFINE new == [p \in idx .. idx + ZERO_CHUNK - 1 |-> Blank]
  <2>1. WriteRegion(new)
    BY <1>7 DEF EraseChunk
  <2>2. \A p \in DOMAIN new : new[p] = Blank
    OBVIOUS
  <2> HIDE DEF new
  <2> QED
    BY <1>1, <2>1, <2>2, BlankIs, RegionWritten
<1>8. CASE ClearGuid
  BY <1>1, <1>8 DEF ClearGuid, FileHolds
<1>9. CASE CollectChain \/ Probe \/ SelectChain \/ WalkChain \/ Close \/ UNCHANGED vars
  <2>1. UNCHANGED fileVars
    BY <1>9 DEF CollectChain, Probe, SelectChain, WalkChain, Close, vars
  <2> QED
    BY <1>1, <2>1, FileKept
<1>10. CASE Crash
  BY <1>1, <1>10, FileLost
<1> QED
  BY <1>3, <1>4, <1>5, <1>6, <1>7, <1>8, <1>9, <1>10 DEF Next, Writer, Opener

(* What types and locals depend on, when neither the writer nor the chain  *)
(* moves.                                                                  *)
LEMMA LocalsKept ==
  ASSUME TypeInv, FileHolds', UNCHANGED <<writerVars, committed, scanVars, chain>>,
         idx' \in Nat, found = {} \/ UNCHANGED region,
         phase' \in {"write", "append", "writeBack", "closed", "refused", "probe", "walk", "apply",
                     "applyFlush", "erase", "eraseFlush", "clear", "clearFlush", "open"},
         phase' = "append" => append # NoSlot,
         phase' = "probe" => guid' = "ours" /\ chain = << >>,
         phase' \in {"write", "writeBack", "append", "closed"} => chain = << >>,
         phase' = "writeBack" => nApplied < Len(live), phase' # "probe" => exhausted = FALSE,
         phase' \notin {"probe", "walk"} => phase \notin {"probe", "walk"},
         phase' \in {"closed", "refused"} => idx' = 0,
         phase' = "walk" => idx' \in Positions,
         phase' \in {"apply", "applyFlush"} => idx' \in 1 .. Len(chain)
  PROVE  LogTypeOK' /\ ScanHolds'
<1>1. /\ wpos' = wpos /\ wseq' = wseq /\ live' = live /\ nApplied' = nApplied /\ append' = append
      /\ committed' = committed /\ budget' = budget /\ exhausted' = exhausted /\ found' = found
      /\ chain' = chain
  BY DEF writerVars, scanVars
<1>2. LogTypeOK'
  <2>1. guid' \in LogGuids /\ guidMay' \subseteq LogGuids
    BY DEF FileHolds, LogGuids
  <2> QED
    BY <1>1, <2>1 DEF TypeInv, LogTypeOK, FileHolds
<1>3. \A p \in found' : IsHead(region[p])'
  BY <1>1 DEF TypeInv, ScanHolds, IsHead
<1> QED
  BY <1>1, <1>2, <1>3 DEF TypeInv, ScanHolds

(* The writer's own steps keep the types. *)
LEMMA WriterTyped ==
  ASSUME TypeInv, FileHolds', CommitEntry \/ \E t \in Targets, n \in Lengths : AppendEntry(t, n)
  PROVE  LogTypeOK' /\ ScanHolds'
<1>1. /\ LogTypeOK /\ live \in Seq(Slot) /\ nApplied \in 0 .. Len(live) /\ wpos \in Positions
      /\ committed \in [Targets -> Values] /\ wseq \in 0 .. MaxSeq /\ MaxSeq \in Nat
      /\ guid' \in LogGuids /\ guidMay' \subseteq LogGuids
  BY ReplayAssumption DEF TypeInv, LogTypeOK, FileHolds, LogGuids
<1>2. ASSUME NEW t \in Targets, NEW n \in Lengths, AppendEntry(t, n) PROVE LogTypeOK' /\ ScanHolds'
  <2>1. append' \in Slot /\ append'.e.seq \in 1 .. MaxSeq
    BY <1>2, AppendIs
  <2>2. /\ phase = "write" /\ phase' = "append"
        /\ UNCHANGED <<wpos, wseq, live, nApplied, committed, budget, exhausted, found, chain, idx>>
    BY <1>2 DEF AppendEntry, scanVars
  <2>3. LogTypeOK'
    BY <1>1, <2>1, <2>2 DEF LogTypeOK, FileHolds
  <2>4. append' # NoSlot
    BY <2>1, SlotIs
  <2>5. found = {} /\ exhausted = FALSE /\ chain = << >>
    BY <2>2 DEF TypeInv, ScanHolds
  <2>6. found' = {} /\ exhausted' = FALSE /\ chain' = << >>
    BY <2>2, <2>5
  <2>7. \A i \in 1 .. Len(chain') : chain'[i].seq \in 1 .. MaxSeq
    BY <2>2 DEF TypeInv, ScanHolds
  <2>8. \A i \in 1 .. Len(live') : live'[i].e.seq \in 1 .. MaxSeq
    BY <2>2 DEF TypeInv, ScanHolds
  <2> QED
    BY <2>1, <2>2, <2>3, <2>4, <2>6, <2>7, <2>8 DEF ScanHolds
<1>3. CASE CommitEntry
  <2>1. /\ phase = "append" /\ phase' = "write" /\ append' = NoSlot /\ nApplied' = 0
        /\ committed' = [committed EXCEPT ![append.e.target] = append.e.seq]
        /\ live' = Append(NotApplied, append)
        /\ wpos' = After(wpos, append.e.len) /\ wseq' = append.e.seq
        /\ UNCHANGED <<budget, exhausted, found, chain, idx>>
    BY <1>3 DEF CommitEntry, scanVars
  <2>2. append \in Slot /\ append.e.seq \in 1 .. MaxSeq /\ found = {} /\ exhausted = FALSE /\ chain = << >>
    BY <1>1, <2>1 DEF TypeInv, ScanHolds, LogTypeOK
  <2>3. append.e.len \in 0 .. NSectors /\ append.e.target \in Targets
    BY <2>2, SlotIs
  <2>4. /\ NotApplied \in Seq(Slot) /\ Len(NotApplied) = Len(live) - nApplied
        /\ \A i \in 1 .. Len(live) - nApplied :
             NotApplied[i] = live[nApplied + i] /\ nApplied + i \in 1 .. Len(live)
    BY <1>1, NotAppliedIs
  <2>5. /\ live' \in Seq(Slot) /\ Len(live') = Len(NotApplied) + 1 /\ Len(live') \in Nat
        /\ \A i \in 1 .. Len(NotApplied) : live'[i] = NotApplied[i]
        /\ live'[Len(NotApplied) + 1] = append /\ Len(NotApplied) \in Nat
    BY <2>1, <2>2, <2>4, AppendProperties, LenProperties
  <2>6. \A i \in 1 .. Len(live') : live'[i].e.seq \in 1 .. MaxSeq
    <3> TAKE i \in 1 .. Len(live')
    <3>1. CASE i = Len(NotApplied) + 1
      BY <2>2, <2>5, <3>1
    <3>2. CASE i # Len(NotApplied) + 1
      <4>1. i \in 1 .. Len(NotApplied)
        BY <2>5, <3>2
      <4>2. live'[i] = live[nApplied + i] /\ nApplied + i \in 1 .. Len(live)
        BY <2>4, <2>5, <4>1
      <4> QED
        BY <4>2 DEF TypeInv, ScanHolds
    <3> QED
      BY <3>1, <3>2
  <2>7. wpos' \in Positions /\ wseq' \in 0 .. MaxSeq /\ nApplied' \in 0 .. Len(live')
    BY <1>1, <2>1, <2>2, <2>3, <2>5, AfterIs
  <2>8. committed' \in [Targets -> Values]
    <3>1. append.e.seq \in Values
      BY <1>1, <2>2 DEF Values, Torn
    <3> QED
      BY <1>1, <2>1, <3>1
  <2>9. LogTypeOK'
    BY <1>1, <2>1, <2>5, <2>7, <2>8 DEF LogTypeOK, FileHolds
  <2>10. \A i \in 1 .. Len(chain') : chain'[i].seq \in 1 .. MaxSeq
    BY <2>1 DEF TypeInv, ScanHolds
  <2> QED
    BY <2>1, <2>2, <2>6, <2>9, <2>10 DEF ScanHolds
<1> QED
  BY <1>2, <1>3

(* So do the steps of the search. *)
LEMMA SearchTyped ==
  ASSUME TypeInv, FileHolds', CollectChain \/ Probe \/ SelectChain \/ WalkChain
  PROVE  LogTypeOK' /\ ScanHolds'
<1>1. /\ LogTypeOK /\ ScanHolds /\ FileHolds /\ NSectors \in Nat \ {0}
      /\ UNCHANGED <<wpos, wseq, live, nApplied, append, committed, region, guid>>
      /\ guid' \in LogGuids /\ guidMay' \subseteq LogGuids
  BY RegionAssumption DEF TypeInv, FileHolds, LogGuids, CollectChain, Probe, SelectChain, WalkChain,
       writerVars, fileVars
<1>2. /\ \A p \in Positions : region[p] \in Sectors /\ (IsHead(region[p]) => region[p].entry.seq \in 1 .. MaxSeq)
      /\ guid \in {"ours", "none"} /\ found \subseteq Positions /\ budget \in Nat /\ idx \in Nat
      /\ \A p \in found : IsHead(region[p])
  BY <1>1 DEF FileHolds, ScanHolds, LogTypeOK
<1>3. /\ \A i \in 1 .. Len(live') : live'[i].e.seq \in 1 .. MaxSeq
      /\ append' # NoSlot => append'.e.seq \in 1 .. MaxSeq
  BY <1>1 DEF ScanHolds
<1>4. \A p \in found : IsHead(region'[p])
  BY <1>1, <1>2
<1>5. CASE CollectChain
  <2>1. /\ phase = "closed" /\ phase' = IF guid = "none" THEN "open" ELSE "probe"
        /\ budget' = NSectors * 4 /\ UNCHANGED <<exhausted, found, chain, idx>>
    BY <1>5 DEF CollectChain, DISCOVERY_CHECKSUM_PASSES
  <2>2. found = {} /\ exhausted = FALSE /\ chain = << >>
    BY <1>1, <2>1 DEF ScanHolds
  <2>3. budget' \in Nat
    BY <1>1, <2>1
  <2>4. LogTypeOK'
    BY <1>1, <2>1, <2>3 DEF LogTypeOK, FileHolds
  <2>5. \A i \in 1 .. Len(chain') : chain'[i].seq \in 1 .. MaxSeq
    BY <1>1, <2>1 DEF ScanHolds
  <2>6. phase' = "probe" => guid' = "ours"
    BY <1>1, <1>2, <2>1
  <2> QED
    BY <1>3, <2>1, <2>2, <2>4, <2>5, <2>6 DEF ScanHolds
<1>6. CASE Probe
  <2> DEFINE entry == region[idx].entry
             offered == HasSignature(region, idx) /\ Ours(region, idx, guid)
             charged == offered /\ entry.len <= budget
             accepted == charged /\ Intact(region, idx)
  <2>1. /\ phase = "probe" /\ phase' = "probe" /\ idx < NSectors /\ chain' = chain
        /\ budget' = IF charged THEN budget - entry.len ELSE budget
        /\ exhausted' = (exhausted \/ (offered /\ ~charged))
        /\ found' = IF accepted THEN found \cup {idx} ELSE found
        /\ idx' = IF accepted THEN idx + entry.len ELSE idx + 1
    BY <1>6 DEF Probe
  <2>2. guid = "ours" /\ chain = << >> /\ idx \in Positions
    BY <1>1, <1>2, <2>1 DEF ScanHolds, Positions
  <2>3. offered => IsHead(region[idx]) /\ entry.len \in 1 .. NSectors
    BY <1>2, <2>2, HeadIs DEF HasSignature, Ours, IsHead
  <2> HIDE DEF offered, entry
  <2>4. budget' \in Nat /\ idx' \in Nat
    BY <1>1, <1>2, <2>1, <2>3
  <2>5. found' \subseteq Positions /\ \A p \in found' : IsHead(region'[p])
    BY <1>1, <1>2, <2>1, <2>2, <2>3
  <2>6. exhausted' \in BOOLEAN
    BY <2>1
  <2>7. LogTypeOK'
    BY <1>1, <2>1, <2>4, <2>5, <2>6 DEF LogTypeOK, FileHolds
  <2>8. \A i \in 1 .. Len(chain') : chain'[i].seq \in 1 .. MaxSeq
    BY <1>1, <2>1 DEF ScanHolds
  <2> QED
    BY <1>1, <1>3, <2>1, <2>2, <2>5, <2>7, <2>8 DEF ScanHolds
<1>7. CASE SelectChain
  <2> DEFINE start == StartOf(region, found)
  <2>1. /\ phase = "probe" /\ chain' = chain /\ budget' = 0 /\ exhausted' = FALSE
        /\ phase' = IF exhausted THEN "refused" ELSE IF found = {} THEN "open"
                    ELSE IF start \notin found THEN "refused" ELSE "walk"
        /\ idx' = IF phase' = "walk" THEN start ELSE 0
        /\ found' = IF phase' = "walk" THEN found ELSE {}
    BY <1>7 DEF SelectChain
  <2>2. phase' \in {"refused", "open", "walk"} /\ (phase' = "walk" => start \in found)
    BY <2>1
  <2> HIDE DEF start
  <2>3. phase' = "walk" => idx' \in Positions
    BY <1>2, <2>1, <2>2
  <2>4. idx' \in Nat /\ found' \subseteq Positions
    BY <1>2, <2>1, <2>3 DEF Positions
  <2>5. LogTypeOK'
    BY <1>1, <2>1, <2>2, <2>4 DEF LogTypeOK, FileHolds
  <2>6. \A i \in 1 .. Len(chain') : chain'[i].seq \in 1 .. MaxSeq
    BY <1>1, <2>1 DEF ScanHolds
  <2>7. \A p \in found' : IsHead(region'[p])
    BY <1>4, <2>1
  <2> QED
    BY <1>3, <2>1, <2>2, <2>3, <2>5, <2>6, <2>7 DEF ScanHolds
<1>8. CASE WalkChain
  <2> DEFINE entry == region[idx].entry
             more == idx \in found /\ (chain # << >> => entry.seq = chain[Len(chain)].seq + 1)
  <2>1. /\ phase = "walk" /\ UNCHANGED <<budget, exhausted>>
        /\ more => /\ chain' = Append(chain, entry) /\ idx' = After(idx, entry.len)
                   /\ UNCHANGED <<phase, found>>
        /\ ~more => /\ phase' = IF chain = << >> THEN "open" ELSE "apply"
                    /\ idx' = 1 /\ found' = {} /\ chain' = chain
    BY <1>8 DEF WalkChain
  <2>2. chain \in Seq(LogEntry) /\ Len(chain) \in Nat /\ idx \in Positions
        /\ \A i \in 1 .. Len(chain) : chain[i].seq \in 1 .. MaxSeq
    BY <1>1, <2>1, LenProperties DEF ScanHolds, LogTypeOK
  <2>3. CASE more
    <3>1. entry \in LogEntry /\ entry.seq \in 1 .. MaxSeq /\ entry.len \in 0 .. NSectors
      BY <1>2, <2>2, <2>3, HeadIs
    <3>0. chain' = Append(chain, entry)
      BY <2>1, <2>3
    <3> HIDE DEF entry, more
    <3>2. /\ chain' \in Seq(LogEntry) /\ Len(chain') = Len(chain) + 1
          /\ \A i \in 1 .. Len(chain) : chain'[i] = chain[i]
          /\ chain'[Len(chain) + 1] = entry
      BY <2>2, <3>0, <3>1, AppendProperties
    <3>3. \A i \in 1 .. Len(chain') : chain'[i].seq \in 1 .. MaxSeq
      <4> TAKE i \in 1 .. Len(chain')
      <4>1. i \in 1 .. Len(chain) \/ i = Len(chain) + 1
        BY <2>2, <3>2
      <4> QED
        BY <2>2, <3>1, <3>2, <4>1
    <3>4. idx' \in Positions /\ idx' \in Nat
      BY <2>1, <2>2, <2>3, <3>1, AfterIs DEF Positions
    <3>5. LogTypeOK'
      BY <1>1, <2>1, <2>3, <3>2, <3>4 DEF LogTypeOK, FileHolds
    <3>6. exhausted' = FALSE /\ phase' = "walk" /\ found' = found
      BY <1>1, <2>1, <2>3 DEF ScanHolds
    <3> QED
      BY <1>3, <1>4, <3>3, <3>4, <3>5, <3>6 DEF ScanHolds
  <2>4. CASE ~more
    <3>1. phase' \in {"open", "apply"} /\ (phase' = "apply" => chain # << >>)
      BY <2>1, <2>4
    <3>2. phase' = "apply" => 1 \in 1 .. Len(chain)
      BY <2>2, <3>1, EmptySeq
    <3>3. LogTypeOK'
      BY <1>1, <2>1, <2>4, <3>1 DEF LogTypeOK, FileHolds
    <3>4. exhausted' = FALSE
      BY <1>1, <2>1 DEF ScanHolds
    <3> QED
      BY <1>3, <2>1, <2>2, <2>4, <3>1, <3>2, <3>3, <3>4 DEF ScanHolds
  <2> QED
    BY <2>3, <2>4
<1> QED
  BY <1>5, <1>6, <1>7, <1>8

(* And everything else. *)
LEMMA TypeStep ==
  ASSUME TypeInv, [Next]_vars
  PROVE  TypeInv'
<1>1. FileHolds' /\ FileHolds /\ ScanHolds /\ LogTypeOK /\ idx \in Nat /\ ZERO_CHUNK \in Nat
      /\ Len(chain) \in Nat
  BY FileStep, ReplayAssumption, LenProperties DEF TypeInv, LogTypeOK
<1>2. CASE CommitEntry \/ \E t \in Targets, n \in Lengths : AppendEntry(t, n)
  BY <1>1, <1>2, WriterTyped DEF TypeInv
<1>3. CASE CollectChain \/ Probe \/ SelectChain \/ WalkChain
  BY <1>1, <1>3, SearchTyped DEF TypeInv
<1>4. CASE WriteBack \/ ApplyEntry \/ EraseChunk \/ EraseFlush \/ ClearGuid \/ ClearFlush
  <2>1. UNCHANGED <<writerVars, committed, scanVars, chain>> /\ idx' \in Nat /\ found = {}
    BY <1>1, <1>4 DEF WriteBack, ApplyEntry, EraseChunk, EraseFlush, ClearGuid, ClearFlush, ScanHolds
  <2>2. CASE WriteBack
    <3>1. phase = "write" /\ phase' = "writeBack" /\ NotApplied # << >>
      BY <2>2 DEF WriteBack
    <3>2. live \in Seq(Slot) /\ nApplied \in 0 .. Len(live)
      BY <1>1 DEF LogTypeOK
    <3>3. nApplied < Len(live)
      BY <3>1, <3>2, NotAppliedIs
    <3> QED
      BY <1>1, <2>1, <3>1, <3>3, LocalsKept DEF TypeInv, ScanHolds
  <2>3. CASE ApplyEntry
    BY <1>1, <2>1, <2>3, LocalsKept DEF ApplyEntry, TypeInv, ScanHolds
  <2>4. CASE EraseChunk \/ EraseFlush \/ ClearGuid \/ ClearFlush
    <3>1. /\ phase' \in {"erase", "eraseFlush", "clear", "clearFlush", "open"}
          /\ phase \in {"erase", "eraseFlush", "clear", "clearFlush"}
      BY <2>4 DEF EraseChunk, EraseFlush, ClearGuid, ClearFlush
    <3>2. exhausted = FALSE
      BY <1>1, <3>1 DEF ScanHolds
    <3> QED
      BY <1>1, <2>1, <3>1, <3>2, LocalsKept DEF TypeInv
  <2> QED
    BY <1>4, <2>2, <2>3, <2>4
<1>5. CASE ApplyFlush
  <2>1. /\ phase = "applyFlush" /\ idx \in 1 .. Len(chain) /\ found = {} /\ exhausted = FALSE
        /\ phase' = IF idx = Len(chain) THEN "erase" ELSE "apply"
        /\ idx' = IF idx = Len(chain) THEN 0 ELSE idx + 1
        /\ UNCHANGED <<writerVars, committed, scanVars, chain>>
    BY <1>1, <1>5 DEF ApplyFlush, ScanHolds
  <2>2. idx' \in Nat /\ (phase' = "apply" => idx' \in 1 .. Len(chain))
    BY <1>1, <2>1
  <2> QED
    BY <1>1, <2>1, <2>2, LocalsKept DEF TypeInv
<1>6. CASE WriteBackFlush
  <2>1. /\ phase = "writeBack" /\ phase' = "write" /\ nApplied' = nApplied + 1
        /\ UNCHANGED <<wpos, wseq, live, append, committed, scanVars, chain, idx>>
    BY <1>6 DEF WriteBackFlush
  <2>2. live \in Seq(Slot) /\ nApplied \in 0 .. Len(live) /\ nApplied < Len(live) /\ Len(live) \in Nat
    BY <1>1, <2>1, LenProperties DEF ScanHolds, LogTypeOK
  <2>3. nApplied' \in 0 .. Len(live')
    BY <2>1, <2>2
  <2>4. guid' \in LogGuids /\ guidMay' \subseteq LogGuids
    BY <1>1 DEF FileHolds, LogGuids
  <2>5. LogTypeOK'
    BY <1>1, <2>1, <2>3, <2>4 DEF LogTypeOK, FileHolds, scanVars
  <2> QED
    BY <1>1, <2>1, <2>5 DEF TypeInv, ScanHolds, scanVars
<1>7. CASE Close
  <2>1. /\ phase \in {"open", "refused"} /\ phase' = "closed" /\ idx' = 0 /\ chain' = << >>
        /\ committed' = (IF phase = "open" THEN place ELSE committed)
        /\ append' = (IF phase = "open" THEN NoSlot ELSE append)
        /\ UNCHANGED <<wpos, wseq, live, nApplied, budget, exhausted, found, guid, guidMay>>
    BY <1>7 DEF Close, scanVars, fileVars
  <2>2. committed' \in [Targets -> Values] /\ append' \in Slot \cup {NoSlot} /\ found = {} /\ exhausted = FALSE
    BY <1>1, <2>1 DEF LogTypeOK, FileHolds, ScanHolds
  <2>3. chain' \in Seq(LogEntry) /\ Len(chain') = 0
    BY <2>1, EmptySeq
  <2>4. LogTypeOK'
    BY <1>1, <2>1, <2>2, <2>3 DEF LogTypeOK, FileHolds
  <2> QED
    BY <1>1, <2>1, <2>2, <2>3, <2>4 DEF TypeInv, ScanHolds
<1>8. CASE Crash
  <2>1. /\ phase' = "closed" /\ idx' = 0 /\ chain' = << >> /\ found' = {} /\ budget' = 0
        /\ exhausted' = FALSE
        /\ UNCHANGED <<wpos, wseq, live, nApplied, append, committed>>
    BY <1>8 DEF Crash, writerVars
  <2>2. chain' \in Seq(LogEntry) /\ Len(chain') = 0
    BY <2>1, EmptySeq
  <2>3. guid' \in LogGuids /\ guidMay' \subseteq LogGuids
    BY <1>1 DEF FileHolds, LogGuids
  <2>4. LogTypeOK'
    BY <1>1, <2>1, <2>2, <2>3 DEF LogTypeOK, FileHolds
  <2> QED
    BY <1>1, <2>1, <2>2, <2>4 DEF TypeInv, ScanHolds
<1>9. CASE UNCHANGED vars
  BY <1>9 DEF vars, fileVars, writerVars, scanVars, TypeInv, LogTypeOK, FileHolds, ScanHolds, IsHead
<1> QED
  BY <1>2, <1>3, <1>4, <1>5, <1>6, <1>7, <1>8, <1>9 DEF Next, Writer, Opener

(* A log nobody has written to yet. *)
LEMMA TypeInit ==
  ASSUME Init
  PROVE  TypeInv
<1>1. MaxSeq \in Nat /\ NSectors \in Nat \ {0}
  BY ReplayAssumption, RegionAssumption
<1>2. region \in [Positions -> Sectors] /\ \A p \in Positions : ~IsHead(region[p])
  <2>1. CASE region = [p \in Positions |-> Blank]
    BY <2>1, BlankIs
  <2>2. ASSUME NEW t \in Targets, region = [p \in Positions |-> Part(Stale(t), p)]
        PROVE  region \in [Positions -> Sectors] /\ \A p \in Positions : ~IsHead(region[p])
    <3>1. Stale(t) \in LogEntry /\ Stale(t).guid # "ours"
      BY <1>1 DEF Stale, LogEntry, LogGuids, Positions
    <3>2. \A p \in Positions : p \in Nat
      BY <1>1 DEF Positions
    <3>3. \A p \in Positions : Part(Stale(t), p) \in Sectors /\ Part(Stale(t), p).entry = Stale(t)
      BY <3>1, <3>2, PartIs
    <3> QED
      BY <2>2, <3>1, <3>3 DEF IsHead
  <2> QED
    BY <2>1, <2>2 DEF Init
<1>3. 0 \in Values /\ {0} \subseteq Values
  BY <1>1 DEF Values, Torn
<1>4. FileHolds
  BY <1>2, <1>3 DEF Init, FileHolds
<1>5. live \in Seq(Slot) /\ Len(live) = 0 /\ chain \in Seq(LogEntry) /\ Len(chain) = 0
  BY EmptySeq DEF Init
<1>6. LogTypeOK
  <2>0. /\ nApplied = 0 /\ wseq = 0 /\ wpos \in Positions /\ idx = 0 /\ budget = 0
        /\ exhausted = FALSE /\ found = {} /\ append = NoSlot
    BY DEF Init
  <2>1. /\ nApplied \in 0 .. Len(live) /\ wseq \in 0 .. MaxSeq /\ idx \in Nat /\ budget \in Nat
        /\ exhausted \in BOOLEAN /\ found \subseteq Positions /\ append \in Slot \cup {NoSlot}
    <3>1. nApplied \in 0 .. Len(live) /\ wseq \in 0 .. MaxSeq
      BY <1>1, <1>5, <2>0
    <3> QED
      BY <2>0, <3>1
  <2>2. guid \in LogGuids /\ guidMay \subseteq LogGuids /\ committed \in [Targets -> Values]
    BY <1>3 DEF Init, LogGuids
  <2>3. phase = "write"
    BY DEF Init
  <2> QED
    BY <1>4, <1>5, <2>0, <2>1, <2>2, <2>3 DEF LogTypeOK, FileHolds
<1>7. ScanHolds
  BY <1>1, <1>5 DEF Init, ScanHolds
<1> QED
  BY <1>4, <1>6, <1>7 DEF TypeInv

(* The types and the locals hold at every point of the replay. *)
THEOREM TypeInvariant == Spec => []TypeInv
<1>1. Init => TypeInv
  BY TypeInit
<1>2. TypeInv /\ [Next]_vars => TypeInv'
  BY TypeStep
<1> QED
  BY <1>1, <1>2, PTL DEF Spec

(* Whatever the writer leaves and whenever the opener is cut off, every    *)
(* variable of the replay keeps its type (collect_replay_chain,            *)
(* apply_chain, zero_log_region): no sector outside the region is probed,  *)
(* and nothing but a committed value or a torn one reaches a target.       *)
THEOREM LogTypeCorrect == Spec => []LogTypeOK
<1>1. TypeInv => LogTypeOK
  BY DEF TypeInv
<1> QED
  BY <1>1, TypeInvariant, PTL

-----------------------------------------------------------------------------
(* Steps round the ring add up. *)
LEMMA RingAdd ==
  ASSUME NEW p \in Positions, NEW j \in Nat, NEW k \in Nat, j + k <= NSectors
  PROVE  After(After(p, j), k) = After(p, j + k)
<1>1. /\ NSectors \in Nat \ {0} /\ p \in Nat /\ p < NSectors
      /\ j \in 0 .. NSectors /\ k \in 0 .. NSectors /\ j + k \in 0 .. NSectors
  BY RegionAssumption DEF Positions
<1> DEFINE a == After(p, j)
<1>2. a = (IF p + j < NSectors THEN p + j ELSE p + j - NSectors) /\ a \in Positions
  BY <1>1, AfterIs
<1> HIDE DEF a
<1>3. After(a, k) = IF a + k < NSectors THEN a + k ELSE a + k - NSectors
  BY <1>1, <1>2, AfterIs
<1>4. After(p, j + k) = IF p + (j + k) < NSectors THEN p + (j + k) ELSE p + (j + k) - NSectors
  BY <1>1, AfterIs
<1>5. After(a, k) = After(p, j + k)
  BY <1>1, <1>2, <1>3, <1>4
<1> QED
  BY <1>5 DEF a

(* So do distances, to a sector that comes later. *)
LEMMA RingShift ==
  ASSUME NEW p \in Positions, NEW q \in Positions, NEW r \in Positions, From(p, q) <= From(p, r)
  PROVE  From(q, r) = From(p, r) - From(p, q)
<1>1. NSectors \in Nat \ {0} /\ p \in Nat /\ q \in Nat /\ r \in Nat
      /\ p < NSectors /\ q < NSectors /\ r < NSectors
  BY RegionAssumption DEF Positions
<1> DEFINE x == From(p, q)  y == From(p, r)  z == From(q, r)
<1>2. /\ x = IF q >= p THEN q - p ELSE q - p + NSectors
      /\ y = IF r >= p THEN r - p ELSE r - p + NSectors
      /\ z = IF r >= q THEN r - q ELSE r - q + NSectors
      /\ x <= y
  BY FromIs
<1> HIDE DEF x, y, z
<1>3. z = y - x
  BY <1>1, <1>2
<1> QED
  BY <1>3 DEF x, y, z

(* How much of the region lies between a sector and where it leads. *)
LEMMA RingUsed ==
  ASSUME NEW p \in Positions, NEW u \in 1 .. NSectors
  PROVE  1 + From(After(p, 1), After(p, u)) = u
<1>1. NSectors \in Nat \ {0} /\ p \in Nat /\ p < NSectors /\ u \in 0 .. NSectors /\ 1 \in 0 .. NSectors
  BY RegionAssumption DEF Positions
<1> DEFINE a == After(p, 1)  b == After(p, u)
<1>2. /\ a = (IF p + 1 < NSectors THEN p + 1 ELSE p + 1 - NSectors) /\ a \in Positions
      /\ b = (IF p + u < NSectors THEN p + u ELSE p + u - NSectors) /\ b \in Positions
  BY <1>1, AfterIs
<1> HIDE DEF a, b
<1>3. From(a, b) = IF b >= a THEN b - a ELSE b - a + NSectors
  BY <1>2, FromIs
<1>4. 1 + From(a, b) = u
  BY <1>1, <1>2, <1>3
<1> QED
  BY <1>4 DEF a, b

(* Where the writer is, from the first entry it must keep. *)
LEMMA UsedIs ==
  ASSUME TypeInv
  PROVE  /\ Used \in 0 .. NSectors
         /\ live # << >> =>
              /\ Used \in 1 .. NSectors /\ wpos = After(live[1].pos, Used)
              /\ live[1] \in Slot /\ live[1].pos \in Positions
<1>1. NSectors \in Nat \ {0} /\ wpos \in Positions /\ live \in Seq(Slot)
  BY RegionAssumption DEF TypeInv, LogTypeOK
<1>2. CASE live = << >>
  BY <1>1, <1>2 DEF Used
<1>3. CASE live # << >>
  <2>1. 1 \in 1 .. Len(live)
    BY <1>1, <1>3, EmptySeq
  <2>2. live[1] \in Slot /\ live[1].pos \in Positions
    BY <1>1, <2>1, ElementOfSeq, SlotIs
  <2> DEFINE p == live[1].pos  a == After(p, 1)  d == From(a, wpos)
  <2>3. 1 \in 0 .. NSectors
    BY <1>1
  <2>4. a \in Positions /\ a = IF p + 1 < NSectors THEN p + 1 ELSE p + 1 - NSectors
    BY <2>2, <2>3, AfterIs
  <2>5. d \in 0 .. NSectors - 1 /\ d = IF wpos >= a THEN wpos - a ELSE wpos - a + NSectors
    BY <1>1, <2>4, FromIs
  <2>6. Used = 1 + d
    BY <1>3 DEF Used
  <2>7. p \in Nat /\ p < NSectors /\ wpos \in Nat /\ wpos < NSectors
    BY <1>1, <2>2 DEF Positions
  <2> HIDE DEF p, a, d
  <2>8. 1 + d \in 1 .. NSectors /\ 1 + d \in 0 .. NSectors
    BY <1>1, <2>5
  <2>9. After(p, 1 + d) = IF p + (1 + d) < NSectors THEN p + (1 + d) ELSE p + (1 + d) - NSectors
    BY <2>2, <2>8, AfterIs DEF p
  <2>10. After(p, 1 + d) = wpos
    BY <1>1, <2>4, <2>5, <2>7, <2>9
  <2> QED
    BY <1>3, <2>2, <2>6, <2>8, <2>10 DEF p
<1> QED
  BY <1>2, <1>3

-----------------------------------------------------------------------------
(* A sector of what ends by u, and one of what begins there. *)
LEMMA Fits ==
  ASSUME NEW s \in Nat, NEW d \in 0 .. s - 1, NEW l \in 1 .. s, NEW u \in 1 .. s, d + l <= u,
         NEW k \in 0 .. l - 1
  PROVE  /\ d \in Nat /\ k \in Nat /\ k \in 0 .. s /\ d + k \in 0 .. s - 1 /\ d + k <= s
         /\ \A n \in 1 .. s : \A m \in 0 .. n - 1 : u + n <= s =>
              u \in Nat /\ m \in Nat /\ u + m <= s /\ u + m \in 0 .. s - 1 /\ d + k < u + m
OBVIOUS

(* Where an entry of the writer lies, counted from the first one. *)
LEMMA LayoutIs ==
  ASSUME TypeInv, LayoutHolds, NEW i \in 1 .. Len(live)
  PROVE  /\ live # << >> /\ live[1] \in Slot /\ live[i] \in Slot /\ live[1].pos \in Positions
         /\ Used \in 1 .. NSectors /\ wpos = After(live[1].pos, Used)
         /\ Place(i) \in 0 .. NSectors - 1 /\ live[i].pos = After(live[1].pos, Place(i))
         /\ live[i].e.len \in 1 .. NSectors /\ Place(i) + live[i].e.len <= Used
         /\ \A k \in 0 .. live[i].e.len - 1 :
              /\ After(live[i].pos, k) = After(live[1].pos, Place(i) + k)
              /\ After(live[i].pos, k) \in Positions
              /\ From(live[1].pos, After(live[i].pos, k)) = Place(i) + k
<1>1. live \in Seq(Slot) /\ Len(live) \in Nat /\ NSectors \in Nat \ {0}
  BY LenProperties, RegionAssumption DEF TypeInv, LogTypeOK
<1>2. live # << >> /\ 1 \in 1 .. Len(live)
  BY <1>1, EmptySeq
<1>3. live[i] \in Slot /\ live[1] \in Slot
  BY <1>1, <1>2, ElementOfSeq
<1>4. live[i].pos \in Positions /\ live[i].e.len \in 1 .. NSectors /\ live[1].pos \in Positions
  BY <1>3, SlotIs
<1>5. Used \in 1 .. NSectors /\ wpos = After(live[1].pos, Used)
  BY <1>2, UsedIs
<1>6. Place(i) + live[i].e.len <= Used
  BY DEF LayoutHolds
<1>7. Place(i) \in 0 .. NSectors - 1
  BY <1>4, FromIs DEF Place
<1>8. live[i].pos = After(live[1].pos, Place(i))
  BY <1>1, <1>4, RingIs DEF Place
<1>9. ASSUME NEW k \in 0 .. live[i].e.len - 1
      PROVE  /\ After(live[i].pos, k) = After(live[1].pos, Place(i) + k)
             /\ After(live[i].pos, k) \in Positions
             /\ From(live[1].pos, After(live[i].pos, k)) = Place(i) + k
  <2>1. /\ k \in Nat /\ Place(i) \in Nat /\ Place(i) + k <= NSectors /\ k \in 0 .. NSectors
        /\ Place(i) + k \in 0 .. NSectors - 1
    <3> DEFINE d == Place(i)  l == live[i].e.len  u == Used
    <3>1. /\ NSectors \in Nat /\ d \in 0 .. NSectors - 1 /\ l \in 1 .. NSectors
          /\ u \in 1 .. NSectors /\ d + l <= u /\ k \in 0 .. l - 1
      BY <1>1, <1>4, <1>5, <1>6, <1>7, <1>9
    <3> HIDE DEF d, l, u
    <3>2. d \in Nat /\ k \in Nat /\ k \in 0 .. NSectors /\ d + k \in 0 .. NSectors - 1 /\ d + k <= NSectors
      BY <3>1, Fits
    <3> QED
      BY <3>2 DEF d
  <2>2. After(live[i].pos, k) = After(live[1].pos, Place(i) + k)
    BY <1>4, <1>8, <2>1, RingAdd
  <2>3. After(live[i].pos, k) \in Positions
    BY <1>4, <2>1, AfterIs
  <2> QED
    BY <1>4, <2>1, <2>2, <2>3, RingIs
<1> QED
  BY <1>2, <1>3, <1>4, <1>5, <1>6, <1>7, <1>8, <1>9

(* What follows the writer, for as long as it has room, holds none of it. *)
LEMMA SpanApart ==
  ASSUME TypeInv, LayoutHolds, NEW n \in 1 .. NSectors, Used + n <= NSectors,
         NEW i \in 1 .. Len(live), NEW k \in 0 .. live[i].e.len - 1, NEW m \in 0 .. n - 1
  PROVE  After(live[i].pos, k) # After(wpos, m)
<1>1. /\ Used \in 1 .. NSectors /\ wpos = After(live[1].pos, Used) /\ live[1].pos \in Positions
      /\ Place(i) \in 0 .. NSectors - 1 /\ Place(i) + live[i].e.len <= Used
      /\ live[i].e.len \in 1 .. NSectors
      /\ From(live[1].pos, After(live[i].pos, k)) = Place(i) + k
  BY LayoutIs
<1>2. NSectors \in Nat \ {0}
  BY RegionAssumption
<1>3. /\ Used \in Nat /\ m \in Nat /\ k \in Nat /\ Used + m <= NSectors
      /\ Used + m \in 0 .. NSectors - 1 /\ Place(i) + k < Used + m
  <2> DEFINE d == Place(i)  l == live[i].e.len  u == Used
  <2>1. /\ NSectors \in Nat /\ d \in 0 .. NSectors - 1 /\ l \in 1 .. NSectors
        /\ u \in 1 .. NSectors /\ d + l <= u /\ k \in 0 .. l - 1 /\ u + n <= NSectors
    BY <1>1, <1>2
  <2> HIDE DEF d, l, u
  <2>2. d \in Nat /\ k \in Nat /\ u \in Nat /\ m \in Nat /\ u + m <= NSectors /\ u + m \in 0 .. NSectors - 1
        /\ d + k < u + m
    BY <2>1, Fits
  <2> QED
    BY <2>2 DEF d, u
<1>4. After(wpos, m) = After(live[1].pos, Used + m)
  BY <1>1, <1>3, RingAdd
<1>5. From(live[1].pos, After(wpos, m)) = Used + m
  BY <1>1, <1>3, <1>4, RingIs
<1> QED
  BY <1>1, <1>3, <1>5

(* The layout is the writer's alone. *)
LEMMA LayoutKept ==
  ASSUME LayoutHolds, UNCHANGED <<wpos, wseq, live, nApplied>>, append' \in {append, NoSlot}
  PROVE  LayoutHolds'
<1>1. Used' = Used /\ \A i \in 1 .. Len(live) : Place(i)' = Place(i)
  BY DEF Used, Place
<1>2. NotApplied' = NotApplied
  BY DEF NotApplied
<1> QED
  BY <1>1, <1>2 DEF LayoutHolds

(* An entry has been handed to the device. *)
LEMMA LayoutAppend ==
  ASSUME TypeInv, LayoutHolds, NEW t \in Targets, NEW n \in Lengths, AppendEntry(t, n)
  PROVE  LayoutHolds'
<1>1. UNCHANGED <<wpos, wseq, live, nApplied>>
  BY DEF AppendEntry
<1>2. Used' = Used /\ (\A i \in 1 .. Len(live) : Place(i)' = Place(i)) /\ NotApplied' = NotApplied
  BY <1>1 DEF Used, Place, NotApplied
<1>3. /\ append'.pos = wpos /\ append'.e.guid = "ours" /\ append'.e.seq = wseq + 1
      /\ Used + append'.e.len <= NSectors
      /\ append'.e.tail = IF NotApplied = << >> THEN wpos ELSE NotApplied[1].pos
  BY AppendIs
<1> QED
  BY <1>1, <1>2, <1>3 DEF LayoutHolds

(* What the writer keeps once its flush has returned. *)
LEMMA CommitIs ==
  ASSUME TypeInv, LayoutHolds, CommitEntry
  PROVE  /\ append \in Slot /\ append # NoSlot /\ append.pos = wpos /\ append.e.seq = wseq + 1
         /\ append.e.guid = "ours" /\ append.e.len \in 1 .. NSectors /\ Used + append.e.len <= NSectors
         /\ append.e.tail = IF nApplied = Len(live) THEN wpos ELSE live[nApplied + 1].pos
         /\ Len(live) \in Nat /\ nApplied \in 0 .. Len(live) /\ wseq \in Nat
         /\ live' \in Seq(Slot) /\ live' # << >> /\ Len(live') = Len(live) - nApplied + 1
         /\ \A i \in 1 .. Len(live) - nApplied :
              live'[i] = live[nApplied + i] /\ nApplied + i \in 1 .. Len(live)
         /\ live'[Len(live) - nApplied + 1] = append
         /\ nApplied' = 0 /\ wpos' = After(wpos, append.e.len) /\ wseq' = wseq + 1 /\ append' = NoSlot
         /\ committed' = [committed EXCEPT ![append.e.target] = append.e.seq]
<1>1. /\ live \in Seq(Slot) /\ nApplied \in 0 .. Len(live) /\ wseq \in Nat
      /\ append \in Slot \cup {NoSlot} /\ MaxSeq \in Nat
  BY ReplayAssumption DEF TypeInv, LogTypeOK
<1>2. /\ phase = "append" /\ nApplied' = 0 /\ live' = Append(NotApplied, append) /\ append' = NoSlot
      /\ wpos' = After(wpos, append.e.len) /\ wseq' = append.e.seq
      /\ committed' = [committed EXCEPT ![append.e.target] = append.e.seq]
  BY DEF CommitEntry
<1>3. append # NoSlot /\ append \in Slot
  BY <1>1, <1>2 DEF TypeInv, ScanHolds
<1>4. /\ append.pos = wpos /\ append.e.guid = "ours" /\ append.e.seq = wseq + 1
      /\ Used + append.e.len <= NSectors
      /\ append.e.tail = IF NotApplied = << >> THEN wpos ELSE NotApplied[1].pos
  BY <1>3 DEF LayoutHolds
<1>5. append.e.len \in 1 .. NSectors
  BY <1>3, SlotIs
<1>6. /\ NotApplied \in Seq(Slot) /\ Len(NotApplied) = Len(live) - nApplied
      /\ \A i \in 1 .. Len(live) - nApplied :
           NotApplied[i] = live[nApplied + i] /\ nApplied + i \in 1 .. Len(live)
      /\ NotApplied = << >> <=> nApplied = Len(live)
      /\ Len(live) \in Nat
  BY <1>1, NotAppliedIs
<1>7. /\ live' \in Seq(Slot) /\ Len(live') = Len(NotApplied) + 1
      /\ \A i \in 1 .. Len(NotApplied) : live'[i] = NotApplied[i]
      /\ live'[Len(NotApplied) + 1] = append
  BY <1>2, <1>3, <1>6, AppendProperties
<1>8. live' # << >>
  BY <1>1, <1>6, <1>7, EmptySeq
<1>9. append.e.tail = IF nApplied = Len(live) THEN wpos ELSE live[nApplied + 1].pos
  <2>1. CASE nApplied = Len(live)
    BY <1>4, <1>6, <2>1
  <2>2. CASE nApplied # Len(live)
    <3>1. 1 \in 1 .. Len(live) - nApplied
      BY <1>1, <1>6, <2>2
    <3>2. NotApplied[1] = live[nApplied + 1]
      BY <1>6, <3>1
    <3> QED
      BY <1>4, <1>6, <2>2, <3>2
  <2> QED
    BY <2>1, <2>2
<1> QED
  BY <1>1, <1>2, <1>3, <1>4, <1>5, <1>6, <1>7, <1>8, <1>9

(* The first entry it keeps is the new base, d sectors on. *)
LEMMA CommitPlaces ==
  ASSUME TypeInv, LayoutHolds, CommitEntry, nApplied # Len(live)
  PROVE  LET d == Place(nApplied + 1)
             m == Len(live) - nApplied
         IN  /\ d \in 0 .. NSectors - 1 /\ d < Used /\ Used \in 1 .. NSectors
             /\ live'[1].pos = live[nApplied + 1].pos /\ m \in Nat /\ m >= 1
             /\ \A i \in 1 .. m : Place(i)' = Place(nApplied + i) - d
             /\ From(live'[1].pos, wpos) = Used - d
             /\ Used' = Used - d + append.e.len
<1> DEFINE b == live[1].pos  d == Place(nApplied + 1)  m == Len(live) - nApplied  l == append.e.len
<1>1. /\ append.pos = wpos /\ append.e.len \in 1 .. NSectors /\ Used + append.e.len <= NSectors
      /\ Len(live) \in Nat /\ nApplied \in 0 .. Len(live) /\ live' # << >>
      /\ \A i \in 1 .. Len(live) - nApplied :
           live'[i] = live[nApplied + i] /\ nApplied + i \in 1 .. Len(live)
      /\ live'[Len(live) - nApplied + 1] = append
      /\ wpos' = After(wpos, append.e.len)
  BY CommitIs
<1>2. m \in Nat /\ m >= 1 /\ 1 \in 1 .. m
  BY <1>1
<1>3. nApplied + 1 \in 1 .. Len(live) /\ live'[1] = live[nApplied + 1]
  BY <1>1, <1>2
<1>4. /\ live[1] \in Slot /\ b \in Positions /\ Used \in 1 .. NSectors /\ wpos = After(b, Used)
      /\ d \in 0 .. NSectors - 1 /\ live[nApplied + 1].pos = After(b, d)
      /\ live[nApplied + 1].e.len \in 1 .. NSectors /\ d + live[nApplied + 1].e.len <= Used
      /\ live[nApplied + 1] \in Slot
  BY <1>3, LayoutIs
<1>5. live[nApplied + 1].pos \in Positions /\ NSectors \in Nat \ {0}
  BY <1>4, SlotIs, RegionAssumption
<1>6. ASSUME NEW i \in 1 .. m
      PROVE  Place(i)' = Place(nApplied + i) - d
  <2>1. live'[i] = live[nApplied + i] /\ nApplied + i \in 1 .. Len(live)
    BY <1>1, <1>6
  <2>2. nApplied + 1 \in 1 .. nApplied + i
    BY <1>1, <1>6
  <2>3. d <= Place(nApplied + i)
    BY <2>1, <2>2 DEF LayoutHolds
  <2>4. live[nApplied + i] \in Slot
    BY <2>1, LayoutIs
  <2>5. live[nApplied + i].pos \in Positions
    BY <2>4, SlotIs
  <2>6. Place(i)' = From(live[nApplied + 1].pos, live[nApplied + i].pos)
    BY <1>3, <2>1 DEF Place
  <2> QED
    BY <1>4, <1>5, <2>3, <2>5, <2>6, RingShift DEF Place
<1> DEFINE u == Used
<1>7. d \in Nat /\ d < u /\ u \in 0 .. NSectors - 1 /\ l \in Nat /\ u + l <= NSectors /\ u \in Nat
  <2>1. /\ d \in 0 .. NSectors - 1 /\ u \in 1 .. NSectors /\ l \in 1 .. NSectors /\ u + l <= NSectors
    BY <1>1, <1>4
  <2> DEFINE q == live[nApplied + 1].e.len
  <2>2. q \in 1 .. NSectors /\ d + q <= u
    BY <1>4
  <2> HIDE DEF d, u, l, q
  <2> QED
    BY <1>5, <2>1, <2>2
<1>8. From(b, wpos) = u /\ From(b, live[nApplied + 1].pos) = d
  <2>1. From(b, After(b, u)) = u
    BY <1>4, <1>7, RingIs
  <2> QED
    BY <1>4, <2>1 DEF Place
<1>9. wpos \in Positions
  BY DEF TypeInv, LogTypeOK
<1>10. From(live'[1].pos, wpos) = Used - d
  <2>1. From(b, live[nApplied + 1].pos) <= From(b, wpos)
    BY <1>7, <1>8
  <2> QED
    BY <1>3, <1>4, <1>5, <1>8, <1>9, <2>1, RingShift
<1>11. Used' = Used - d + l
  <2> DEFINE a == live[nApplied + 1].pos  v == u - d + l
  <2>1. /\ v \in Nat /\ d + v <= NSectors /\ v \in 1 .. NSectors /\ u + l = d + v
    <3> HIDE DEF d, u, l
    <3> QED
      BY <1>5, <1>7
  <2>2. wpos' = After(b, u + l)
    BY <1>1, <1>4, <1>7, RingAdd
  <2>3. After(a, v) = After(b, d + v)
    BY <1>4, <1>7, <2>1, RingAdd
  <2>4. wpos' = After(a, v)
    BY <2>1, <2>2, <2>3
  <2>5. 1 + From(After(a, 1), After(a, v)) = v
    BY <1>5, <2>1, RingUsed
  <2>6. Used' = 1 + From(After(a, 1), wpos')
    BY <1>1, <1>3 DEF Used
  <2> QED
    BY <2>4, <2>5, <2>6
<1> QED
  BY <1>2, <1>3, <1>4, <1>6, <1>7, <1>10, <1>11

(* The writer's layout survives its commits. *)
LEMMA LayoutCommit ==
  ASSUME TypeInv, LayoutHolds, CommitEntry
  PROVE  LayoutHolds'
<1> DEFINE m == Len(live) - nApplied
<1>1. /\ append \in Slot /\ append.pos = wpos /\ append.e.seq = wseq + 1
      /\ append.e.guid = "ours" /\ append.e.len \in 1 .. NSectors /\ Used + append.e.len <= NSectors
      /\ append.e.tail = IF nApplied = Len(live) THEN wpos ELSE live[nApplied + 1].pos
      /\ Len(live) \in Nat /\ nApplied \in 0 .. Len(live) /\ wseq \in Nat
      /\ live' # << >> /\ Len(live') = m + 1
      /\ \A i \in 1 .. m : live'[i] = live[nApplied + i] /\ nApplied + i \in 1 .. Len(live)
      /\ live'[m + 1] = append
      /\ wpos' = After(wpos, append.e.len) /\ wseq' = wseq + 1 /\ append' = NoSlot
  BY CommitIs
<1>2. m \in Nat /\ NSectors \in Nat \ {0} /\ wpos \in Positions
  BY <1>1, RegionAssumption DEF TypeInv, LogTypeOK
<1>3. wseq' >= Len(live')
  BY <1>1 DEF LayoutHolds
<1>4. wpos' = After(live'[Len(live')].pos, live'[Len(live')].e.len)
  BY <1>1
<1>5. live'[Len(live')].e.tail = live'[1].pos
  <2>1. CASE nApplied = Len(live)
    <3>1. m = 0
      BY <1>1, <2>1
    <3> QED
      BY <1>1, <2>1, <3>1
  <2>2. CASE nApplied # Len(live)
    <3>1. 1 \in 1 .. m
      BY <1>1, <2>2
    <3> QED
      BY <1>1, <2>2, <3>1
  <2> QED
    BY <2>1, <2>2
<1>6. ASSUME NEW i \in 1 .. Len(live')
      PROVE  /\ live'[i].e.guid = "ours" /\ live'[i].e.seq = wseq' - Len(live') + i
             /\ i < Len(live') => live'[i + 1].pos = After(live'[i].pos, live'[i].e.len)
  <2>1. CASE i = m + 1
    BY <1>1, <1>2, <2>1
  <2>2. CASE i # m + 1
    <3>1. i \in 1 .. m
      BY <1>1, <1>2, <1>6, <2>2
    <3>2. live'[i] = live[nApplied + i] /\ nApplied + i \in 1 .. Len(live)
      BY <1>1, <3>1
    <3>3. live'[i].e.guid = "ours" /\ live'[i].e.seq = wseq - Len(live) + (nApplied + i)
      BY <3>2 DEF LayoutHolds
    <3>4. wseq - Len(live) + (nApplied + i) = wseq' - Len(live') + i
      BY <1>1, <3>1
    <3>5. live'[i + 1].pos = After(live'[i].pos, live'[i].e.len)
      <4>1. CASE i = m
        <5>1. nApplied + i = Len(live) /\ live # << >>
          BY <1>1, <3>1, <3>2, <4>1, EmptySeq DEF TypeInv, LogTypeOK
        <5> QED
          BY <1>1, <3>2, <4>1, <5>1 DEF LayoutHolds
      <4>2. CASE i # m
        <5>1. i + 1 \in 1 .. m /\ nApplied + i < Len(live) /\ nApplied + (i + 1) = nApplied + i + 1
          <6> DEFINE n == Len(live)
          <6>1. n \in Nat /\ nApplied \in Nat /\ m = n - nApplied
            BY <1>1
          <6> HIDE DEF m, n
          <6>2. i + 1 \in 1 .. m /\ nApplied + i < n /\ nApplied + (i + 1) = nApplied + i + 1
            BY <1>2, <3>1, <4>2, <6>1
          <6> QED
            BY <6>2 DEF n
        <5>2. live[nApplied + i + 1].pos = After(live[nApplied + i].pos, live[nApplied + i].e.len)
          BY <3>2, <5>1 DEF LayoutHolds
        <5>3. live'[i + 1] = live[nApplied + i + 1]
          BY <1>1, <5>1
        <5> QED
          BY <3>2, <5>2, <5>3
      <4> QED
        BY <4>1, <4>2
    <3> QED
      BY <3>3, <3>4, <3>5
  <2> QED
    BY <2>1, <2>2
<1>7. ASSUME NEW i \in 1 .. Len(live')
      PROVE  /\ Place(i)' + live'[i].e.len <= Used'
             /\ \A j \in 1 .. i : Place(j)' <= Place(i)'
  <2> DEFINE l == append.e.len
  <2>1. CASE nApplied = Len(live)
    <3>1. m = 0 /\ i = 1 /\ live'[1] = append
      BY <1>1, <1>7, <2>1
    <3>2. Place(1)' = From(wpos, wpos) /\ From(wpos, wpos) = 0
      <4>1. wpos \in Int /\ From(wpos, wpos) = wpos - wpos
        BY <1>2, FromIs DEF Positions
      <4>2. Place(1)' = From(wpos, wpos)
        BY <1>1, <3>1 DEF Place
      <4> QED
        BY <4>1, <4>2
    <3>3. Used' = 1 + From(After(wpos, 1), After(wpos, l))
      BY <1>1, <3>1 DEF Used
    <3>4. 1 + From(After(wpos, 1), After(wpos, l)) = l
      BY <1>1, <1>2, RingUsed
    <3>5. Place(i)' = 0 /\ Used' = l /\ live'[i].e.len = l
      BY <3>1, <3>2, <3>3, <3>4
    <3>6. \A j \in 1 .. i : Place(j)' = 0
      BY <3>1, <3>2
    <3>7. 0 + l <= l /\ 0 <= 0
      BY <1>1, <1>2
    <3> QED
      BY <3>5, <3>6, <3>7
  <2>2. CASE nApplied # Len(live)
    <3> DEFINE d == Place(nApplied + 1)  u == Used
    <3>1. /\ d \in 0 .. NSectors - 1 /\ d < u /\ u \in 1 .. NSectors
          /\ \A j \in 1 .. m : Place(j)' = Place(nApplied + j) - d
          /\ From(live'[1].pos, wpos) = u - d
          /\ Used' = u - d + l
      BY <2>2, CommitPlaces
    <3>2. ASSUME NEW j \in 1 .. m
          PROVE  /\ Place(j)' = Place(nApplied + j) - d /\ live'[j] = live[nApplied + j]
                 /\ Place(nApplied + j) + live[nApplied + j].e.len <= u
                 /\ Place(nApplied + j) \in 0 .. NSectors - 1 /\ live[nApplied + j].e.len \in 1 .. NSectors
                 /\ nApplied + j \in 1 .. Len(live)
      <4>1. live'[j] = live[nApplied + j] /\ nApplied + j \in 1 .. Len(live)
        BY <1>1, <3>2
      <4> QED
        BY <3>1, <3>2, <4>1, LayoutIs
    <3>3. l \in 1 .. NSectors
      BY <1>1
    <3>4. CASE i = m + 1
      <4>1. Place(i)' = u - d /\ live'[i].e.len = l
        BY <1>1, <3>1, <3>4 DEF Place
      <4>2. Place(i)' + live'[i].e.len <= Used'
        <5> HIDE DEF d, u, l
        <5> QED
          BY <3>1, <3>3, <4>1, RegionAssumption
      <4>3. ASSUME NEW j \in 1 .. i
            PROVE  Place(j)' <= Place(i)'
        <5>1. CASE j = i
          BY <4>1, <5>1, <3>1, <1>2
        <5>2. CASE j # i
          <6>1. j \in 1 .. m
            BY <1>2, <3>4, <4>3, <5>2
          <6> DEFINE x == Place(nApplied + j)  y == live[nApplied + j].e.len
          <6>2. Place(j)' = x - d /\ x + y <= u /\ x \in 0 .. NSectors - 1 /\ y \in 1 .. NSectors
            BY <3>2, <6>1
          <6> HIDE DEF d, u, x, y
          <6> QED
            BY <1>2, <3>1, <4>1, <6>2
        <5> QED
          BY <5>1, <5>2
      <4> QED
        BY <4>2, <4>3
    <3>5. CASE i # m + 1
      <4>1. i \in 1 .. m
        BY <1>1, <1>2, <1>7, <3>5
      <4> DEFINE x == Place(nApplied + i)  y == live[nApplied + i].e.len
      <4>2. /\ Place(i)' = x - d /\ x + y <= u /\ x \in 0 .. NSectors - 1 /\ y \in 1 .. NSectors
            /\ live'[i].e.len = y /\ nApplied + i \in 1 .. Len(live)
        BY <3>2, <4>1
      <4>3. Place(i)' + live'[i].e.len <= Used'
        <5> HIDE DEF d, u, l, x, y
        <5> QED
          BY <1>2, <3>1, <3>3, <4>2
      <4>4. ASSUME NEW j \in 1 .. i
            PROVE  Place(j)' <= Place(i)'
        <5>1. j \in 1 .. m /\ nApplied + j \in 1 .. nApplied + i
          BY <1>1, <1>2, <4>1, <4>4
        <5> DEFINE z == Place(nApplied + j)
        <5>2. Place(j)' = z - d /\ z \in 0 .. NSectors - 1
          BY <3>2, <5>1
        <5>3. z <= x
          BY <4>2, <5>1 DEF LayoutHolds
        <5> HIDE DEF d, x, z
        <5> QED
          BY <1>2, <3>1, <4>2, <5>2, <5>3
      <4> QED
        BY <4>3, <4>4
    <3> QED
      BY <3>4, <3>5
  <2> QED
    BY <2>1, <2>2
<1> QED
  BY <1>1, <1>3, <1>4, <1>5, <1>6, <1>7 DEF LayoutHolds

(* No step of the opener, and no power loss, moves the writer's entries. *)
LEMMA LayoutStep ==
  ASSUME TypeInv, LayoutHolds, WritingHolds, [Next]_vars
  PROVE  LayoutHolds'
<1>1. ASSUME NEW t \in Targets, NEW n \in Lengths, AppendEntry(t, n) PROVE LayoutHolds'
  BY <1>1, LayoutAppend
<1>2. CASE CommitEntry
  BY <1>2, LayoutCommit
<1>3. CASE WriteBackFlush
  <2>1. append = NoSlot /\ UNCHANGED <<wpos, wseq, live, append>>
    BY <1>3 DEF WriteBackFlush, WritingHolds
  <2>2. Used' = Used /\ \A i \in 1 .. Len(live) : Place(i)' = Place(i)
    BY <2>1 DEF Used, Place
  <2> QED
    BY <2>1, <2>2 DEF LayoutHolds
<1>4. CASE \/ WriteBack \/ Opener \/ Close \/ Crash \/ UNCHANGED vars
  <2>1. UNCHANGED <<wpos, wseq, live, nApplied>> /\ append' \in {append, NoSlot}
    BY <1>4 DEF WriteBack, Opener, CollectChain, Probe, SelectChain, WalkChain, ApplyEntry, ApplyFlush,
                EraseChunk, EraseFlush, ClearGuid, ClearFlush, Close, Crash, vars, writerVars
  <2> QED
    BY <2>1, LayoutKept
<1> QED
  BY <1>1, <1>2, <1>3, <1>4 DEF Next, Writer

-----------------------------------------------------------------------------
(* Where an append reaches. *)
LEMMA AppendReaches ==
  ASSUME TypeInv, NEW t \in Targets, NEW n \in Lengths, AppendEntry(t, n)
  PROVE  /\ \A p \in Positions : regionMay'[p] = regionMay[p] \cup Appended(p)'
         /\ Landed' /\ append' # NoSlot
<1>1. /\ append' \in Slot /\ append'.pos = wpos /\ wpos \in Positions
      /\ append'.e.seq \in 1 .. MaxSeq /\ append'.e.len = n /\ n \in 1 .. NSectors
      /\ WriteRegion([p \in {After(wpos, k) : k \in 0 .. n - 1} |-> Part(append'.e, From(wpos, p))])
  BY AppendIs
<1>2. NSectors \in Nat \ {0} /\ append' # NoSlot
  BY <1>1, SlotIs, RegionAssumption
<1> DEFINE new == [p \in {After(wpos, k) : k \in 0 .. n - 1} |-> Part(append'.e, From(wpos, p))]
<1>3. new = [p \in {After(append'.pos, k) : k \in 0 .. append'.e.len - 1} |->
               Part(append'.e, From(append'.pos, p))]
  BY <1>1
<1>4. WriteRegion(new)
  BY <1>1
<1> HIDE DEF new
<1>5. /\ DOMAIN new = {After(wpos, k) : k \in 0 .. n - 1} /\ DOMAIN new \subseteq Positions
      /\ \A k \in 0 .. n - 1 : new[After(wpos, k)] = Part(append'.e, k)
      /\ \A p \in DOMAIN new : new[p] = Part(append'.e, From(wpos, p))
  BY <1>1, <1>3, AppendedSectors
<1>6. \A p \in Positions : p \in DOMAIN new <=> From(wpos, p) < n
  <2> TAKE p \in Positions
  <2>1. From(wpos, p) \in 0 .. NSectors - 1 /\ After(wpos, From(wpos, p)) = p
    BY <1>1, <1>2, FromIs, RingIs
  <2>2. ASSUME From(wpos, p) < n PROVE p \in DOMAIN new
    <3>1. From(wpos, p) \in 0 .. n - 1
      BY <1>1, <1>2, <2>1, <2>2
    <3> QED
      BY <1>5, <2>1, <3>1
  <2>3. ASSUME p \in DOMAIN new PROVE From(wpos, p) < n
    <3>1. PICK k \in 0 .. n - 1 : p = After(wpos, k)
      BY <1>5, <2>3
    <3>2. k \in 0 .. NSectors - 1 /\ k < n
      BY <1>1, <1>2
    <3>3. From(wpos, After(wpos, k)) = k
      BY <1>1, <3>2, RingIs
    <3> QED
      BY <3>1, <3>2, <3>3
  <2> QED
    BY <2>2, <2>3
<1>7. \A p \in Positions : Appended(p)' = IF p \in DOMAIN new THEN {new[p]} ELSE {}
  BY <1>1, <1>2, <1>5, <1>6 DEF Appended
<1>8. \A p \in Positions : regionMay'[p] = regionMay[p] \cup Appended(p)'
  BY <1>4, <1>7 DEF WriteRegion
<1>9. \A p \in Positions : p \in DOMAIN new => region'[p] = new[p]
  BY <1>4 DEF WriteRegion
<1>10. Landed'
  <2>1. ASSUME NEW k \in 0 .. n - 1 PROVE region'[After(wpos, k)] = Part(append'.e, k)
    <3>1. After(wpos, k) \in DOMAIN new
      BY <1>5, <2>1
    <3> QED
      BY <1>5, <1>9, <2>1, <3>1
  <2> QED
    BY <1>1, <1>2, <2>1 DEF Landed
<1> QED
  BY <1>2, <1>8, <1>10

(* The live entries are out of an append's way. *)
LEMMA SpanFree ==
  ASSUME TypeInv, LayoutHolds, NEW n \in 1 .. NSectors, Used + n <= NSectors,
         NEW i \in 1 .. Len(live), NEW k \in 0 .. live[i].e.len - 1
  PROVE  ~(From(wpos, After(live[i].pos, k)) < n) /\ After(live[i].pos, k) \in Positions
<1> DEFINE q == After(live[i].pos, k)  m == From(wpos, q)
<1>1. wpos \in Positions /\ q \in Positions /\ NSectors \in Nat \ {0}
  BY LayoutIs, RegionAssumption DEF TypeInv, LogTypeOK
<1>2. m \in 0 .. NSectors - 1 /\ After(wpos, m) = q
  BY <1>1, FromIs, RingIs
<1>3. ASSUME m < n PROVE FALSE
  <2>1. m \in 0 .. n - 1
    BY <1>1, <1>2, <1>3
  <2> QED
    BY <1>2, <2>1, SpanApart
<1> QED
  BY <1>1, <1>3

(* The one head an entry has is its first sector. *)
LEMMA HeadFirst ==
  ASSUME NEW a \in Positions, NEW p \in Positions, NEW e, IsHead(Part(e, From(a, p)))
  PROVE  p = a /\ Part(e, From(a, p)).entry = e
<1>1. From(a, p) = 0 /\ 0 \in 0 .. NSectors - 1
  BY RegionAssumption DEF IsHead, Part
<1> QED
  BY <1>1, RingIs DEF Part

(* So an append takes nothing of what has to be replayed. *)
LEMMA AppendStands ==
  ASSUME TypeInv, LayoutHolds, Standing, append = NoSlot,
         NEW t \in Targets, NEW n \in Lengths, AppendEntry(t, n)
  PROVE  Standing'
<1>1. (\A p \in Positions : regionMay'[p] = regionMay[p] \cup Appended(p)') /\ append' # NoSlot
  BY AppendReaches
<1>2. /\ UNCHANGED <<wpos, wseq, live, nApplied, committed, guid, guidMay>>
  BY DEF AppendEntry, WriteRegion
<1>3. /\ n \in 1 .. NSectors /\ Used + n <= NSectors /\ wpos \in Positions
      /\ append'.pos = wpos /\ append'.e.len = n
  BY AppendIs
<1>4. LiveStored'
  <2>1. ASSUME NEW i \in 1 .. Len(live), NEW k \in 0 .. live[i].e.len - 1
        PROVE  regionMay'[After(live[i].pos, k)] = {Part(live[i].e, k)}
    <3>1. ~(From(wpos, After(live[i].pos, k)) < n) /\ After(live[i].pos, k) \in Positions
      BY <1>3, <2>1, SpanFree
    <3>2. regionMay[After(live[i].pos, k)] = {Part(live[i].e, k)}
      BY <2>1 DEF Standing, LiveStored
    <3>3. \A q \in Positions : ~(From(wpos, q) < n) => regionMay'[q] = regionMay[q]
      BY <1>1, <1>3 DEF Appended
    <3> QED
      BY <3>1, <3>2, <3>3
  <2> QED
    BY <1>2, <2>1 DEF LiveStored
<1>5. HeadsKnown'
  <2>1. ASSUME NEW p \in Positions, NEW c \in regionMay'[p], IsHead(c)
        PROVE  \/ \E i \in 1 .. Len(live) : p = live[i].pos /\ c.entry = live[i].e
               \/ p = append'.pos /\ c.entry = append'.e
               \/ /\ c.entry.seq <= wseq - Len(live)
                  /\ \A k \in 0 .. c.entry.len - 1 :
                       regionMay'[After(p, k)] \subseteq {Part(c.entry, k)} \cup Appended(After(p, k))'
    <3>1. CASE c \in Appended(p)'
      <4>1. c = Part(append'.e, From(wpos, p))
        BY <1>3, <3>1 DEF Appended
      <4> QED
        BY <1>3, <2>1, <4>1, HeadFirst
    <3>2. CASE c \notin Appended(p)'
      <4>1. c \in regionMay[p]
        BY <1>1, <2>1, <3>2
      <4>2. c \in Sectors
        BY <4>1 DEF TypeInv, LogTypeOK
      <4>3. c.entry.len \in 1 .. NSectors /\ NSectors \in Nat
        BY <2>1, <4>2, HeadIs, RegionAssumption
      <4>4. \A k \in 0 .. c.entry.len - 1 : After(p, k) \in Positions
        <5> TAKE k \in 0 .. c.entry.len - 1
        <5>1. k \in 0 .. NSectors
          BY <4>3
        <5> QED
          BY <5>1, AfterIs
      <4>5. \/ \E i \in 1 .. Len(live) : p = live[i].pos /\ c.entry = live[i].e
            \/ /\ c.entry.seq <= wseq - Len(live)
               /\ \A k \in 0 .. c.entry.len - 1 : regionMay[After(p, k)] \subseteq {Part(c.entry, k)}
        BY <2>1, <4>1 DEF Standing, HeadsKnown, Appended
      <4>6. (\A k \in 0 .. c.entry.len - 1 : regionMay[After(p, k)] \subseteq {Part(c.entry, k)}) =>
              \A k \in 0 .. c.entry.len - 1 :
                regionMay'[After(p, k)] \subseteq {Part(c.entry, k)} \cup Appended(After(p, k))'
        BY <1>1, <4>4
      <4> QED
        BY <4>5, <4>6
    <3> QED
      BY <3>1, <3>2
  <2> QED
    BY <1>1, <1>2, <2>1 DEF HeadsKnown
<1>6. guidMay' = {"ours"} /\ LastHolds'
  BY <1>2 DEF Standing, LastHolds
<1> QED
  BY <1>4, <1>5, <1>6 DEF Standing

(* Who reaches a span from outside it comes past the sector before it. *)
LEMMA RingCross ==
  ASSUME NEW p \in Positions, NEW w \in Positions, NEW k \in 0 .. NSectors - 1, NEW l \in 1 .. NSectors,
         ~(From(w, p) < l), From(w, After(p, k)) < l
  PROVE  From(p, w) \in 1 .. k /\ After(After(p, From(p, w) - 1), 1) = w
<1>1. NSectors \in Nat \ {0} /\ p \in Nat /\ w \in Nat /\ p < NSectors /\ w < NSectors /\ k \in 0 .. NSectors
  BY RegionAssumption DEF Positions
<1> DEFINE q == After(p, k)  f == From(w, p)  j == From(w, q)  d == From(p, w)
<1>2. q \in Positions /\ q = IF p + k < NSectors THEN p + k ELSE p + k - NSectors
  BY <1>1, AfterIs
<1>3. /\ f = IF p >= w THEN p - w ELSE p - w + NSectors
      /\ j = IF q >= w THEN q - w ELSE q - w + NSectors
      /\ d = IF w >= p THEN w - p ELSE w - p + NSectors
      /\ f \in 0 .. NSectors - 1 /\ d \in 0 .. NSectors - 1
  BY <1>2, FromIs
<1>4. ~(f < l) /\ j < l
  OBVIOUS
<1>5. After(p, d) = w
  BY <1>1, RingIs
<1>6. q \in Nat /\ q < NSectors
  BY <1>1, <1>2 DEF Positions
<1> HIDE DEF q, f, j, d
<1>7. d \in 1 .. k
  BY <1>1, <1>2, <1>3, <1>4, <1>6
<1>8. d - 1 \in Nat /\ 1 \in Nat /\ d - 1 + 1 <= NSectors /\ d - 1 + 1 = d
  BY <1>1, <1>7
<1>9. After(After(p, d - 1), 1) = w
  BY <1>5, <1>8, RingAdd
<1> QED
  BY <1>7, <1>9 DEF d

(* One sector comes before another. *)
LEMMA RingBefore ==
  ASSUME NEW y \in Positions, NEW z \in Positions, After(y, 1) = After(z, 1)
  PROVE  y = z
<1>1. /\ NSectors \in Nat \ {0} /\ y \in Nat /\ z \in Nat /\ y < NSectors /\ z < NSectors
      /\ 1 \in 0 .. NSectors
  BY RegionAssumption DEF Positions
<1>2. /\ After(y, 1) = IF y + 1 < NSectors THEN y + 1 ELSE y + 1 - NSectors
      /\ After(z, 1) = IF z + 1 < NSectors THEN z + 1 ELSE z + 1 - NSectors
  BY <1>1, AfterIs
<1> QED
  BY <1>1, <1>2

(* The sectors of an entry are the region's. *)
LEMMA SpanIn ==
  ASSUME NEW p \in Positions, NEW e \in LogEntry, NEW k \in 0 .. e.len - 1
  PROVE  k \in Nat /\ k \in 0 .. NSectors - 1 /\ k \in 0 .. NSectors /\ After(p, k) \in Positions
         /\ From(p, After(p, k)) = k
<1>1. e.len \in 1 .. NSectors /\ NSectors \in Nat \ {0}
  BY RegionAssumption DEF LogEntry
<1>2. k \in Nat /\ k \in 0 .. NSectors - 1 /\ k \in 0 .. NSectors
  BY <1>1
<1> QED
  BY <1>2, AfterIs, RingIs

(* An older entry whose head an append leaves is not touched by it at all: *)
(* the writer's last entry lies between them.                              *)
LEMMA OldApart ==
  ASSUME TypeInv, LayoutHolds, LiveStored, append # NoSlot,
         NEW p \in Positions, NEW e \in LogEntry, e.seq \in 1 .. MaxSeq, e.seq <= wseq - Len(live),
         \A k \in 0 .. e.len - 1 :
           regionMay[After(p, k)] \subseteq {Part(e, k)} \cup Appended(After(p, k)),
         ~(From(wpos, p) < append.e.len), NEW k \in 0 .. e.len - 1
  PROVE  ~(From(wpos, After(p, k)) < append.e.len)
<1>1. SUFFICES ASSUME From(wpos, After(p, k)) < append.e.len PROVE FALSE
  OBVIOUS
<1>2. /\ append \in Slot /\ append.pos = wpos /\ Used + append.e.len <= NSectors /\ wpos \in Positions
      /\ live \in Seq(Slot) /\ wseq \in 0 .. MaxSeq /\ MaxSeq \in Nat
  BY ReplayAssumption DEF TypeInv, LogTypeOK, LayoutHolds
<1>3. append.e.len \in 1 .. NSectors /\ Len(live) \in Nat /\ NSectors \in Nat \ {0}
  BY <1>2, SlotIs, LenProperties, RegionAssumption
<1>4. live # << >> /\ Len(live) \in 1 .. Len(live)
  <2>1. live # << >>
    <3>1. wseq - Len(live) >= 1
      BY <1>2, <1>3
    <3> QED
      BY <1>2, <1>3, <3>1 DEF LayoutHolds
  <2> QED
    BY <1>2, <1>3, <2>1, EmptySeq
<1> DEFINE last == live[Len(live)]  y == After(last.pos, last.e.len - 1)
           d == From(p, wpos)  z == After(p, d - 1)
<1>5. /\ last \in Slot /\ wpos = After(last.pos, last.e.len) /\ last.e.seq = wseq - Len(live) + Len(live)
  BY <1>2, <1>4, ElementOfSeq DEF LayoutHolds
<1>6. last.pos \in Positions /\ last.e \in LogEntry /\ last.e.len \in 1 .. NSectors
  BY <1>5, SlotIs
<1> DEFINE j == last.e.len - 1
<1>7. j \in 0 .. last.e.len - 1 /\ j \in Nat /\ 1 \in Nat /\ j + 1 <= NSectors /\ j + 1 = last.e.len
  <2>1. \A l \in 1 .. NSectors :
          l - 1 \in 0 .. l - 1 /\ l - 1 \in Nat /\ l - 1 + 1 <= NSectors /\ l - 1 + 1 = l
    BY <1>3
  <2> QED
    BY <1>6, <2>1
<1>8. /\ y \in Positions /\ After(y, 1) = wpos /\ regionMay[y] = {Part(last.e, j)}
      /\ ~(From(wpos, y) < append.e.len)
  <2>1. After(y, 1) = After(last.pos, j + 1)
    BY <1>6, <1>7, RingAdd
  <2>2. y \in Positions /\ ~(From(wpos, y) < append.e.len)
    BY <1>2, <1>3, <1>4, <1>7, SpanFree
  <2>3. regionMay[y] = {Part(last.e, j)}
    BY <1>4, <1>7 DEF LiveStored
  <2> QED
    BY <1>5, <1>7, <2>1, <2>2, <2>3
<1>9. k \in 0 .. NSectors - 1 /\ e.len \in 1 .. NSectors
  BY SpanIn DEF LogEntry
<1>10. d \in 1 .. k /\ After(z, 1) = wpos
  BY <1>1, <1>2, <1>3, <1>9, RingCross
<1>11. d - 1 \in 0 .. e.len - 1
  <2> HIDE DEF d
  <2> QED
    BY <1>3, <1>9, <1>10
<1>12. z \in Positions /\ z = y
  BY <1>8, <1>10, <1>11, SpanIn, RingBefore
<1>13. Appended(z) = {}
  BY <1>2, <1>8, <1>12 DEF Appended
<1>14. Part(last.e, j) = Part(e, d - 1)
  BY <1>8, <1>11, <1>12, <1>13
<1>15. last.e = e
  BY <1>14 DEF Part
<1> QED
  BY <1>2, <1>3, <1>4, <1>5, <1>15

(* A commit makes a live entry of the append, and lets the applied go. *)
LEMMA CommitStands ==
  ASSUME TypeInv, LayoutHolds, Standing, Landed, CommitEntry
  PROVE  Standing'
<1> DEFINE m == Len(live) - nApplied
<1>1. /\ append \in Slot /\ append # NoSlot /\ append.pos = wpos /\ append.e.seq = wseq + 1
      /\ Len(live) \in Nat /\ nApplied \in 0 .. Len(live) /\ wseq \in Nat
      /\ live' \in Seq(Slot) /\ Len(live') = m + 1
      /\ \A i \in 1 .. m : live'[i] = live[nApplied + i] /\ nApplied + i \in 1 .. Len(live)
      /\ live'[m + 1] = append /\ wseq' = wseq + 1 /\ append' = NoSlot
      /\ committed' = [committed EXCEPT ![append.e.target] = append.e.seq]
  BY CommitIs
<1>2. m \in Nat /\ NSectors \in Nat \ {0} /\ wpos \in Positions /\ committed \in [Targets -> Values]
  BY <1>1, RegionAssumption DEF TypeInv, LogTypeOK
<1>3. /\ region' = region /\ guidMay' = {guid}
      /\ \A p \in Positions : regionMay'[p] = {region[p]} /\ region[p] \in regionMay[p]
                              /\ regionMay[p] \subseteq Sectors
  BY FileFlushed DEF CommitEntry, TypeInv, FileHolds
<1>4. guidMay' = {"ours"}
  BY <1>3 DEF Standing, TypeInv, FileHolds
<1>5. \A i \in 1 .. Len(live') : i = m + 1 \/ i \in 1 .. m
  <2> HIDE DEF m
  <2> QED
    BY <1>1, <1>2
<1>6. \A i \in 1 .. Len(live) : live[i] \in Slot
  BY LayoutIs
<1>7. LiveStored'
  <2>1. ASSUME NEW i \in 1 .. Len(live'), NEW k \in 0 .. live'[i].e.len - 1
        PROVE  regionMay'[After(live'[i].pos, k)] = {Part(live'[i].e, k)}
    <3>1. CASE i = m + 1
      <4>1. append.pos \in Positions /\ append.e \in LogEntry /\ live'[i] = append
        BY <1>1, <3>1, SlotIs
      <4>2. After(append.pos, k) \in Positions
        BY <2>1, <4>1, SpanIn
      <4>3. region[After(append.pos, k)] = Part(append.e, k)
        BY <2>1, <4>1 DEF Landed
      <4> QED
        BY <1>3, <4>1, <4>2, <4>3
    <3>2. CASE i \in 1 .. m
      <4>1. live'[i] = live[nApplied + i] /\ nApplied + i \in 1 .. Len(live)
        BY <1>1, <3>2
      <4>2. live'[i].pos \in Positions /\ live'[i].e \in LogEntry
        BY <1>6, <4>1, SlotIs
      <4>3. After(live'[i].pos, k) \in Positions
        BY <2>1, <4>2, SpanIn
      <4>4. regionMay[After(live'[i].pos, k)] = {Part(live'[i].e, k)}
        BY <2>1, <4>1 DEF Standing, LiveStored
      <4> QED
        BY <1>3, <4>3, <4>4
    <3> QED
      BY <1>5, <2>1, <3>1, <3>2
  <2> QED
    BY <2>1 DEF LiveStored
<1>8. HeadsKnown'
  <2> DEFINE Known(p, e) ==
               \/ \E i \in 1 .. Len(live') : p = live'[i].pos /\ e = live'[i].e
               \/ /\ e.seq <= wseq' - Len(live')
                  /\ \A k \in 0 .. e.len - 1 : regionMay'[After(p, k)] \subseteq {Part(e, k)}
  <2>1. ASSUME NEW p \in Positions, IsHead(region[p]) PROVE Known(p, region[p].entry)
    <3> DEFINE c == region[p]  e == c.entry
    <3>1. c \in regionMay[p] /\ c \in Sectors
      BY <1>3
    <3>2. e \in LogEntry /\ c = Part(e, 0)
      BY <2>1, <3>1, HeadIs
    <3>3. e.seq \in 1 .. MaxSeq /\ MaxSeq \in Nat
      BY <2>1, <3>1, ReplayAssumption DEF TypeInv, FileHolds
    <3>4. wseq' - Len(live') = wseq - Len(live) + nApplied
      BY <1>1
    <3>5. ASSUME NEW i \in 1 .. Len(live), p = live[i].pos, e = live[i].e PROVE Known(p, e)
      <4>1. CASE i > nApplied
        <5>1. i - nApplied \in 1 .. m /\ nApplied + (i - nApplied) = i /\ i - nApplied \in 1 .. Len(live')
          <6> DEFINE n == Len(live)
          <6>1. n \in Nat /\ m = n - nApplied /\ nApplied \in Nat /\ i \in 1 .. n
            BY <1>1, <3>5
          <6> HIDE DEF n, m
          <6> QED
            BY <1>1, <1>2, <4>1, <6>1
        <5>2. live'[i - nApplied] = live[i]
          BY <1>1, <5>1
        <5> QED
          BY <3>5, <5>1, <5>2
      <4>2. CASE ~(i > nApplied)
        <5>1. e.seq = wseq - Len(live) + i
          BY <3>5 DEF LayoutHolds
        <5>2. e.seq <= wseq' - Len(live')
          BY <1>1, <3>4, <3>5, <4>2, <5>1
        <5>3. \A k \in 0 .. e.len - 1 : regionMay'[After(p, k)] \subseteq {Part(e, k)}
          <6> TAKE k \in 0 .. e.len - 1
          <6>1. After(p, k) \in Positions
            BY <3>2, SpanIn
          <6>2. regionMay[After(p, k)] = {Part(e, k)}
            BY <3>5 DEF Standing, LiveStored
          <6> QED
            BY <1>3, <6>1, <6>2
        <5> QED
          BY <5>2, <5>3
      <4> QED
        BY <4>1, <4>2
    <3>6. CASE p = append.pos /\ e = append.e
      <4>1. m + 1 \in 1 .. Len(live')
        BY <1>1, <1>2
      <4> QED
        BY <1>1, <3>6, <4>1
    <3>7. ASSUME e.seq <= wseq - Len(live),
                 \A k \in 0 .. e.len - 1 :
                   regionMay[After(p, k)] \subseteq {Part(e, k)} \cup Appended(After(p, k))
          PROVE  Known(p, e)
      <4>1. ~(From(wpos, p) < append.e.len)
        <5>1. SUFFICES ASSUME From(wpos, p) < append.e.len PROVE FALSE
          OBVIOUS
        <5>2. From(wpos, p) \in 0 .. NSectors - 1 /\ After(wpos, From(wpos, p)) = p
          BY <1>2, FromIs, RingIs
        <5>3. append.e.len \in 1 .. NSectors
          BY <1>1, SlotIs
        <5>4. From(wpos, p) \in 0 .. append.e.len - 1
          BY <1>2, <5>1, <5>2, <5>3
        <5>5. region[p] = Part(append.e, From(wpos, p))
          BY <1>1, <5>2, <5>4 DEF Landed
        <5>6. e = append.e
          BY <5>5 DEF Part
        <5> QED
          BY <1>1, <3>7, <5>6
      <4>2. ASSUME NEW k \in 0 .. e.len - 1 PROVE regionMay'[After(p, k)] \subseteq {Part(e, k)}
        <5>1. ~(From(wpos, After(p, k)) < append.e.len)
          <6> HIDE DEF c, e
          <6> QED
            BY <1>1, <3>2, <3>3, <3>7, <4>1, <4>2, OldApart DEF Standing
        <5>2. Appended(After(p, k)) = {}
          BY <1>1, <5>1 DEF Appended
        <5>3. After(p, k) \in Positions
          BY <3>2, <4>2, SpanIn
        <5>4. regionMay[After(p, k)] \subseteq {Part(e, k)}
          BY <3>7, <4>2, <5>2
        <5> QED
          BY <1>3, <5>3, <5>4
      <4>3. e.seq <= wseq' - Len(live')
        <5>1. wseq - Len(live) \in Int /\ nApplied \in Nat /\ e.seq \in Int
          BY <1>1, <3>3
        <5> HIDE DEF e
        <5> QED
          BY <3>4, <3>7, <5>1
      <4> QED
        BY <4>2, <4>3
    <3>8. \/ \E i \in 1 .. Len(live) : p = live[i].pos /\ e = live[i].e
          \/ p = append.pos /\ e = append.e
          \/ /\ e.seq <= wseq - Len(live)
             /\ \A k \in 0 .. e.len - 1 :
                  regionMay[After(p, k)] \subseteq {Part(e, k)} \cup Appended(After(p, k))
      BY <2>1, <3>1 DEF Standing, HeadsKnown
    <3> QED
      BY <3>5, <3>6, <3>7, <3>8
  <2>2. ASSUME NEW p \in Positions, NEW c \in regionMay'[p], IsHead(c) PROVE Known(p, c.entry)
    <3>1. c = region[p]
      BY <1>3, <2>2
    <3> QED
      BY <2>1, <2>2, <3>1
  <2> QED
    BY <1>1, <2>2 DEF HeadsKnown
<1>9. LastHolds'
  <2>1. ASSUME NEW i \in 1 .. Len(live'), \A j \in i + 1 .. Len(live') : live'[j].e.target # live'[i].e.target
        PROVE  committed'[live'[i].e.target] = live'[i].e.seq
    <3>1. append.e.target \in Targets
      BY <1>1, SlotIs
    <3>2. CASE i = m + 1
      BY <1>1, <1>2, <3>1, <3>2
    <3>3. CASE i \in 1 .. m
      <4>1. live'[i] = live[nApplied + i] /\ nApplied + i \in 1 .. Len(live)
        BY <1>1, <3>3
      <4>2. m + 1 \in i + 1 .. Len(live')
        <5> HIDE DEF m
        <5> QED
          BY <1>1, <1>2, <3>3
      <4>3. live'[i].e.target # append.e.target
        BY <1>1, <2>1, <4>2
      <4>4. ASSUME NEW j \in nApplied + i + 1 .. Len(live) PROVE live[j].e.target # live[nApplied + i].e.target
        <5> DEFINE n == Len(live)
        <5>1. n \in Nat /\ m = n - nApplied /\ nApplied \in Nat /\ j \in nApplied + i + 1 .. n
          BY <1>1, <4>4
        <5>2. j - nApplied \in 1 .. m /\ nApplied + (j - nApplied) = j /\ j - nApplied \in i + 1 .. Len(live')
          <6> HIDE DEF n, m
          <6> QED
            BY <1>1, <1>2, <3>3, <5>1
        <5>3. live'[j - nApplied] = live[j]
          BY <1>1, <5>2
        <5> QED
          BY <2>1, <4>1, <5>2, <5>3
      <4>5. committed[live[nApplied + i].e.target] = live[nApplied + i].e.seq
        BY <4>1, <4>4 DEF Standing, LastHolds
      <4> QED
        BY <1>1, <1>2, <4>1, <4>3, <4>5
    <3> QED
      BY <1>5, <2>1, <3>2, <3>3
  <2> QED
    BY <2>1 DEF LastHolds
<1> QED
  BY <1>4, <1>7, <1>8, <1>9 DEF Standing

-----------------------------------------------------------------------------
(* What reading the region leaves as it was. *)
LEMMA ActiveKept ==
  ASSUME UNCHANGED <<region, live, nApplied, append>>
  PROVE  Active' = Active /\ \A p : Whole(p)' <=> Whole(p)
<1>1. NotApplied' = NotApplied /\ (Landed' <=> Landed)
  BY DEF NotApplied, Landed
<1>2. \A p : Whole(p)' <=> Whole(p)
  BY DEF Whole, IsHead, Intact
<1> QED
  BY <1>1, <1>2 DEF Active
LEMMA ReplayKept ==
  ASSUME UNCHANGED <<region, regionMay, place, placeMay, guidMay, wpos, wseq, live, nApplied, append,
                     committed>>
  PROVE  /\ Standing => Standing'
         /\ Spent => Spent'
         /\ OthersKept(Active) => OthersKept(Active)'
<1>1. Active' = Active
  BY ActiveKept
<1>2. \A q : Appended(q)' = Appended(q)
  BY DEF Appended
<1>3. Standing => Standing'
  BY <1>2 DEF Standing, LiveStored, HeadsKnown, LastHolds
<1>4. Spent => Spent'
  BY DEF Spent, Recovered, IsHead, Intact
<1>5. OthersKept(Active) => OthersKept(Active)'
  BY <1>1 DEF OthersKept, Kept
<1> QED
  BY <1>3, <1>4, <1>5

(* The less a crash may leave, the less there is to rely on. *)
LEMMA StandingLess ==
  ASSUME TypeInv, LayoutHolds, Standing, UNCHANGED <<live, append, wseq, committed>>,
         \A p \in Positions : regionMay'[p] \subseteq regionMay[p] /\ regionMay'[p] # {},
         guidMay' \subseteq guidMay, guidMay' # {}
  PROVE  Standing'
<1>1. guidMay' = {"ours"}
  BY DEF Standing
<1>2. LiveStored'
  <2>1. ASSUME NEW i \in 1 .. Len(live), NEW k \in 0 .. live[i].e.len - 1
        PROVE  regionMay'[After(live[i].pos, k)] = {Part(live[i].e, k)}
    <3>1. After(live[i].pos, k) \in Positions
      BY <2>1, LayoutIs
    <3>2. regionMay[After(live[i].pos, k)] = {Part(live[i].e, k)}
      BY <2>1 DEF Standing, LiveStored
    <3> QED
      BY <3>1, <3>2
  <2> QED
    BY <2>1 DEF LiveStored
<1>3. \A q : Appended(q)' = Appended(q)
  BY DEF Appended
<1>4. HeadsKnown'
  <2>1. ASSUME NEW p \in Positions, NEW c \in regionMay'[p], IsHead(c)
        PROVE  \/ \E i \in 1 .. Len(live) : p = live[i].pos /\ c.entry = live[i].e
               \/ append # NoSlot /\ p = append.pos /\ c.entry = append.e
               \/ /\ c.entry.seq <= wseq - Len(live)
                  /\ \A k \in 0 .. c.entry.len - 1 :
                       regionMay'[After(p, k)] \subseteq {Part(c.entry, k)} \cup Appended(After(p, k))
    <3>1. c \in regionMay[p]
      BY <2>1
    <3>2. c \in Sectors
      BY <3>1 DEF TypeInv, LogTypeOK
    <3>3. c.entry \in LogEntry
      BY <2>1, <3>2, HeadIs
    <3>4. \A k \in 0 .. c.entry.len - 1 : After(p, k) \in Positions
      BY <3>3, SpanIn
    <3> QED
      BY <2>1, <3>1, <3>4 DEF Standing, HeadsKnown
  <2> QED
    BY <1>3, <2>1 DEF HeadsKnown
<1>5. LastHolds'
  BY DEF Standing, LastHolds
<1> QED
  BY <1>1, <1>2, <1>4, <1>5 DEF Standing

(* An entry is applied where the writer wants it. *)
LEMMA WriteBackIs ==
  ASSUME TypeInv, NotApplied # << >>
  PROVE  /\ NotApplied[1] = live[nApplied + 1] /\ nApplied + 1 \in 1 .. Len(live)
         /\ NotApplied[1] \in Slot /\ NotApplied[1].e.target \in Targets
         /\ NotApplied[1].e.seq \in 1 .. MaxSeq /\ NotApplied[1].e.seq \in Values
         /\ 1 \in 1 .. Len(NotApplied)
<1>1. live \in Seq(Slot) /\ nApplied \in 0 .. Len(live) /\ MaxSeq \in Nat
  BY ReplayAssumption DEF TypeInv, LogTypeOK
<1>2. 1 \in 1 .. Len(live) - nApplied /\ Len(NotApplied) = Len(live) - nApplied
  BY <1>1, NotAppliedIs
<1>3. NotApplied[1] = live[nApplied + 1] /\ nApplied + 1 \in 1 .. Len(live)
  BY <1>1, <1>2, NotAppliedIs
<1>4. NotApplied[1] \in Slot /\ NotApplied[1].e.seq \in 1 .. MaxSeq
  BY <1>1, <1>3, ElementOfSeq DEF TypeInv, ScanHolds
<1> QED
  BY <1>1, <1>2, <1>3, <1>4, SlotIs DEF Values, Torn

(* The writer's steps keep what its log is for. *)
LEMMA WritingStep ==
  ASSUME TypeInv, LayoutHolds, WritingHolds, [Next]_vars
  PROVE  WritingHolds'
<1>0. /\ live \in Seq(Slot) /\ nApplied \in 0 .. Len(live) /\ committed \in [Targets -> Values]
      /\ FileHolds /\ MaxSeq \in Nat
  BY ReplayAssumption DEF TypeInv, LogTypeOK
<1>1. ASSUME NEW t \in Targets, NEW n \in Lengths, AppendEntry(t, n) PROVE WritingHolds'
  <2>1. phase = "write" /\ phase' = "append"
        /\ UNCHANGED <<live, nApplied, committed, place, placeMay>>
    BY <1>1 DEF AppendEntry, WriteRegion
  <2>2. append = NoSlot /\ Standing /\ OthersKept(NotApplied)
    BY <2>1 DEF WritingHolds
  <2>3. Standing' /\ Landed'
    BY <1>1, <2>2, AppendStands, AppendReaches
  <2>4. OthersKept(NotApplied)'
    BY <2>1, <2>2 DEF OthersKept, Kept, NotApplied
  <2> QED
    BY <2>1, <2>3, <2>4 DEF WritingHolds
<1>2. CASE CommitEntry
  <2>1. phase = "append" /\ phase' = "write" /\ FlushAll
    BY <1>2 DEF CommitEntry
  <2>2. Standing /\ OthersKept(NotApplied) /\ Landed
    BY <2>1 DEF WritingHolds
  <2>3. Standing'
    BY <1>2, <2>2, CommitStands
  <2> DEFINE m == Len(live) - nApplied
  <2>4. /\ append \in Slot /\ append' = NoSlot /\ nApplied' = 0
        /\ live' \in Seq(Slot) /\ Len(live') = m + 1 /\ Len(live) \in Nat
        /\ \A i \in 1 .. m : live'[i] = live[nApplied + i] /\ nApplied + i \in 1 .. Len(live)
        /\ live'[m + 1] = append
        /\ committed' = [committed EXCEPT ![append.e.target] = append.e.seq]
    BY <1>2, CommitIs
  <2>5. m \in Nat
    BY <1>0, <2>4
  <2>6. place' = place /\ \A t \in Targets : placeMay'[t] = {place[t]}
    BY <1>0, <2>1, FileFlushed
  <2>7. /\ Len(NotApplied') = m + 1
        /\ \A i \in 1 .. m + 1 : NotApplied'[i] = live'[i]
    <3>1. NotApplied' = SubSeq(live', 0 + 1, Len(live')) /\ 0 \in 0 .. Len(live')
      BY <2>4, <2>5 DEF NotApplied
    <3>2. Len(NotApplied') = Len(live') - 0 /\ \A i \in 1 .. Len(live') - 0 : NotApplied'[i] = live'[0 + i]
      BY <2>4, <3>1, DropIs
    <3> HIDE DEF m
    <3> QED
      BY <2>4, <2>5, <3>2
  <2>8. OthersKept(NotApplied)'
    <3>1. ASSUME NEW t \in Targets, \A i \in 1 .. m + 1 : NotApplied'[i].e.target # t
          PROVE  place'[t] = committed'[t] /\ placeMay'[t] = {committed'[t]}
      <4>1. m + 1 \in 1 .. m + 1 /\ \A i \in 1 .. m : i \in 1 .. m + 1
        BY <2>5
      <4>2. append.e.target # t
        BY <2>4, <2>7, <3>1, <4>1
      <4>3. \A i \in 1 .. m : NotApplied[i].e.target # t
        BY <1>0, <2>4, <2>7, <3>1, <4>1, NotAppliedIs
      <4>4. Kept(t)
        BY <1>0, <2>2, <4>3, NotAppliedIs DEF OthersKept
      <4> QED
        BY <1>0, <2>4, <2>6, <4>2, <4>4 DEF Kept
    <3> QED
      BY <2>7, <3>1 DEF OthersKept, Kept
  <2> QED
    BY <2>1, <2>3, <2>4, <2>8 DEF WritingHolds
<1>3. CASE WriteBack
  <2> DEFINE s == NotApplied[1]
  <2>1. /\ phase = "write" /\ phase' = "writeBack" /\ NotApplied # << >> /\ WritePlace(s.e.target, s.e.seq)
        /\ UNCHANGED <<wpos, wseq, live, nApplied, append, committed, region, regionMay, guid, guidMay>>
    BY <1>3 DEF WriteBack, WritePlace, writerVars
  <2>2. append = NoSlot /\ Standing /\ OthersKept(NotApplied)
    BY <2>1 DEF WritingHolds
  <2>3. Standing'
    <3>1. \A p \in Positions : regionMay'[p] \subseteq regionMay[p] /\ regionMay'[p] # {}
      BY <1>0, <2>1 DEF FileHolds
    <3>2. guidMay' \subseteq guidMay /\ guidMay' # {}
      BY <1>0, <2>1 DEF FileHolds
    <3> QED
      BY <2>1, <2>2, <3>1, <3>2, StandingLess
  <2>4. s.e.target \in Targets /\ s.e.seq \in Values /\ 1 \in 1 .. Len(NotApplied)
    BY <2>1, WriteBackIs
  <2>5. /\ place'[s.e.target] = s.e.seq
        /\ \A u \in Targets : u # s.e.target => place'[u] = place[u] /\ placeMay'[u] = placeMay[u]
    BY <1>0, <2>1, <2>4, PlaceWritten
  <2>6. NotApplied' = NotApplied
    BY <2>1 DEF NotApplied
  <2>7. OthersKept(NotApplied)'
    <3>1. \A t \in Targets : (\A i \in 1 .. Len(NotApplied) : NotApplied[i].e.target # t) =>
            place'[t] = committed[t] /\ placeMay'[t] = {committed[t]}
      BY <2>2, <2>4, <2>5 DEF OthersKept, Kept
    <3> QED
      BY <2>1, <2>6, <3>1 DEF OthersKept, Kept
  <2> QED
    BY <2>1, <2>2, <2>3, <2>5, <2>6, <2>7 DEF WritingHolds
<1>4. CASE WriteBackFlush
  <2> DEFINE s == NotApplied[1]  m == Len(live) - nApplied
  <2>1. /\ phase = "writeBack" /\ phase' = "write" /\ FlushAll /\ nApplied' = nApplied + 1
        /\ UNCHANGED <<wpos, wseq, live, append, committed>>
    BY <1>4 DEF WriteBackFlush
  <2>2. /\ append = NoSlot /\ Standing /\ OthersKept(NotApplied) /\ NotApplied # << >>
        /\ place[s.e.target] = s.e.seq
    BY <2>1 DEF WritingHolds
  <2>3. /\ place' = place /\ \A t \in Targets : placeMay'[t] = {place[t]}
        /\ \A p \in Positions : regionMay'[p] = {region[p]} /\ regionMay'[p] \subseteq regionMay[p]
        /\ guidMay' = {guid} /\ guidMay' \subseteq guidMay
    BY <1>0, <2>1, FileFlushed
  <2>4. Standing'
    BY <2>1, <2>2, <2>3, StandingLess
  <2>5. s = live[nApplied + 1] /\ nApplied + 1 \in 1 .. Len(live) /\ s.e.target \in Targets
    BY <2>2, WriteBackIs
  <2>6. /\ Len(NotApplied) = m /\ \A i \in 1 .. m : NotApplied[i] = live[nApplied + i]
        /\ Len(live) \in Nat /\ nApplied \in Nat
    BY <1>0, NotAppliedIs
  <2>7. /\ Len(NotApplied') = Len(live) - (nApplied + 1)
        /\ \A i \in 1 .. Len(live) - (nApplied + 1) : NotApplied'[i] = live[nApplied + 1 + i]
    <3>1. NotApplied' = SubSeq(live, nApplied + 1 + 1, Len(live)) /\ nApplied + 1 \in 0 .. Len(live)
      BY <1>0, <2>1, <2>5, <2>6 DEF NotApplied
    <3> QED
      BY <1>0, <3>1, DropIs
  <2>8. OthersKept(NotApplied)'
    <3>1. ASSUME NEW t \in Targets,
                 \A i \in 1 .. Len(live) - (nApplied + 1) : NotApplied'[i].e.target # t
          PROVE  place'[t] = committed[t] /\ placeMay'[t] = {committed[t]}
      <4>1. ASSUME NEW j \in nApplied + 2 .. Len(live) PROVE live[j].e.target # t
        <5>1. /\ j - (nApplied + 1) \in 1 .. Len(live) - (nApplied + 1)
              /\ nApplied + 1 + (j - (nApplied + 1)) = j
          BY <2>6, <4>1
        <5> QED
          BY <2>7, <3>1, <5>1
      <4>2. CASE s.e.target = t
        <5>1. nApplied + 1 + 1 = nApplied + 2
          BY <2>6
        <5>2. committed[t] = s.e.seq
          BY <2>2, <2>5, <4>1, <4>2, <5>1 DEF Standing, LastHolds
        <5> QED
          BY <2>2, <2>3, <4>2, <5>2
      <4>3. CASE s.e.target # t
        <5>1. ASSUME NEW i \in 1 .. m PROVE NotApplied[i].e.target # t
          <6>1. CASE i = 1
            BY <4>3, <6>1
          <6>2. CASE i # 1
            <7>1. nApplied + i \in nApplied + 2 .. Len(live)
              BY <2>6, <5>1, <6>2
            <7> QED
              BY <2>6, <4>1, <5>1, <7>1
          <6> QED
            BY <6>1, <6>2
        <5>2. Kept(t)
          BY <2>2, <2>6, <5>1 DEF OthersKept
        <5> QED
          BY <2>3, <5>2 DEF Kept
      <4> QED
        BY <4>2, <4>3
    <3> QED
      BY <2>1, <2>7, <3>1 DEF OthersKept, Kept
  <2> QED
    BY <2>1, <2>2, <2>4, <2>8 DEF WritingHolds
<1>5. CASE Opener \/ Close \/ Crash
  <2>1. phase' \notin {"write", "append", "writeBack"}
    BY <1>5 DEF Opener, CollectChain, Probe, SelectChain, WalkChain, ApplyEntry, ApplyFlush,
                EraseChunk, EraseFlush, ClearGuid, ClearFlush, Close, Crash
  <2> QED
    BY <2>1 DEF WritingHolds
<1>6. CASE UNCHANGED vars
  <2>1. UNCHANGED <<region, regionMay, place, placeMay, guid, guidMay, phase, wpos, wseq, live,
                    nApplied, append, committed>>
    BY <1>6 DEF vars, fileVars, writerVars
  <2>2. Standing => Standing'
    BY <2>1, ReplayKept
  <2>3. NotApplied' = NotApplied /\ (Landed => Landed')
    BY <2>1 DEF NotApplied, Landed
  <2>4. OthersKept(NotApplied) => OthersKept(NotApplied)'
    BY <2>1, <2>3 DEF OthersKept, Kept
  <2> QED
    BY <2>1, <2>2, <2>3, <2>4 DEF WritingHolds
<1> QED
  BY <1>1, <1>2, <1>3, <1>4, <1>5, <1>6 DEF Next, Writer

-----------------------------------------------------------------------------
(* Where a head lies that a read finds, and how far it can be trusted. *)
LEMMA HeadKnown ==
  ASSUME TypeInv, LayoutHolds, Standing, NEW p \in Positions, IsHead(region[p])
  PROVE  LET e == region[p].entry IN
         /\ e \in LogEntry /\ e.seq \in 1 .. MaxSeq /\ region[p] = Part(e, 0)
         /\ \/ \E i \in 1 .. Len(live) : p = live[i].pos /\ e = live[i].e
            \/ append # NoSlot /\ p = append.pos /\ append.pos = wpos /\ e = append.e
            \/ /\ e.seq <= wseq - Len(live)
               /\ \A k \in 0 .. e.len - 1 : region[After(p, k)] \in {Part(e, k)} \cup Appended(After(p, k))
<1> DEFINE e == region[p].entry
<1>1. region[p] \in regionMay[p] /\ region[p] \in Sectors
  BY DEF TypeInv, FileHolds
<1>2. e \in LogEntry /\ region[p] = Part(e, 0)
  BY <1>1, HeadIs
<1>3. e.seq \in 1 .. MaxSeq
  BY <1>1 DEF TypeInv, FileHolds
<1>4. \A k \in 0 .. e.len - 1 : region[After(p, k)] \in regionMay[After(p, k)]
  BY <1>2, SpanIn DEF TypeInv, FileHolds
<1>5. append # NoSlot => append.pos = wpos
  BY DEF LayoutHolds
<1> QED
  BY <1>1, <1>2, <1>3, <1>4, <1>5 DEF Standing, HeadsKnown

(* The live entries read as they were written. *)
LEMMA LiveWhole ==
  ASSUME TypeInv, LayoutHolds, Standing, NEW i \in 1 .. Len(live)
  PROVE  \A k \in 0 .. live[i].e.len - 1 : region[After(live[i].pos, k)] = Part(live[i].e, k)
<1> TAKE k \in 0 .. live[i].e.len - 1
<1>1. After(live[i].pos, k) \in Positions
  BY LayoutIs
<1>2. region[After(live[i].pos, k)] \in regionMay[After(live[i].pos, k)]
  BY <1>1 DEF TypeInv, FileHolds
<1>3. regionMay[After(live[i].pos, k)] = {Part(live[i].e, k)}
  BY DEF Standing, LiveStored
<1> QED
  BY <1>2, <1>3

(* All of an entry in its place is an entry discovery accepts. *)
LEMMA StoredWhole ==
  ASSUME NEW s \in Slot, s.e.guid = "ours",
         \A k \in 0 .. s.e.len - 1 : region[After(s.pos, k)] = Part(s.e, k)
  PROVE  Whole(s.pos) /\ region[s.pos].entry = s.e
<1>1. s.pos \in Positions /\ s.e.len \in 1 .. NSectors /\ NSectors \in Nat \ {0}
  BY SlotIs, RegionAssumption
<1>2. 0 \in 0 .. s.e.len - 1 /\ 0 \in 0 .. NSectors /\ s.pos \in Nat /\ s.pos < NSectors
  BY <1>1 DEF Positions
<1>3. After(s.pos, 0) = s.pos
  BY <1>1, <1>2, AfterIs
<1>4. region[s.pos] = Part(s.e, 0)
  BY <1>2, <1>3
<1>5. region[s.pos].part = 0 /\ region[s.pos].entry = s.e
  BY <1>4 DEF Part
<1> QED
  BY <1>5 DEF Whole, IsHead, Intact

(* The chain there is to find lies whole in the region, one entry after    *)
(* the other; its last names its first.                                    *)
LEMMA ActiveIs ==
  ASSUME TypeInv, LayoutHolds, Standing
  PROVE  LET n == Len(Active) IN
         /\ Active \in Seq(Slot) /\ n \in Nat /\ (Active = << >> <=> n = 0)
         /\ n >= 1 => /\ Active[n].e.tail = Active[1].pos
                      /\ Active[n].e.seq = IF Landed THEN wseq + 1 ELSE wseq
         /\ Landed => n >= 1 /\ Active[n] = append
         /\ ~Landed => Active = live
         /\ \A i \in 1 .. n :
              /\ Active[i] \in Slot /\ Active[i].e.guid = "ours"
              /\ \A k \in 0 .. Active[i].e.len - 1 : region[After(Active[i].pos, k)] = Part(Active[i].e, k)
              /\ i < n => /\ Active[i + 1].pos = After(Active[i].pos, Active[i].e.len)
                          /\ Active[i + 1].e.seq = Active[i].e.seq + 1
<1>1. /\ live \in Seq(Slot) /\ nApplied \in 0 .. Len(live) /\ wseq \in Nat /\ MaxSeq \in Nat
      /\ append \in Slot \cup {NoSlot} /\ Len(live) \in Nat
  BY ReplayAssumption, LenProperties DEF TypeInv, LogTypeOK
<1>2. ASSUME NEW i \in 1 .. Len(live)
      PROVE  /\ live[i] \in Slot /\ live[i].e.guid = "ours" /\ live[i].e.seq = wseq - Len(live) + i
             /\ \A k \in 0 .. live[i].e.len - 1 : region[After(live[i].pos, k)] = Part(live[i].e, k)
             /\ i < Len(live) => /\ live[i + 1].pos = After(live[i].pos, live[i].e.len)
                                 /\ live[i + 1].e.seq = live[i].e.seq + 1
  <2>1. i < Len(live) => i + 1 \in 1 .. Len(live)
    BY <1>1, <1>2
  <2>2. live[i].e.seq = wseq - Len(live) + i /\ (i < Len(live) => live[i + 1].e.seq = wseq - Len(live) + (i + 1))
    BY <1>2, <2>1 DEF LayoutHolds
  <2>3. i < Len(live) => live[i + 1].e.seq = live[i].e.seq + 1
    BY <1>1, <1>2, <2>2
  <2>4. i < Len(live) => live[i + 1].pos = After(live[i].pos, live[i].e.len)
    BY <1>2 DEF LayoutHolds
  <2>5. live[i] \in Slot /\ live[i].e.guid = "ours"
    BY <1>1, <1>2, ElementOfSeq DEF LayoutHolds
  <2> QED
    BY <1>2, <2>2, <2>3, <2>4, <2>5, LiveWhole
<1>3. Len(live) >= 1 => Len(live) \in 1 .. Len(live) /\ live # << >>
  BY <1>1, EmptySeq
<1>4. CASE ~Landed
  <2>1. Active = live
    BY <1>4 DEF Active
  <2>2. Len(live) >= 1 => live[Len(live)].e.tail = live[1].pos /\ live[Len(live)].e.seq = wseq
    <3> HAVE Len(live) >= 1
    <3>1. live[Len(live)].e.seq = wseq - Len(live) + Len(live)
      BY <1>2, <1>3
    <3> QED
      BY <1>1, <1>3, <3>1 DEF LayoutHolds
  <2>3. live = << >> <=> Len(live) = 0
    BY <1>1, EmptySeq
  <2> QED
    BY <1>1, <1>2, <1>4, <2>1, <2>2, <2>3
<1>5. CASE Landed
  <2> DEFINE m == Len(live) - nApplied  n == Len(Active)
  <2>1. /\ append # NoSlot /\ append \in Slot /\ Active = Append(NotApplied, append)
        /\ \A k \in 0 .. append.e.len - 1 : region[After(append.pos, k)] = Part(append.e, k)
    BY <1>1, <1>5 DEF Active, Landed
  <2>2. /\ append.pos = wpos /\ append.e.guid = "ours" /\ append.e.seq = wseq + 1
        /\ append.e.tail = IF NotApplied = << >> THEN wpos ELSE NotApplied[1].pos
    BY <2>1 DEF LayoutHolds
  <2>3. /\ NotApplied \in Seq(Slot) /\ Len(NotApplied) = m
        /\ \A i \in 1 .. m : NotApplied[i] = live[nApplied + i] /\ nApplied + i \in 1 .. Len(live)
        /\ NotApplied = << >> <=> nApplied = Len(live)
    BY <1>1, NotAppliedIs
  <2>4. /\ Active \in Seq(Slot) /\ n = m + 1 /\ m \in Nat /\ nApplied \in Nat
        /\ \A i \in 1 .. m : Active[i] = NotApplied[i]
        /\ Active[m + 1] = append
    <3>1. m \in Nat /\ nApplied \in Nat
      BY <1>1
    <3>2. /\ Append(NotApplied, append) \in Seq(Slot) /\ Len(Append(NotApplied, append)) = Len(NotApplied) + 1
          /\ \A i \in 1 .. Len(NotApplied) : Append(NotApplied, append)[i] = NotApplied[i]
          /\ Append(NotApplied, append)[Len(NotApplied) + 1] = append
      BY <2>1, <2>3, AppendProperties
    <3> QED
      BY <2>1, <2>3, <3>1, <3>2
  <2>5. n \in Nat /\ n >= 1 /\ Active # << >> /\ n # 0
    BY <2>4, EmptySeq
  <2>6. Active[n].e.tail = Active[1].pos
    <3>1. CASE m = 0
      <4>1. NotApplied = << >>
        BY <1>1, <2>3, <3>1
      <4> QED
        BY <2>2, <2>4, <3>1, <4>1
    <3>2. CASE m # 0
      <4>1. NotApplied # << >> /\ 1 \in 1 .. m
        BY <1>1, <2>3, <2>4, <3>2
      <4> QED
        BY <2>2, <2>4, <4>1
    <3> QED
      BY <3>1, <3>2
  <2>7. Active[n].e.seq = wseq + 1
    BY <2>2, <2>4
  <2>8. ASSUME NEW i \in 1 .. n
        PROVE  /\ Active[i] \in Slot /\ Active[i].e.guid = "ours"
               /\ \A k \in 0 .. Active[i].e.len - 1 :
                    region[After(Active[i].pos, k)] = Part(Active[i].e, k)
               /\ i < n => /\ Active[i + 1].pos = After(Active[i].pos, Active[i].e.len)
                           /\ Active[i + 1].e.seq = Active[i].e.seq + 1
    <3>1. CASE i = m + 1
      BY <2>1, <2>2, <2>4, <3>1
    <3>2. CASE i # m + 1
      <4>1. i \in 1 .. m
        <5> HIDE DEF n, m
        <5> QED
          BY <2>4, <2>8, <3>2
      <4> DEFINE j == nApplied + i
      <4>2. Active[i] = live[j] /\ j \in 1 .. Len(live)
        BY <2>3, <2>4, <4>1
      <4>3. /\ Active[i + 1].pos = After(live[j].pos, live[j].e.len)
            /\ Active[i + 1].e.seq = live[j].e.seq + 1
        <5>1. CASE i = m
          <6>1. j = Len(live) /\ Active[i + 1] = append /\ live # << >>
            BY <1>1, <1>3, <2>4, <4>2, <5>1
          <6>2. live[j].e.seq = wseq - Len(live) + j
            BY <1>2, <4>2
          <6>3. append.e.seq = live[j].e.seq + 1
            BY <1>1, <2>2, <6>1, <6>2
          <6> QED
            BY <2>2, <6>1, <6>3 DEF LayoutHolds
        <5>2. CASE i # m
          <6>1. i + 1 \in 1 .. m /\ nApplied + (i + 1) = j + 1
            <7> HIDE DEF m
            <7> QED
              BY <2>4, <4>1, <5>2
          <6>2. Active[i + 1] = live[j + 1] /\ j + 1 \in 1 .. Len(live)
            BY <2>3, <2>4, <6>1
          <6>3. j < Len(live)
            BY <1>1, <4>2, <6>2
          <6> QED
            BY <1>2, <4>2, <6>2, <6>3
        <5> QED
          BY <5>1, <5>2
      <4> QED
        BY <1>2, <4>2, <4>3
    <3> QED
      BY <3>1, <3>2
  <2> QED
    BY <1>5, <2>4, <2>5, <2>6, <2>7, <2>8
<1> QED
  BY <1>4, <1>5

(* No entry that reads whole is newer than the last of the chain. *)
LEMMA WholeBelow ==
  ASSUME TypeInv, LayoutHolds, Standing, NEW p \in Positions, Whole(p)
  PROVE  LET n == Len(Active) IN
         /\ n >= 1 /\ region[p].entry.seq \in Nat /\ Active[n].e.seq \in Nat
         /\ region[p].entry.seq <= Active[n].e.seq
         /\ region[p].entry.seq = Active[n].e.seq => p = Active[n].pos
<1> DEFINE e == region[p].entry  n == Len(Active)
<1>1. /\ live \in Seq(Slot) /\ Len(live) \in Nat /\ wseq \in Nat /\ MaxSeq \in Nat
  BY ReplayAssumption, LenProperties DEF TypeInv, LogTypeOK
<1>2. /\ e \in LogEntry /\ e.seq \in 1 .. MaxSeq
      /\ \/ \E i \in 1 .. Len(live) : p = live[i].pos /\ e = live[i].e
         \/ append # NoSlot /\ p = append.pos /\ e = append.e
         \/ e.seq <= wseq - Len(live)
  BY HeadKnown DEF Whole
<1>3. /\ n \in Nat /\ (Landed => n >= 1 /\ Active[n] = append) /\ (~Landed => Active = live)
      /\ n >= 1 => Active[n].e.seq = IF Landed THEN wseq + 1 ELSE wseq
  BY ActiveIs
<1>4. ASSUME NEW i \in 1 .. Len(live), p = live[i].pos, e = live[i].e
      PROVE  /\ n >= 1 /\ e.seq <= Active[n].e.seq
             /\ e.seq = Active[n].e.seq => p = Active[n].pos
  <2>1. e.seq = wseq - Len(live) + i
    BY <1>4 DEF LayoutHolds
  <2>2. CASE Landed
    BY <1>1, <1>3, <1>4, <2>1, <2>2
  <2>3. CASE ~Landed
    <3>1. n = Len(live) /\ n >= 1 /\ Active[n].e.seq = wseq /\ Active[n] = live[Len(live)]
      BY <1>1, <1>3, <1>4, <2>3
    <3>2. e.seq <= wseq /\ (e.seq = wseq => i = Len(live))
      BY <1>1, <1>4, <2>1
    <3> QED
      BY <1>4, <3>1, <3>2
  <2> QED
    BY <2>2, <2>3
<1>5. CASE append # NoSlot /\ p = append.pos /\ e = append.e
  <2>1. Landed
    BY <1>5 DEF Landed, Whole, Intact
  <2>2. Active[n] = append /\ n >= 1 /\ e.seq = Active[n].e.seq
    BY <1>3, <1>5, <2>1
  <2> QED
    BY <1>2, <1>5, <2>2
<1>6. CASE e.seq <= wseq - Len(live)
  <2>1. live # << >>
    <3>1. wseq # 0
      BY <1>1, <1>2, <1>6
    <3> QED
      BY <3>1 DEF LayoutHolds
  <2>2. Len(live) >= 1
    BY <1>1, <2>1, EmptySeq
  <2>3. n >= 1
    BY <1>3, <2>2
  <2>4. e.seq < Active[n].e.seq
    BY <1>1, <1>2, <1>3, <1>6, <2>2, <2>3
  <2> QED
    BY <1>1, <1>2, <1>3, <2>3, <2>4
<1>7. n >= 1 /\ e.seq <= Active[n].e.seq /\ (e.seq = Active[n].e.seq => p = Active[n].pos)
  BY <1>2, <1>4, <1>5, <1>6
<1> QED
  BY <1>1, <1>2, <1>3, <1>7

(* So select_chain takes that for the head, and begins where it says. *)
LEMMA StartIs ==
  ASSUME TypeInv, LayoutHolds, Standing, found = {p \in Positions : Whole(p)}, Len(Active) >= 1
  PROVE  StartOf(region, found) = Active[1].pos /\ Active[1].pos \in found
<1> DEFINE n == Len(Active)  h == Active[n].pos
<1>1. /\ n \in Nat /\ 1 \in 1 .. n /\ n \in 1 .. n /\ Active[n].e.tail = Active[1].pos
      /\ \A i \in 1 .. n :
           /\ Active[i] \in Slot /\ Active[i].e.guid = "ours"
           /\ \A k \in 0 .. Active[i].e.len - 1 : region[After(Active[i].pos, k)] = Part(Active[i].e, k)
  BY ActiveIs
<1>2. \A i \in 1 .. n : Active[i].pos \in found /\ region[Active[i].pos].entry = Active[i].e
  BY <1>1, StoredWhole, SlotIs
<1>3. h \in found /\ Active[1].pos \in found /\ region[h].entry = Active[n].e
  BY <1>1, <1>2
<1>4. \A q \in found : /\ region[q].entry.seq \in Nat /\ region[h].entry.seq \in Nat
                       /\ region[q].entry.seq <= region[h].entry.seq
                       /\ region[q].entry.seq = region[h].entry.seq => q = h
  BY <1>3, WholeBelow
<1>5. h \in Int /\ h <= h
  BY <1>3 DEF Positions
<1> DEFINE First(p) == \A q \in found : \/ region[p].entry.seq > region[q].entry.seq
                                        \/ region[p].entry.seq = region[q].entry.seq /\ p <= q
<1>6. First(h)
  <2> SUFFICES ASSUME NEW q \in found
               PROVE  \/ region[h].entry.seq > region[q].entry.seq
                      \/ region[h].entry.seq = region[q].entry.seq /\ h <= q
    OBVIOUS
  <2>1. CASE q = h
    BY <1>5, <2>1
  <2>2. CASE q # h
    BY <1>4, <2>2
  <2> QED
    BY <2>1, <2>2
<1>7. ASSUME NEW p \in found, First(p) PROVE p = h
  BY <1>3, <1>4, <1>7
<1>8. HeadOf(region, found) = h
  <2>1. HeadOf(region, found) = CHOOSE p \in found : First(p)
    BY DEF HeadOf
  <2> HIDE DEF First, h
  <2> QED
    BY <1>3, <1>6, <1>7, <2>1
<1> QED
  BY <1>1, <1>3, <1>8 DEF StartOf

(* Two entries that begin anywhere but where the next would are apart. *)
LEMMA HeadsApart ==
  ASSUME TypeInv, LayoutHolds, Standing \/ Spent, NEW p \in Positions, IsHead(region[p]), p # wpos,
         NEW k \in 1 .. region[p].entry.len - 1, IsHead(region[After(p, k)])
  PROVE  After(p, k) = wpos
<1>1. Standing
  BY DEF Spent
<1> DEFINE e == region[p].entry  q == After(p, k)
<1>2. /\ e \in LogEntry
      /\ \/ \E i \in 1 .. Len(live) : p = live[i].pos /\ e = live[i].e
         \/ \A j \in 0 .. e.len - 1 : region[After(p, j)] \in {Part(e, j)} \cup Appended(After(p, j))
  BY <1>1, HeadKnown
<1>3. k \in 0 .. e.len - 1 /\ k # 0
  <2>1. e.len \in 1 .. NSectors
    BY <1>2 DEF LogEntry
  <2> QED
    BY <2>1
<1>4. q \in Positions
  BY <1>2, <1>3, SpanIn
<1>5. region[q] # Part(e, k)
  BY <1>3 DEF IsHead, Part
<1>6. ASSUME NEW i \in 1 .. Len(live), p = live[i].pos, e = live[i].e PROVE FALSE
  BY <1>1, <1>3, <1>5, <1>6, LiveWhole
<1>7. region[q] \in Appended(q)
  BY <1>2, <1>3, <1>5, <1>6
<1>8. append # NoSlot /\ region[q] = Part(append.e, From(append.pos, q))
  BY <1>7 DEF Appended
<1>9. append.pos = wpos /\ wpos \in Positions
  BY <1>8 DEF LayoutHolds, TypeInv, LogTypeOK
<1> QED
  BY <1>4, <1>8, <1>9, HeadFirst

-----------------------------------------------------------------------------
(* An open begins: discovery has spent nothing. *)
LEMMA CollectStep ==
  ASSUME TypeInv, ReplayHolds, CollectChain
  PROVE  ReplayHolds' /\ OpenNeverRefuses'
<1>1. /\ phase = "closed" /\ phase' = (IF guid = "none" THEN "open" ELSE "probe")
      /\ budget' = NSectors * 4 /\ NSectors \in Nat \ {0}
      /\ UNCHANGED <<region, regionMay, place, placeMay, guid, guidMay, wpos, wseq, live, nApplied, append,
                     committed, exhausted, found, chain, idx>>
  BY RegionAssumption DEF CollectChain, fileVars, writerVars, DISCOVERY_CHECKSUM_PASSES
<1>2. /\ (Standing /\ OthersKept(Active)) \/ Spent
      /\ \A p \in Positions : regionMay[p] = {region[p]}
  BY <1>1 DEF ReplayHolds
<1>3. /\ (Standing /\ OthersKept(Active))' \/ Spent'
      /\ \A p \in Positions : regionMay'[p] = {region'[p]}
  BY <1>1, <1>2, ReplayKept
<1>4. exhausted = FALSE /\ found = {} /\ idx = 0
  BY <1>1 DEF TypeInv, ScanHolds
<1>5. CASE guid = "none"
  <2>1. ~Standing
    BY <1>5 DEF TypeInv, FileHolds, Standing
  <2>2. Spent'
    BY <1>1, <1>2, <2>1, ReplayKept
  <2>3. phase' = "open"
    BY <1>1, <1>5
  <2> QED
    BY <1>3, <2>2, <2>3 DEF ReplayHolds, OpenNeverRefuses
<1>6. CASE guid # "none"
  <2>1. phase' = "probe"
    BY <1>1, <1>6
  <2>2. \A p \in Positions : p \in Nat
    BY <1>1 DEF Positions
  <2>3. wpos \in Nat
    BY <2>2 DEF TypeInv, LogTypeOK
  <2>4. ProbeHolds'
    <3>1. found' = {p \in Positions : p < idx' /\ Whole(p)'}
      BY <1>1, <1>4, <2>2
    <3>2. NSectors * 4 - budget' = 0 /\ ~(wpos' < idx')
      BY <1>1, <1>4, <2>3
    <3>3. 0 \in 0 .. 2 * NSectors + 0 /\ \A q \in Positions : 0 <= q + 0
      BY <1>1, <2>2
    <3> QED
      BY <1>1, <1>4, <3>1, <3>2, <3>3 DEF ProbeHolds
  <2> QED
    BY <1>3, <2>1, <2>4 DEF ReplayHolds, OpenNeverRefuses
<1> QED
  BY <1>5, <1>6

(* The budget, as arithmetic: what a slot adds to what is spent.           *)
LEMMA BudgetHolds ==
  ASSUME NEW s \in Nat \ {0}, NEW w \in 0 .. s - 1, NEW i \in 0 .. s - 1, NEW b \in Nat, NEW l \in 1 .. s,
         NEW o, o = (IF w < i THEN s ELSE 0),
         s * 4 - b \in 0 .. 2 * s + o, i # w => s * 4 - b <= i + o
  PROVE  /\ l <= b /\ b - l \in Nat
         /\ \A j \in i + 1 .. i + l :
              LET odd == IF w < j THEN s ELSE 0 IN
              /\ s * 4 - (b - l) \in 0 .. 2 * s + odd
              /\ \A q \in 0 .. s - 1 :
                   /\ s * 4 - b <= q + o /\ q >= j /\ q # w /\ (i # w => i + l <= q) =>
                        s * 4 - (b - l) <= q + odd
<1>1. CASE i = w
  <2>1. o = 0 /\ s * 4 - b <= 2 * s
    BY <1>1
  <2> QED
    BY <1>1, <2>1
<1>2. CASE i # w
  <2>1. s * 4 - b <= i + o /\ (o = 0 \/ o = s)
    BY <1>2
  <2>2. l <= b /\ b - l \in Nat
    BY <2>1
  <2>3. ASSUME NEW j \in i + 1 .. i + l
        PROVE  (IF w < j THEN s ELSE 0) >= o /\ (IF w < j THEN s ELSE 0) \in {0, s}
    BY <1>2, <2>3
  <2>4. ASSUME NEW j \in i + 1 .. i + l, NEW odd \in {0, s}, odd >= o
        PROVE  s * 4 - (b - l) \in 0 .. 2 * s + odd
    BY <2>1, <2>2, <2>4
  <2>5. ASSUME NEW j \in i + 1 .. i + l, NEW odd \in {0, s}, odd >= o, NEW q \in 0 .. s - 1, i + l <= q
        PROVE  s * 4 - (b - l) <= q + odd
    BY <2>1, <2>2, <2>5
  <2> QED
    BY <1>2, <2>2, <2>3, <2>4, <2>5
<1> QED
  BY <1>1, <1>2

(* A slot that begins no entry costs nothing. *)
LEMMA ProbeNothing ==
  ASSUME TypeInv, ProbeHolds, idx \in Positions, ~IsHead(region[idx]), idx' = idx + 1,
         UNCHANGED <<region, budget, exhausted, found, wpos>>
  PROVE  ProbeHolds'
<1>1. NSectors \in Nat \ {0} /\ idx \in Nat /\ wpos \in Nat /\ budget \in Nat /\ \A q \in Positions : q \in Nat
  BY RegionAssumption DEF TypeInv, LogTypeOK, Positions
<1>2. \A p \in Positions : (p < idx + 1 /\ Whole(p)) <=> (p < idx /\ Whole(p))
  BY <1>1 DEF Whole
<1>3. found = {p \in Positions : p < idx + 1 /\ Whole(p)}
  BY <1>2 DEF ProbeHolds
<1> DEFINE s == NSectors * 4 - budget  o == IF wpos < idx THEN NSectors ELSE 0
           odd == IF wpos < idx + 1 THEN NSectors ELSE 0
<1>4. s \in 0 .. 2 * NSectors + o /\ \A q \in Positions : q >= idx /\ q # wpos /\ IsHead(region[q]) => s <= q + o
  BY DEF ProbeHolds
<1>5. o \in Nat /\ odd \in Nat /\ o <= odd
  BY <1>1
<1>6. s \in Int
  BY <1>1
<1> HIDE DEF s, o, odd
<1>7. s \in 0 .. 2 * NSectors + odd
  BY <1>1, <1>4, <1>5, <1>6
<1>8. \A q \in Positions : q >= idx + 1 /\ q # wpos /\ IsHead(region[q]) => s <= q + odd
  <2> TAKE q \in Positions
  <2> HAVE q >= idx + 1 /\ q # wpos /\ IsHead(region[q])
  <2>1. q >= idx
    BY <1>1
  <2>2. s <= q + o
    BY <1>4, <2>1
  <2> QED
    BY <1>1, <1>5, <1>6, <2>2
<1>9. \A p \in Positions : (Whole(p)' <=> Whole(p)) /\ (IsHead(region[p])' <=> IsHead(region[p]))
  BY DEF Whole, Intact, IsHead
<1>10. exhausted' = FALSE /\ found' = {p \in Positions : p < idx' /\ Whole(p)'}
  BY <1>3, <1>9 DEF ProbeHolds
<1>11. \A q \in Positions : q >= idx' /\ q # wpos' /\ IsHead(region[q])' => s <= q + odd
  BY <1>8, <1>9
<1>12. NSectors * 4 - budget' = s /\ (IF wpos' < idx' THEN NSectors ELSE 0) = odd
  BY DEF s, odd
<1> QED
  BY <1>7, <1>10, <1>11, <1>12 DEF ProbeHolds

(* A slot that does is within the budget, and steps over no other. *)
LEMMA ProbeEntry ==
  ASSUME TypeInv, LayoutHolds, Standing \/ Spent, ProbeHolds, idx \in Positions, IsHead(region[idx]),
         UNCHANGED <<region, exhausted, wpos>>, budget' = budget - region[idx].entry.len,
         found' = (IF Intact(region, idx) THEN found \cup {idx} ELSE found),
         idx' = IF Intact(region, idx) THEN idx + region[idx].entry.len ELSE idx + 1
  PROVE  ProbeHolds'
<1> DEFINE e == region[idx].entry  l == e.len
<1>1. /\ NSectors \in Nat \ {0} /\ idx \in Nat /\ idx < NSectors /\ wpos \in Positions /\ budget \in Nat
      /\ \A q \in Positions : q \in Nat /\ q < NSectors /\ q \in 0 .. NSectors - 1
  BY RegionAssumption DEF TypeInv, LogTypeOK, Positions
<1>2. region[idx] \in Sectors
  BY DEF TypeInv, LogTypeOK
<1>3. e \in LogEntry /\ l \in 1 .. NSectors
  BY <1>2, HeadIs
<1>4. /\ idx' \in idx + 1 .. idx + l
      /\ idx' = IF Whole(idx) THEN idx + l ELSE idx + 1
  <2> HIDE DEF l
  <2>1. idx' = IF Whole(idx) THEN idx + l ELSE idx + 1
    BY DEF Whole, l
  <2> QED
    BY <1>1, <1>3, <2>1
<1>5. ASSUME NEW q \in Positions, q > idx, q < idx + l
      PROVE  q - idx \in 1 .. l - 1 /\ After(idx, q - idx) = q
  <2>1. q - idx \in 1 .. l - 1 /\ q - idx \in 0 .. NSectors /\ idx + (q - idx) = q /\ q < NSectors
    <3> HIDE DEF l
    <3> QED
      BY <1>1, <1>3, <1>5
  <2> QED
    BY <2>1, AfterIs
<1>6. found' = {p \in Positions : p < idx' /\ Whole(p)}
  <2>1. ASSUME NEW p \in Positions, p < idx', Whole(p), Whole(idx) PROVE p < idx \/ p = idx
    <3>1. SUFFICES ASSUME p > idx PROVE FALSE
      BY <1>1
    <3>2. p < idx + l
      BY <1>4, <2>1
    <3>3. p - idx \in 1 .. l - 1 /\ After(idx, p - idx) = p
      BY <1>5, <3>1, <3>2
    <3>4. p - idx \in 0 .. l - 1 /\ p - idx # 0
      <4> HIDE DEF l
      <4> QED
        BY <1>1, <1>3, <3>3
    <3>5. region[p] = Part(e, p - idx)
      BY <2>1, <3>3, <3>4 DEF Whole, Intact
    <3> QED
      BY <2>1, <3>4, <3>5 DEF Whole, IsHead, Part
  <2>2. found' = IF Whole(idx) THEN found \cup {idx} ELSE found
    BY DEF Whole
  <2>3. found = {p \in Positions : p < idx /\ Whole(p)}
    BY DEF ProbeHolds
  <2>4. idx < idx' /\ (~Whole(idx) => \A p \in Positions : p < idx' => p < idx \/ p = idx)
    <3> HIDE DEF l
    <3> QED
      BY <1>1, <1>3, <1>4
  <2>5. \A p \in Positions : p < idx => p < idx'
    BY <1>1, <1>3, <1>4, <2>4
  <2> QED
    BY <2>1, <2>2, <2>3, <2>4, <2>5
<1> DEFINE s == NSectors * 4 - budget  o == IF wpos < idx THEN NSectors ELSE 0
           odd == IF wpos < idx' THEN NSectors ELSE 0
<1>7. /\ s \in 0 .. 2 * NSectors + o
      /\ \A q \in Positions : q >= idx /\ q # wpos /\ IsHead(region[q]) => s <= q + o
  BY DEF ProbeHolds
<1>8. idx # wpos => s <= idx + o
  <2>1. idx >= idx
    BY <1>1
  <2> QED
    BY <1>7, <2>1
<1>9. /\ NSectors * 4 - (budget - l) \in 0 .. 2 * NSectors + odd
      /\ \A q \in 0 .. NSectors - 1 :
           s <= q + o /\ q >= idx' /\ q # wpos /\ (idx # wpos => idx + l <= q) =>
             NSectors * 4 - (budget - l) <= q + odd
  <2>1. wpos \in 0 .. NSectors - 1 /\ idx \in 0 .. NSectors - 1
    BY <1>1
  <2> DEFINE i == idx'
  <2>2. i \in idx + 1 .. idx + l
    BY <1>4
  <2> HIDE DEF l, i
  <2>3. /\ NSectors * 4 - (budget - l) \in 0 .. 2 * NSectors + (IF wpos < i THEN NSectors ELSE 0)
        /\ \A q \in 0 .. NSectors - 1 :
             s <= q + o /\ q >= i /\ q # wpos /\ (idx # wpos => idx + l <= q) =>
               NSectors * 4 - (budget - l) <= q + (IF wpos < i THEN NSectors ELSE 0)
    BY <1>1, <1>3, <1>7, <1>8, <2>1, <2>2, BudgetHolds
  <2> QED
    BY <2>3 DEF i
<1>10. ASSUME NEW q \in Positions, q >= idx', q # wpos, IsHead(region[q])
       PROVE  NSectors * 4 - (budget - l) <= q + odd
  <2>1. q > idx /\ q >= idx /\ q \in 0 .. NSectors - 1
    <3> HIDE DEF l
    <3> QED
      BY <1>1, <1>3, <1>4, <1>10
  <2>2. idx # wpos => idx + l <= q
    <3>1. SUFFICES ASSUME idx # wpos, ~(idx + l <= q) PROVE FALSE
      OBVIOUS
    <3>2. q < idx + l
      <4> HIDE DEF l
      <4> QED
        BY <1>1, <1>3, <3>1, <2>1
    <3>3. q - idx \in 1 .. l - 1 /\ After(idx, q - idx) = q
      BY <1>5, <2>1, <3>2
    <3> QED
      BY <1>10, <3>1, <3>3, HeadsApart
  <2>3. s <= q + o
    BY <1>7, <1>10, <2>1
  <2> QED
    BY <1>9, <1>10, <2>1, <2>2, <2>3
<1>11. \A p \in Positions : (Whole(p)' <=> Whole(p)) /\ (IsHead(region[p])' <=> IsHead(region[p]))
  BY DEF Whole, Intact, IsHead
<1>12. exhausted' = FALSE /\ found' = {p \in Positions : p < idx' /\ Whole(p)'}
  BY <1>6, <1>11 DEF ProbeHolds
<1>13. /\ NSectors * 4 - budget' \in 0 .. 2 * NSectors + odd
       /\ \A q \in Positions : q >= idx' /\ q # wpos' /\ IsHead(region[q])' => NSectors * 4 - budget' <= q + odd
  BY <1>9, <1>10, <1>11
<1>14. (IF wpos' < idx' THEN NSectors ELSE 0) = odd
  OBVIOUS
<1> HIDE DEF odd
<1> QED
  BY <1>12, <1>13, <1>14 DEF ProbeHolds

(* discover never runs out of budget, and finds what there is to find. *)
LEMMA ProbeStep ==
  ASSUME TypeInv, LayoutHolds, ReplayHolds, Probe
  PROVE  ReplayHolds' /\ OpenNeverRefuses'
<1> DEFINE e == region[idx].entry
<1>1. /\ phase = "probe" /\ phase' = "probe" /\ idx < NSectors
      /\ UNCHANGED <<region, regionMay, place, placeMay, guid, guidMay, wpos, wseq, live, nApplied, append,
                     committed, chain>>
  BY DEF Probe, fileVars, writerVars
<1>2. /\ (Standing /\ OthersKept(Active)) \/ Spent
      /\ \A p \in Positions : regionMay[p] = {region[p]}
      /\ ProbeHolds
  BY <1>1 DEF ReplayHolds
<1>3. /\ (Standing /\ OthersKept(Active))' \/ Spent'
      /\ \A p \in Positions : regionMay'[p] = {region'[p]}
  BY <1>1, <1>2, ReplayKept
<1>4. guid = "ours" /\ idx \in Positions /\ NSectors \in Nat \ {0}
  BY <1>1, RegionAssumption DEF TypeInv, ScanHolds, LogTypeOK, Positions
<1>5. HasSignature(region, idx) /\ Ours(region, idx, guid) <=> IsHead(region[idx])
  BY <1>4 DEF HasSignature, Ours, IsHead
<1>6. CASE ~IsHead(region[idx])
  <2>1. UNCHANGED <<budget, found>> /\ idx' = idx + 1 /\ exhausted' = (exhausted \/ FALSE)
    BY <1>5, <1>6 DEF Probe
  <2>2. exhausted' = exhausted
    BY <1>2, <2>1 DEF ProbeHolds
  <2> QED
    BY <1>1, <1>2, <1>3, <1>4, <1>6, <2>1, <2>2, ProbeNothing DEF ReplayHolds, OpenNeverRefuses
<1>7. CASE IsHead(region[idx])
  <2>1. region[idx] \in Sectors
    BY <1>4 DEF TypeInv, LogTypeOK
  <2>2. e.len \in 1 .. NSectors
    BY <1>7, <2>1, HeadIs
  <2>3. e.len <= budget
    <3> DEFINE s == NSectors * 4 - budget  o == IF wpos < idx THEN NSectors ELSE 0  l == e.len
    <3>1. s \in 0 .. 2 * NSectors + o /\ (idx # wpos => s <= idx + o)
      <4>1. idx >= idx
        BY <1>4 DEF Positions
      <4> QED
        BY <1>2, <1>4, <1>7, <4>1 DEF ProbeHolds
    <3>2. wpos \in 0 .. NSectors - 1 /\ idx \in 0 .. NSectors - 1 /\ budget \in Nat /\ l \in 1 .. NSectors
      BY <1>4, <2>2 DEF TypeInv, LogTypeOK, Positions
    <3> HIDE DEF l
    <3>3. l <= budget
      BY <1>4, <3>1, <3>2, BudgetHolds
    <3> QED
      BY <3>3 DEF l
  <2>4. /\ budget' = budget - e.len /\ exhausted' = (exhausted \/ FALSE)
        /\ found' = (IF Intact(region, idx) THEN found \cup {idx} ELSE found)
        /\ idx' = IF Intact(region, idx) THEN idx + e.len ELSE idx + 1
    BY <1>5, <1>7, <2>3 DEF Probe
  <2>5. exhausted' = exhausted
    BY <1>2, <2>4 DEF ProbeHolds
  <2>6. ProbeHolds'
    BY <1>1, <1>2, <1>4, <1>7, <2>4, <2>5, ProbeEntry
  <2> QED
    BY <1>1, <1>3, <2>6 DEF ReplayHolds, OpenNeverRefuses
<1> QED
  BY <1>6, <1>7

(* Neither refusal happens, and a log with nothing in it has none to give. *)
LEMMA SelectStep ==
  ASSUME TypeInv, LayoutHolds, ReplayHolds, SelectChain
  PROVE  ReplayHolds' /\ OpenNeverRefuses'
<1>1. /\ phase = "probe" /\ idx >= NSectors
      /\ UNCHANGED <<region, regionMay, place, placeMay, guid, guidMay, wpos, wseq, live, nApplied, append,
                     committed, chain>>
  BY DEF SelectChain, fileVars, writerVars
<1>2. /\ (Standing /\ OthersKept(Active)) \/ Spent
      /\ \A p \in Positions : regionMay[p] = {region[p]}
      /\ ProbeHolds /\ chain = << >>
  BY <1>1 DEF ReplayHolds, TypeInv, ScanHolds
<1>3. /\ Standing /\ OthersKept(Active) => (Standing /\ OthersKept(Active))'
      /\ Spent => Spent'
      /\ \A p \in Positions : regionMay'[p] = {region'[p]}
      /\ Active' = Active /\ \A p : Whole(p)' <=> Whole(p)
  BY <1>1, <1>2, ReplayKept, ActiveKept
<1>4. found = {p \in Positions : Whole(p)} /\ exhausted = FALSE
  <2>1. \A p \in Positions : p < idx
    BY <1>1, RegionAssumption DEF TypeInv, LogTypeOK, Positions
  <2> QED
    BY <1>2, <2>1 DEF ProbeHolds
<1>5. CASE found = {}
  <2>1. phase' = "open"
    BY <1>4, <1>5 DEF SelectChain
  <2>2. Spent
    <3>1. SUFFICES ASSUME Standing, OthersKept(Active) PROVE Spent
      BY <1>2
    <3>2. Len(Active) \in Nat /\ ~(Len(Active) >= 1)
      BY <1>4, <1>5, <3>1, ActiveIs, StartIs
    <3>3. Len(Active) = 0 /\ ~Landed /\ live = << >>
      BY <3>1, <3>2, ActiveIs
    <3>4. Len(live) = 0 /\ wseq = 0
      BY <3>3 DEF LayoutHolds
    <3>5. \A t \in Targets : Kept(t)
      BY <3>1, <3>3 DEF OthersKept
    <3>6. Recovered
      BY <3>5 DEF Recovered, Kept
    <3>7. ASSUME NEW p \in Positions, IsHead(region[p]) PROVE p = wpos /\ ~Intact(region, p)
      <4>1. ~Intact(region, p)
        BY <1>4, <1>5, <3>7 DEF Whole
      <4>2. \/ \E i \in 1 .. Len(live) : p = live[i].pos
            \/ p = wpos
            \/ region[p].entry.seq <= wseq - Len(live)
        BY <3>1, <3>7, HeadKnown
      <4>3. region[p].entry.seq \in 1 .. MaxSeq /\ MaxSeq \in Nat
        BY <3>1, <3>7, HeadKnown, ReplayAssumption
      <4>4. ~(region[p].entry.seq <= wseq - Len(live)) /\ 1 .. Len(live) = {}
        BY <3>4, <4>3
      <4> QED
        BY <4>1, <4>2, <4>4
    <3> QED
      BY <3>6, <3>7 DEF Spent
  <2> QED
    BY <1>3, <2>1, <2>2 DEF ReplayHolds, OpenNeverRefuses
<1>6. CASE found # {}
  <2>1. PICK p \in Positions : Whole(p)
    BY <1>4, <1>6
  <2>2. ~Spent
    BY <2>1 DEF Spent, Whole
  <2>3. Standing /\ OthersKept(Active)
    BY <1>2, <2>2
  <2>4. Len(Active) >= 1 /\ Len(Active) \in Nat /\ Active # << >>
    BY <2>1, <2>3, WholeBelow, ActiveIs
  <2>5. StartOf(region, found) = Active[1].pos /\ Active[1].pos \in found
    BY <1>4, <2>3, <2>4, StartIs
  <2>6. phase' = "walk" /\ idx' = Active[1].pos /\ found' = found
    BY <1>4, <1>6, <2>5 DEF SelectChain
  <2>7. WalkHolds'
    <3>1. Len(chain') = 0 /\ chain' = << >> /\ 0 < Len(Active) /\ 0 <= Len(Active) /\ 0 + 1 = 1
      BY <1>1, <1>2, <2>4
    <3>2. found' = {q \in Positions : Whole(q)'}
      BY <1>3, <1>4, <2>6
    <3>3. \A i \in 1 .. 0 : FALSE
      OBVIOUS
    <3> QED
      BY <1>3, <2>4, <2>6, <3>1, <3>2, <3>3 DEF WalkHolds
  <2> QED
    BY <1>3, <2>3, <2>6, <2>7 DEF ReplayHolds, OpenNeverRefuses
<1> QED
  BY <1>5, <1>6

(* Pass 4 collects the chain, and stops where it ends. *)
LEMMA WalkStep ==
  ASSUME TypeInv, LayoutHolds, ReplayHolds, WalkChain
  PROVE  ReplayHolds' /\ OpenNeverRefuses'
<1> DEFINE n == Len(Active)  c == Len(chain)  e == region[idx].entry
<1>1. /\ phase = "walk"
      /\ UNCHANGED <<region, regionMay, place, placeMay, guid, guidMay, wpos, wseq, live, nApplied, append,
                     committed>>
  BY DEF WalkChain, fileVars, writerVars
<1>2. /\ Standing /\ OthersKept(Active) /\ WalkHolds
      /\ \A p \in Positions : regionMay[p] = {region[p]}
      /\ chain \in Seq(LogEntry)
  BY <1>1 DEF ReplayHolds, TypeInv, LogTypeOK
<1>3. /\ (Standing /\ OthersKept(Active))'
      /\ \A p \in Positions : regionMay'[p] = {region'[p]}
      /\ Active' = Active /\ \A p : Whole(p)' <=> Whole(p)
  BY <1>1, <1>2, ReplayKept, ActiveKept
<1>4. /\ Active \in Seq(Slot) /\ n \in Nat /\ n >= 1
      /\ \A i \in 1 .. n :
           /\ Active[i] \in Slot /\ Active[i].e.guid = "ours"
           /\ \A k \in 0 .. Active[i].e.len - 1 : region[After(Active[i].pos, k)] = Part(Active[i].e, k)
           /\ i < n => /\ Active[i + 1].pos = After(Active[i].pos, Active[i].e.len)
                       /\ Active[i + 1].e.seq = Active[i].e.seq + 1
  BY <1>2, ActiveIs DEF WalkHolds
<1>5. /\ c \in Nat /\ c <= n /\ found = {p \in Positions : Whole(p)}
      /\ \A i \in 1 .. c : chain[i] = Active[i].e
      /\ chain = << >> <=> c = 0
  BY <1>2, LenProperties, EmptySeq DEF WalkHolds
<1>6. CASE c < n
  <2> DEFINE s == Active[c + 1]
  <2>1. c + 1 \in 1 .. n /\ idx = s.pos
    BY <1>2, <1>4, <1>5, <1>6 DEF WalkHolds
  <2>2. s \in Slot /\ s.pos \in Positions /\ s.e \in LogEntry /\ Whole(s.pos) /\ region[s.pos].entry = s.e
    BY <1>4, <2>1, StoredWhole, SlotIs
  <2>3. idx \in found /\ e = s.e
    BY <1>5, <2>1, <2>2
  <2>4. chain # << >> => e.seq = chain[c].seq + 1
    <3> HAVE chain # << >>
    <3>1. c \in 1 .. c /\ c \in 1 .. n /\ c < n
      BY <1>4, <1>5, <1>6
    <3> QED
      BY <1>4, <1>5, <2>3, <3>1
  <2>5. chain' = Append(chain, e) /\ idx' = After(idx, e.len) /\ UNCHANGED <<phase, found>>
    BY <2>3, <2>4 DEF WalkChain
  <2>6. /\ Len(chain') = c + 1 /\ chain'[c + 1] = s.e
        /\ \A i \in 1 .. c : chain'[i] = chain[i]
    BY <1>2, <2>2, <2>3, <2>5, AppendProperties
  <2>7. \A i \in 1 .. Len(chain') : chain'[i] = Active[i].e
    <3> TAKE i \in 1 .. Len(chain')
    <3>1. i = c + 1 \/ i \in 1 .. c
      <4> HIDE DEF c
      <4> QED
        BY <1>5, <2>6
    <3> QED
      BY <1>5, <2>6, <3>1
  <2>8. idx' = IF c + 1 < n THEN Active[c + 1 + 1].pos ELSE After(Active[n].pos, Active[n].e.len)
    <3>1. CASE c + 1 < n
      BY <1>4, <2>1, <2>3, <2>5, <3>1
    <3>2. CASE ~(c + 1 < n)
      <4>1. c + 1 = n
        BY <1>4, <1>5, <2>1, <3>2
      <4> QED
        BY <2>1, <2>3, <2>5, <3>2, <4>1
    <3> QED
      BY <3>1, <3>2
  <2>9. WalkHolds'
    <3>1. Active' # << >> /\ Len(chain') <= Len(Active') /\ found' = {p \in Positions : Whole(p)'}
      BY <1>2, <1>3, <1>4, <1>5, <2>1, <2>5, <2>6 DEF WalkHolds
    <3>2. \A i \in 1 .. Len(chain') : chain'[i] = Active'[i].e
      BY <1>3, <2>7
    <3>3. idx' = IF Len(chain') < Len(Active') THEN Active'[Len(chain') + 1].pos
                 ELSE After(Active'[Len(Active')].pos, Active'[Len(Active')].e.len)
      BY <1>3, <2>6, <2>8
    <3> QED
      BY <3>1, <3>2, <3>3 DEF WalkHolds
  <2> QED
    BY <1>1, <1>3, <2>5, <2>9 DEF ReplayHolds, OpenNeverRefuses
<1>7. CASE ~(c < n)
  <2>1. c = n /\ chain # << >> /\ n \in 1 .. n
    BY <1>4, <1>5, <1>7
  <2>2. chain[c] = Active[n].e
    BY <1>5, <2>1
  <2>3. ~(idx \in found /\ e.seq = chain[c].seq + 1)
    <3>1. SUFFICES ASSUME idx \in found, e.seq = Active[n].e.seq + 1 PROVE FALSE
      BY <2>2
    <3>2. e.seq <= Active[n].e.seq /\ Active[n].e.seq \in Nat
      BY <1>2, <1>5, <3>1, WholeBelow
    <3> QED
      BY <3>1, <3>2
  <2>4. phase' = "apply" /\ idx' = 1 /\ chain' = chain
    BY <2>1, <2>3 DEF WalkChain
  <2>5. chain = Entries(Active)
    <3>1. chain = [i \in 1 .. c |-> chain[i]]
      BY <1>2, LenProperties
    <3> QED
      BY <1>5, <2>1, <3>1 DEF Entries
  <2>6. Reached(idx - 1)'
    <3>1. idx' - 1 = 0 /\ 1 .. 0 = {}
      BY <2>4
    <3> QED
      BY <3>1 DEF Reached
  <2> QED
    BY <1>3, <2>4, <2>5, <2>6 DEF ReplayHolds, OpenNeverRefuses, Entries
<1> QED
  BY <1>6, <1>7

-----------------------------------------------------------------------------
(* apply_chain writes the next entry. *)
LEMMA ApplyStep ==
  ASSUME TypeInv, LayoutHolds, ReplayHolds, ApplyEntry
  PROVE  ReplayHolds' /\ OpenNeverRefuses'
<1> DEFINE n == Len(Active)  s == Active[idx]
<1>1. /\ phase = "apply" /\ phase' = "applyFlush" /\ WritePlace(chain[idx].target, chain[idx].seq)
      /\ UNCHANGED <<region, regionMay, guid, guidMay, wpos, wseq, live, nApplied, append, committed,
                     chain, idx>>
  BY DEF ApplyEntry, WritePlace, writerVars
<1>2. /\ Standing /\ OthersKept(Active) /\ chain = Entries(Active) /\ Reached(idx - 1)
      /\ \A p \in Positions : regionMay[p] = {region[p]}
      /\ idx \in 1 .. Len(chain) /\ FileHolds
  BY <1>1 DEF ReplayHolds, TypeInv, ScanHolds
<1>3. n \in Nat /\ \A i \in 1 .. n : Active[i] \in Slot
  BY <1>2, ActiveIs
<1>4. idx \in 1 .. n /\ chain[idx] = s.e
  BY <1>2, <1>3 DEF Entries
<1>5. s.e.target \in Targets /\ s.e.seq \in 1 .. MaxSeq /\ MaxSeq \in Nat
  BY <1>2, <1>3, <1>4, SlotIs, ReplayAssumption DEF TypeInv, ScanHolds
<1>6. s.e.seq \in Values
  BY <1>5 DEF Values, Torn
<1>7. /\ place'[s.e.target] = s.e.seq
      /\ \A u \in Targets : u # s.e.target => place'[u] = place[u] /\ placeMay'[u] = placeMay[u]
  BY <1>1, <1>2, <1>4, <1>5, <1>6, PlaceWritten
<1>8. Active' = Active /\ chain' = Entries(Active)'
  BY <1>1, <1>2, ActiveKept DEF Entries
<1>9. Standing'
  <2>1. \A q : Appended(q)' = Appended(q)
    BY <1>1 DEF Appended
  <2> QED
    BY <1>1, <1>2, <2>1 DEF Standing, LiveStored, HeadsKnown, LastHolds
<1>10. OthersKept(Active)'
  <2>1. \A t \in Targets : (\A i \in 1 .. n : Active[i].e.target # t) =>
          place'[t] = committed[t] /\ placeMay'[t] = {committed[t]}
    BY <1>2, <1>4, <1>7 DEF OthersKept, Kept
  <2> QED
    BY <1>1, <1>8, <2>1 DEF OthersKept, Kept
<1>11. Reached(idx)'
  <2> DEFINE Holds(t) ==
               \/ \A i \in 1 .. idx : Active[i].e.target # t
               \/ \E i \in 1 .. idx : /\ Active[i].e.target = t /\ place'[t] = Active[i].e.seq
                                      /\ \A j \in i + 1 .. idx : Active[j].e.target # t
  <2>1. ASSUME NEW t \in Targets PROVE Holds(t)
    <3>1. idx \in 1 .. idx /\ idx + 1 .. idx = {} /\ idx \in Nat /\ idx >= 1
      BY <1>3, <1>4
    <3>2. CASE s.e.target = t
      BY <1>7, <3>1, <3>2
    <3>3. CASE s.e.target # t
      <4>1. place'[t] = place[t]
        BY <1>7, <2>1, <3>3
      <4>2. CASE \A i \in 1 .. idx - 1 : Active[i].e.target # t
        <5>1. \A i \in 1 .. idx : i = idx \/ i \in 1 .. idx - 1
          BY <3>1
        <5> QED
          BY <3>3, <4>2, <5>1
      <4>3. ASSUME NEW i \in 1 .. idx - 1, Active[i].e.target = t, place[t] = Active[i].e.seq,
                   \A j \in i + 1 .. idx - 1 : Active[j].e.target # t
            PROVE  Holds(t)
        <5>1. i \in 1 .. idx /\ \A j \in i + 1 .. idx : j = idx \/ j \in i + 1 .. idx - 1
          BY <3>1, <4>3
        <5>2. \A j \in i + 1 .. idx : Active[j].e.target # t
          BY <3>3, <4>3, <5>1
        <5> QED
          BY <4>1, <4>3, <5>1, <5>2
      <4> QED
        BY <1>2, <2>1, <4>2, <4>3 DEF Reached
    <3> QED
      BY <3>2, <3>3
  <2> QED
    BY <1>1, <1>8, <2>1 DEF Reached
<1>12. \A p \in Positions : regionMay'[p] = {region'[p]}
  BY <1>1, <1>2
<1> QED
  BY <1>1, <1>8, <1>9, <1>10, <1>11, <1>12 DEF ReplayHolds, OpenNeverRefuses

(* Once all of it is applied, every target holds what it must. *)
LEMMA ChainApplied ==
  ASSUME TypeInv, LayoutHolds, Standing, OthersKept(Active), Reached(Len(Active)), NEW t \in Targets
  PROVE  \/ place[t] = committed[t]
         \/ append # NoSlot /\ append.e.target = t /\ place[t] = append.e.seq
<1> DEFINE n == Len(Active)
<1>1. CASE \A i \in 1 .. n : Active[i].e.target # t
  BY <1>1 DEF OthersKept, Kept
<1>2. ASSUME NEW i \in 1 .. n, Active[i].e.target = t, place[t] = Active[i].e.seq,
             \A j \in i + 1 .. n : Active[j].e.target # t
      PROVE  \/ place[t] = committed[t]
             \/ append # NoSlot /\ append.e.target = t /\ place[t] = append.e.seq
  <2>1. CASE ~Landed
    <3>1. Active = live
      BY <2>1 DEF Active
    <3> QED
      BY <1>2, <3>1 DEF Standing, LastHolds
  <2>2. CASE Landed
    <3> DEFINE m == Len(live) - nApplied
    <3>1. append # NoSlot /\ append \in Slot /\ Active = Append(NotApplied, append)
      BY <2>2 DEF Active, Landed, TypeInv, LogTypeOK
    <3>2. /\ NotApplied \in Seq(Slot) /\ Len(NotApplied) = m /\ Len(live) \in Nat /\ nApplied \in Nat
          /\ \A j \in 1 .. m : NotApplied[j] = live[nApplied + j] /\ nApplied + j \in 1 .. Len(live)
          /\ nApplied \in 0 .. Len(live)
      BY NotAppliedIs DEF TypeInv, LogTypeOK
    <3>3. /\ n = m + 1 /\ Active[m + 1] = append /\ m \in Nat
          /\ \A j \in 1 .. m : Active[j] = NotApplied[j]
      <4>1. m \in Nat
        BY <3>2
      <4> QED
        BY <3>1, <3>2, <4>1, AppendProperties
    <3>4. CASE i = m + 1
      BY <1>2, <3>1, <3>3, <3>4
    <3>5. CASE i # m + 1
      <4>1. i \in 1 .. m
        <5> HIDE DEF n, m
        <5> QED
          BY <1>2, <3>3, <3>5
      <4>2. Active[i] = live[nApplied + i] /\ nApplied + i \in 1 .. Len(live)
        BY <3>2, <3>3, <4>1
      <4>3. ASSUME NEW j \in nApplied + i + 1 .. Len(live) PROVE live[j].e.target # t
        <5> DEFINE l == Len(live)
        <5>1. l \in Nat /\ m = l - nApplied /\ j \in nApplied + i + 1 .. l
          BY <3>2, <4>3
        <5>2. j - nApplied \in 1 .. m /\ nApplied + (j - nApplied) = j /\ j - nApplied \in i + 1 .. n
          <6> HIDE DEF l, m, n
          <6> QED
            BY <3>2, <3>3, <4>1, <5>1
        <5>3. Active[j - nApplied] = live[j]
          BY <3>2, <3>3, <5>2
        <5> QED
          BY <1>2, <5>2, <5>3
      <4> QED
        BY <1>2, <4>2, <4>3 DEF Standing, LastHolds
    <3> QED
      BY <3>4, <3>5
  <2> QED
    BY <2>1, <2>2
<1> QED
  BY <1>1, <1>2 DEF Reached

(* The flush after an entry, and the end of the chain. *)
LEMMA ApplyFlushStep ==
  ASSUME TypeInv, LayoutHolds, ReplayHolds, ApplyFlush
  PROVE  ReplayHolds' /\ OpenNeverRefuses'
<1> DEFINE n == Len(Active)
<1>1. /\ phase = "applyFlush" /\ FlushAll
      /\ idx' = (IF idx = Len(chain) THEN 0 ELSE idx + 1)
      /\ phase' = (IF idx = Len(chain) THEN "erase" ELSE "apply")
      /\ UNCHANGED <<wpos, wseq, live, nApplied, append, committed, chain>>
  BY DEF ApplyFlush, writerVars
<1>2. /\ Standing /\ OthersKept(Active) /\ chain = Entries(Active) /\ Reached(idx)
      /\ idx \in 1 .. Len(chain) /\ FileHolds
  BY <1>1 DEF ReplayHolds, TypeInv, ScanHolds
<1>3. /\ region' = region /\ place' = place
      /\ \A p \in Positions : regionMay'[p] = {region[p]} /\ regionMay'[p] \subseteq regionMay[p]
      /\ \A t \in Targets : placeMay'[t] = {place[t]}
      /\ guidMay' = {guid} /\ guidMay' \subseteq guidMay
  BY <1>1, <1>2, FileFlushed
<1>4. n \in Nat /\ Len(chain) = n
  BY <1>2, ActiveIs DEF Entries
<1>5. Active' = Active /\ chain' = Entries(Active)'
  BY <1>1, <1>2, <1>3, ActiveKept DEF Entries
<1>6. CASE idx = Len(chain)
  <2>1. \A t \in Targets : \/ place[t] = committed[t]
                           \/ append # NoSlot /\ append.e.target = t /\ place[t] = append.e.seq
    BY <1>2, <1>4, <1>6, ChainApplied
  <2>2. Recovered'
    BY <1>1, <1>3, <2>1 DEF Recovered
  <2>3. \A p \in Positions : ~(p < 0)
    BY RegionAssumption DEF Positions
  <2>4. phase' = "erase" /\ idx' = 0
    BY <1>1, <1>6
  <2> QED
    BY <2>2, <2>3, <2>4 DEF ReplayHolds, OpenNeverRefuses
<1>7. CASE idx # Len(chain)
  <2>1. phase' = "apply" /\ idx' - 1 = idx
    BY <1>1, <1>2, <1>4, <1>7
  <2>2. Standing'
    BY <1>1, <1>2, <1>3, StandingLess
  <2>3. OthersKept(Active)'
    BY <1>1, <1>2, <1>3, <1>5 DEF OthersKept, Kept
  <2>4. Reached(idx - 1)'
    BY <1>2, <1>3, <1>5, <2>1 DEF Reached
  <2> QED
    BY <1>3, <1>5, <2>1, <2>2, <2>3, <2>4 DEF ReplayHolds, OpenNeverRefuses
<1> QED
  BY <1>6, <1>7

(* The log is erased, and no longer named, once it has nothing to give. *)
LEMMA RetireStep ==
  ASSUME TypeInv, ReplayHolds, EraseChunk \/ EraseFlush \/ ClearGuid \/ ClearFlush
  PROVE  ReplayHolds' /\ OpenNeverRefuses'
<1>1. /\ phase \in {"erase", "eraseFlush", "clear", "clearFlush"}
      /\ UNCHANGED <<wpos, append, committed, place>>
  BY DEF EraseChunk, EraseFlush, ClearGuid, ClearFlush, WriteRegion, FlushAll, writerVars
<1>2. Recovered /\ FileHolds
  BY <1>1 DEF ReplayHolds, TypeInv
<1>3. \A t \in Targets : placeMay'[t] = {place[t]}
  BY <1>2, FileFlushed DEF EraseChunk, EraseFlush, ClearGuid, ClearFlush, WriteRegion, Recovered
<1>4. Recovered'
  BY <1>1, <1>2, <1>3 DEF Recovered
<1>5. CASE EraseChunk
  <2> DEFINE new == [p \in idx .. idx + ZERO_CHUNK - 1 |-> Blank]
  <2>1. /\ phase = "erase" /\ WriteRegion(new) /\ idx' = idx + ZERO_CHUNK
        /\ phase' = IF idx + ZERO_CHUNK < NSectors THEN "erase" ELSE "eraseFlush"
    BY <1>5 DEF EraseChunk
  <2>2. \A p \in Positions : p < idx => region[p] = Blank
    BY <2>1 DEF ReplayHolds
  <2>3. NSectors \in Nat /\ idx \in Nat /\ ZERO_CHUNK \in Nat /\ \A p \in Positions : p \in Nat /\ p < NSectors
    BY RegionAssumption, ReplayAssumption DEF TypeInv, LogTypeOK, Positions
  <2>4. \A p \in Positions : region'[p] = IF p \in DOMAIN new THEN new[p] ELSE region[p]
    BY <2>1 DEF WriteRegion
  <2>5. \A p \in Positions : p < idx + ZERO_CHUNK => region'[p] = Blank
    <3> TAKE p \in Positions
    <3> HAVE p < idx + ZERO_CHUNK
    <3>1. p < idx \/ p \in idx .. idx + ZERO_CHUNK - 1
      BY <2>3
    <3> QED
      BY <2>2, <2>4, <3>1
  <2>6. CASE idx + ZERO_CHUNK < NSectors
    BY <1>4, <2>1, <2>5, <2>6 DEF ReplayHolds, OpenNeverRefuses
  <2>7. CASE ~(idx + ZERO_CHUNK < NSectors)
    <3>1. \A p \in Positions : p < idx + ZERO_CHUNK
      BY <2>3, <2>7
    <3> QED
      BY <1>4, <2>1, <2>5, <2>7, <3>1 DEF ReplayHolds, OpenNeverRefuses
  <2> QED
    BY <2>6, <2>7
<1>6. CASE EraseFlush
  <2>1. phase = "eraseFlush" /\ FlushAll /\ phase' = "clear"
    BY <1>6 DEF EraseFlush
  <2>2. \A p \in Positions : regionMay'[p] = {Blank}
    BY <1>2, <2>1, FileFlushed DEF ReplayHolds
  <2> QED
    BY <1>4, <2>1, <2>2 DEF ReplayHolds, OpenNeverRefuses
<1>7. CASE ClearGuid
  <2>1. phase = "clear" /\ phase' = "clearFlush" /\ regionMay' = regionMay
    BY <1>7 DEF ClearGuid
  <2> QED
    BY <1>4, <2>1 DEF ReplayHolds, OpenNeverRefuses
<1>8. CASE ClearFlush
  <2>1. phase = "clearFlush" /\ FlushAll /\ phase' = "open"
    BY <1>8 DEF ClearFlush
  <2>2. \A p \in Positions : regionMay'[p] = {region'[p]} /\ region'[p] = region[p] /\ region[p] = Blank
    BY <1>2, <2>1, FileFlushed DEF ReplayHolds, FileHolds
  <2>3. Spent'
    BY <1>4, <2>2, BlankIs DEF Spent
  <2> QED
    BY <2>1, <2>2, <2>3 DEF ReplayHolds, OpenNeverRefuses
<1> QED
  BY <1>5, <1>6, <1>7, <1>8

(* What a reader showed is what the next one must show. *)
LEMMA CloseStep ==
  ASSUME TypeInv, ReplayHolds, OpenNeverRefuses, Close
  PROVE  ReplayHolds' /\ OpenNeverRefuses'
<1>1. /\ phase = "open" /\ phase' = "closed" /\ committed' = place /\ append' = NoSlot
      /\ UNCHANGED <<region, regionMay, place, placeMay, wpos>>
  BY DEF Close, OpenNeverRefuses, fileVars
<1>2. Spent /\ \A p \in Positions : regionMay[p] = {region[p]}
  BY <1>1 DEF ReplayHolds
<1>3. Recovered'
  BY <1>1, <1>2 DEF Spent, Recovered
<1>4. Spent'
  BY <1>1, <1>2, <1>3 DEF Spent, IsHead, Intact
<1> QED
  BY <1>1, <1>2, <1>4 DEF ReplayHolds, OpenNeverRefuses

(* A power loss leaves a log to replay, or one that has been. *)
LEMMA CrashStep ==
  ASSUME TypeInv, LayoutHolds, WritingHolds, ReplayHolds, Crash, EraseCrashes = FALSE
  PROVE  ReplayHolds' /\ OpenNeverRefuses'
<1>1. /\ phase \notin {"closed", "refused", "open", "erase", "eraseFlush"} /\ phase' = "closed"
      /\ UNCHANGED <<wpos, wseq, live, nApplied, append, committed>>
  BY DEF Crash, writerVars
<1>2. /\ FileHolds
      /\ \A p \in Positions : region'[p] \in regionMay[p] /\ regionMay'[p] = {region'[p]}
      /\ \A t \in Targets : place'[t] \in placeMay[t] /\ placeMay'[t] = {place'[t]}
      /\ guid' \in guidMay /\ guidMay' = {guid'}
  BY FileLost DEF TypeInv
<1>3. Standing => Standing'
  <2> HAVE Standing
  <2>1. \A p \in Positions : regionMay'[p] \subseteq regionMay[p] /\ regionMay'[p] # {}
    BY <1>2
  <2>2. guidMay' \subseteq guidMay /\ guidMay' # {}
    BY <1>2
  <2> QED
    BY <1>1, <2>1, <2>2, StandingLess
<1>4. \A t \in Targets : Kept(t) => Kept(t)'
  BY <1>1, <1>2 DEF Kept
<1>5. Recovered => Recovered'
  BY <1>1, <1>2 DEF Recovered
<1>6. (\A p \in Positions : regionMay[p] = {region[p]}) => region' = region
  <2>1. region \in [Positions -> Sectors] /\ region' \in [Positions -> Sectors]
    BY <1>2, FileLost DEF FileHolds
  <2> HAVE \A p \in Positions : regionMay[p] = {region[p]}
  <2>2. \A p \in Positions : region'[p] = region[p]
    BY <1>2
  <2> QED
    BY <2>1, <2>2
<1>7. CASE phase \in {"write", "append", "writeBack"}
  <2>1. Standing /\ OthersKept(NotApplied)
    BY <1>7 DEF WritingHolds
  <2> DEFINE m == Len(live) - nApplied
  <2>2. /\ live \in Seq(Slot) /\ NotApplied \in Seq(Slot) /\ Len(NotApplied) = m /\ m \in Nat
        /\ \A i \in 1 .. m : NotApplied[i] = live[nApplied + i] /\ nApplied + i \in 1 .. Len(live)
    <3>1. live \in Seq(Slot) /\ nApplied \in 0 .. Len(live)
      BY DEF TypeInv, LogTypeOK
    <3> QED
      BY <3>1, NotAppliedIs
  <2>3. NotApplied' = NotApplied
    BY <1>1 DEF NotApplied
  <2>4. ASSUME NEW t \in Targets, \A i \in 1 .. Len(Active') : Active'[i].e.target # t
        PROVE  \A i \in 1 .. m : NotApplied[i].e.target # t
    <3>1. CASE ~Landed'
      <4>1. Active' = live
        BY <1>1, <3>1 DEF Active
      <4> QED
        BY <2>2, <2>4, <4>1
    <3>2. CASE Landed'
      <4>1. append \in Slot /\ Active' = Append(NotApplied, append)
        BY <1>1, <2>3, <3>2 DEF Active, Landed, TypeInv, LogTypeOK
      <4>2. /\ Len(Active') = m + 1 /\ \A i \in 1 .. m : Active'[i] = NotApplied[i]
        BY <2>2, <4>1, AppendProperties
      <4>3. \A i \in 1 .. m : i \in 1 .. m + 1
        BY <2>2
      <4> QED
        BY <2>4, <4>2, <4>3
    <3> QED
      BY <3>1, <3>2
  <2>5. \A t \in Targets : (\A i \in 1 .. Len(Active') : Active'[i].e.target # t) => Kept(t)'
    BY <1>4, <2>1, <2>2, <2>4 DEF OthersKept
  <2>6. OthersKept(Active)'
    BY <2>5 DEF OthersKept
  <2> QED
    BY <1>1, <1>2, <1>3, <2>1, <2>6 DEF ReplayHolds, OpenNeverRefuses
<1>8. CASE phase \in {"probe", "walk", "apply", "applyFlush"}
  <2>1. (Standing /\ OthersKept(Active)) \/ Spent
    BY <1>8 DEF ReplayHolds
  <2>2. region' = region
    BY <1>6, <1>8 DEF ReplayHolds
  <2>3. Active' = Active
    BY <1>1, <2>2, ActiveKept
  <2>4. OthersKept(Active) => OthersKept(Active)'
    BY <1>4, <2>3 DEF OthersKept
  <2>5. Spent => Spent'
    BY <1>1, <1>5, <2>2 DEF Spent, IsHead, Intact
  <2> QED
    BY <1>1, <1>2, <1>3, <2>1, <2>4, <2>5 DEF ReplayHolds, OpenNeverRefuses
<1>9. CASE phase \in {"clear", "clearFlush"}
  <2>1. Recovered /\ \A p \in Positions : region'[p] = Blank
    BY <1>2, <1>9 DEF ReplayHolds
  <2>2. Spent'
    BY <1>5, <2>1, BlankIs DEF Spent
  <2> QED
    BY <1>1, <1>2, <2>2 DEF ReplayHolds, OpenNeverRefuses
<1> QED
  BY <1>1, <1>7, <1>8, <1>9 DEF TypeInv, LogTypeOK

(* Every step of the opener, and every step it is cut off at. *)
LEMMA ReplayStep ==
  ASSUME TypeInv, RecoveryInv, [Next]_vars, EraseCrashes = FALSE
  PROVE  ReplayHolds' /\ OpenNeverRefuses'
<1>1. LayoutHolds /\ WritingHolds /\ ReplayHolds /\ OpenNeverRefuses
  BY DEF RecoveryInv
<1>2. CASE Writer
  <2>1. phase' \in {"write", "append", "writeBack"}
    BY <1>2 DEF Writer, AppendEntry, CommitEntry, WriteBack, WriteBackFlush
  <2> QED
    BY <2>1 DEF ReplayHolds, OpenNeverRefuses
<1>3. CASE Opener
  BY <1>1, <1>3, CollectStep, ProbeStep, SelectStep, WalkStep, ApplyStep, ApplyFlushStep, RetireStep DEF Opener
<1>4. CASE Close
  BY <1>1, <1>4, CloseStep
<1>5. CASE Crash
  BY <1>1, <1>5, CrashStep
<1>6. CASE UNCHANGED vars
  <2>1. UNCHANGED <<region, regionMay, place, placeMay, guid, guidMay, phase, wpos, wseq, live,
                    nApplied, append, committed, budget, exhausted, found, chain, idx>>
    BY <1>6 DEF vars, fileVars, writerVars, scanVars
  <2>2. /\ Active' = Active /\ \A p : Whole(p)' <=> Whole(p)
    BY <2>1, ActiveKept
  <2>3. /\ Standing => Standing'
        /\ Spent => Spent'
        /\ OthersKept(Active) => OthersKept(Active)'
    BY <2>1, ReplayKept
  <2>4. /\ ProbeHolds => ProbeHolds'
        /\ WalkHolds => WalkHolds'
    BY <2>1, <2>2 DEF ProbeHolds, WalkHolds, IsHead
  <2>5. /\ chain = Entries(Active) => (chain = Entries(Active))'
        /\ Reached(idx) => Reached(idx)'
        /\ Reached(idx - 1) => Reached(idx - 1)'
        /\ Recovered => Recovered'
    BY <2>1, <2>2 DEF Reached, Recovered, Entries
  <2> QED
    BY <1>1, <2>1, <2>3, <2>4, <2>5 DEF ReplayHolds, OpenNeverRefuses
<1> QED
  BY <1>2, <1>3, <1>4, <1>5, <1>6 DEF Next

(* A log nobody has written to has nothing to replay. *)
LEMMA RecoveryInit ==
  ASSUME Init
  PROVE  RecoveryInv
<1>1. /\ phase = "write" /\ live = << >> /\ Len(live) = 0 /\ nApplied = 0 /\ append = NoSlot /\ wseq = 0
      /\ guidMay = {"ours"} /\ place = [t \in Targets |-> 0] /\ placeMay = [t \in Targets |-> {0}]
      /\ committed = [t \in Targets |-> 0] /\ regionMay = [p \in Positions |-> {region[p]}]
  BY DEF Init
<1>2. 1 .. Len(live) = {}
  BY <1>1
<1>3. LayoutHolds
  BY <1>1, <1>2 DEF LayoutHolds
<1>4. TypeInv /\ MaxSeq \in Nat /\ NSectors \in Nat \ {0}
  BY TypeInit, ReplayAssumption, RegionAssumption
<1>5. \A p \in Positions : ~IsHead(region[p])
  <2>1. CASE region = [p \in Positions |-> Blank]
    BY <2>1, BlankIs
  <2>2. ASSUME NEW t \in Targets, region = [p \in Positions |-> Part(Stale(t), p)]
        PROVE  \A p \in Positions : ~IsHead(region[p])
    BY <2>2 DEF Part, Stale, IsHead
  <2> QED
    BY <2>1, <2>2 DEF Init
<1>6. Standing
  BY <1>1, <1>2, <1>5 DEF Standing, LiveStored, HeadsKnown, LastHolds
<1>7. OthersKept(NotApplied)
  BY <1>1 DEF OthersKept, Kept
<1>8. WritingHolds
  BY <1>1, <1>6, <1>7 DEF WritingHolds
<1> QED
  BY <1>1, <1>3, <1>8 DEF RecoveryInv, ReplayHolds, OpenNeverRefuses

(* While power holds out over the erase, the log is at every point one     *)
(* that a later open can still replay, or one that has been replayed: the  *)
(* invariant behind the three theorems below.                              *)
THEOREM RecoveryInvariant ==
  ASSUME EraseCrashes = FALSE
  PROVE  Spec => []RecoveryInv
<1>1. Init => RecoveryInv
  BY RecoveryInit
<1>2. TypeInv /\ RecoveryInv /\ [Next]_vars => RecoveryInv'
  <2> SUFFICES ASSUME TypeInv, RecoveryInv, [Next]_vars PROVE RecoveryInv'
    OBVIOUS
  <2>1. LayoutHolds /\ WritingHolds
    BY DEF RecoveryInv
  <2> QED
    BY <2>1, LayoutStep, WritingStep, ReplayStep DEF RecoveryInv
<1> QED
  BY <1>1, <1>2, TypeInvariant, PTL DEF Spec

(* While power holds out over the erase: a reader that open_inner hands    *)
(* out shows every entry another implementation had committed, and an      *)
(* entry whose append was cut off whole or not at all, for every length of *)
(* the region and of the entries and however often the replay itself was   *)
(* cut off (collect_replay_chain, apply_chain, zero_log_region).           *)
THEOREM RecoversCommittedAlways ==
  ASSUME EraseCrashes = FALSE
  PROVE  Spec => []RecoversCommitted
<1>1. RecoveryInv => RecoversCommitted
  BY DEF RecoveryInv, ReplayHolds, Spent, Recovered, RecoversCommitted
<1> QED
  BY <1>1, RecoveryInvariant, PTL

(* Under the same condition, open never turns such a log away: four        *)
(* regions' worth of checksums (DISCOVERY_CHECKSUM_PASSES) are enough for  *)
(* discover, and the head's tail always names an entry that was found      *)
(* (LogUnassembled).                                                       *)
THEOREM OpenNeverRefusesAlways ==
  ASSUME EraseCrashes = FALSE
  PROVE  Spec => []OpenNeverRefuses
<1>1. RecoveryInv => OpenNeverRefuses
  BY DEF RecoveryInv
<1> QED
  BY <1>1, RecoveryInvariant, PTL

(* And the chain select_chain hands to apply_chain is exactly what the     *)
(* writer committed and still keeps, in order, with the entry it was       *)
(* appending if all of that landed.                                        *)
THEOREM ChainIsLiveAlways ==
  ASSUME EraseCrashes = FALSE
  PROVE  Spec => []ChainIsLive
<1>1. RecoveryInv => ChainIsLive
  BY DEF RecoveryInv, ReplayHolds, ChainIsLive, Active, Landed
<1> QED
  BY <1>1, RecoveryInvariant, PTL
=============================================================================

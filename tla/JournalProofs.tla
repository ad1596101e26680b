--------------------------- MODULE JournalProofs ----------------------------
(***************************************************************************)
(* What journal_sector_write, rewrite_header_clear_log and the replay of   *)
(* open_inner do to the two header slots, the log and the BAT, wherever    *)
(* power is lost.                                                          *)
(***************************************************************************)
EXTENDS VhdxImageProofs

-----------------------------------------------------------------------------
(***************************************************************************)
(* The rotation of the header slots, for any number of writers, device     *)
(* errors, kills and crashes.                                              *)
(***************************************************************************)

(* Every image has a header that can be read. *)
ImageReadable == \A st \in Starts : st.hdr[PickSlot(st.hdr)].ok

(* What a slot reads as is one of the contents a crash may leave in it. *)
SlotsViewed == \A s \in Slots : hdr[s] \in hdrMay[s]

(* One slot is readable in every crash outcome. *)
SlotStands == \E s \in Slots : \A h \in hdrMay[s] : h.ok

(* header and active_header_slot are held by one call at a time. *)
OneJournal == \A w, x \in Writers : HoldsJournal(w) /\ HoldsJournal(x) => w = x

(* The header in memory is the one in the active slot. *)
HeaderInPlace == phase # "closed" => header.ok /\ hdr[activeSlot] = header

(* From the flush before the other slot is written to the flush after, the *)
(* active slot is stable; after the write the other slot holds the new     *)
(* header.                                                                 *)
ActiveIsStable ==
  (Rotates \/ phase \in {"erase", "eraseFlush"}) => hdrMay[activeSlot] = {header}
NewInPlace ==
  /\ \A w \in Writers : pc[w] = "headerFlush" => hdr[Other(activeSlot)] = JournalHeader
  /\ phase = "clearFlush" => hdr[Other(activeSlot)] = ClearedHeader

HeaderInv ==
  /\ TypeOK
  /\ CallsNeedReader
  /\ SlotsViewed
  /\ SlotStands
  /\ OneJournal
  /\ HeaderInPlace
  /\ ActiveIsStable
  /\ NewInPlace

(* With one slot readable, pick_header picks a readable one. *)
LEMMA PickIsReadable ==
  ASSUME NEW h, NEW s \in Slots, h[s].ok
  PROVE  PickSlot(h) \in Slots /\ h[PickSlot(h)].ok
  BY DEF PickSlot, Slots

(* Of two readable slots pick_header picks the one with the higher number. *)
LEMMA PickIsNewer ==
  ASSUME NEW h \in [Slots -> Headers], NEW s \in Slots, h[s].ok,
         h[Other(s)].ok => h[s].seq > h[Other(s)].seq
  PROVE  PickSlot(h) = s
<1>1. h[1].seq \in Nat /\ h[2].seq \in Nat
  BY DEF Slots, Headers
<1>2. s = 1 \/ s = 2
  BY DEF Slots
<1> QED
  BY <1>1, <1>2 DEF PickSlot, Other

(* The slot that is not active is the other one. *)
LEMMA OtherSlot ==
  ASSUME NEW s \in Slots
  PROVE  Other(s) \in Slots /\ Other(s) # s /\ \A x \in Slots : x # s => x = Other(s)
  BY DEF Other, Slots

(* A crash leaves in each slot something it may hold. *)
LEMMA SlotSurvivor ==
  ASSUME TypeOK, SlotsViewed, NEW h \in Survivors(hdr, hdrMay)
  PROVE  h \in [Slots -> Headers] /\ \A s \in Slots : h[s] \in hdrMay[s]
<1>1. hdr \in [Slots -> Headers] /\ hdrMay \in [Slots -> SUBSET Headers] /\ DOMAIN hdr = Slots
  BY DEF TypeOK, FileTypeOK
<1>2. h \in [Slots -> Headers]
  BY <1>1, SurvivorsType
<1>3. ASSUME NEW s \in Slots PROVE h[s] \in hdrMay[s]
  BY <1>1, SurvivorIsAdmitted DEF SlotsViewed
<1> QED
  BY <1>2, <1>3

(* The bumped header and the cleared one are readable where the header is. *)
LEMMA NewHeaders ==
  ASSUME TypeOK
  PROVE  /\ JournalHeader.ok = header.ok /\ JournalHeader.room = header.room
         /\ JournalHeader.seq = NextSeq(header.seq)
         /\ JournalHeader.guid = Stir(header.guid, NextSeq(header.seq))
         /\ ClearedHeader.ok = header.ok /\ ClearedHeader.room = header.room
         /\ ClearedHeader.seq = NextSeq(header.seq) /\ ClearedHeader.guid = NoGuid
  BY DEF JournalHeader, ClearedHeader, TypeOK, Headers

(* What the calls do to the headers they do not write: the device keeps    *)
(* or flushes them, and no call takes a step into the journal.             *)
SlotsKept == hdr' = hdr /\ (hdrMay' = hdrMay \/ hdrMay' = [s \in Slots |-> {hdr[s]}])
NoneEnters == \A w \in Writers : pc'[w] = pc[w] \/ ~HoldsJournal(w)'

(* Then HeaderInv stays as it is. *)
LEMMA QuietHeader ==
  ASSUME HeaderInv, TypeOK', CallsNeedReader', SlotsKept, NoneEnters,
         UNCHANGED <<phase, header, activeSlot>>
  PROVE  HeaderInv'
<1>1. /\ hdr \in [Slots -> Headers] /\ activeSlot \in Slots
  BY DEF HeaderInv, TypeOK, FileTypeOK
<1>2. \A s \in Slots : hdrMay'[s] \subseteq hdrMay[s] /\ hdr'[s] \in hdrMay'[s]
  BY DEF HeaderInv, SlotsViewed, SlotsKept
<1>3. SlotsViewed' /\ SlotStands'
  BY <1>2 DEF HeaderInv, SlotsViewed, SlotStands
<1>4. \A w \in Writers : HoldsJournal(w)' => pc'[w] = pc[w] /\ HoldsJournal(w)
  BY DEF NoneEnters, HoldsJournal
<1>5. OneJournal'
  BY <1>4 DEF HeaderInv, OneJournal
<1>6. HeaderInPlace'
  BY DEF HeaderInv, HeaderInPlace, SlotsKept
<1>7. Rotates' => Rotates
  BY <1>4 DEF Rotates, HoldsJournal
<1>8. ActiveIsStable'
  <2> SUFFICES ASSUME (Rotates \/ phase \in {"erase", "eraseFlush"})'
               PROVE  hdrMay'[activeSlot] = {header}
    BY DEF ActiveIsStable
  <2>1. Rotates \/ phase \in {"erase", "eraseFlush"}
    BY <1>7
  <2>2. hdrMay[activeSlot] = {header} /\ hdr[activeSlot] = header
    BY <1>1, <2>1 DEF HeaderInv, ActiveIsStable, SlotsViewed
  <2> QED
    BY <1>1, <2>2 DEF SlotsKept
<1>9. NewInPlace'
  BY <1>4 DEF HeaderInv, NewInPlace, SlotsKept, HoldsJournal, JournalHeader, ClearedHeader
<1> QED
  BY <1>3, <1>5, <1>6, <1>8, <1>9 DEF HeaderInv

(* The device operations that leave the slots as they read. *)
LEMMA DeviceKeepsSlots ==
  ASSUME \/ UNCHANGED devVars
         \/ Flush
         \/ \E e : WriteLog(e)
         \/ \E i : WriteBatSector(i) \/ TearBatSector(i)
         \/ \E from, to, v : WriteCells(from, to, v)
         \/ \E n : SetLen(n)
  PROVE  SlotsKept
  BY DEF SlotsKept, Flush, WriteLog, WriteBatSector, TearBatSector, WriteCells, SetLen,
     devVars, hdrVars

(* The other slot is written while the active one is stable: by            *)
(* journal_sector_write, done or failed, and by rewrite_header_clear_log.  *)
LEMMA OtherWritten ==
  ASSUME HeaderInv, TypeOK', NEW h \in Headers, h.ok, WriteHeader(Other(activeSlot), h),
         Rotates
  PROVE  /\ SlotsViewed' /\ SlotStands'
         /\ hdr'[activeSlot] = header /\ hdrMay'[activeSlot] = {header}
         /\ hdr'[Other(activeSlot)] = h
         /\ header.ok
<1>1. activeSlot \in Slots /\ hdr \in [Slots -> Headers] /\ hdrMay \in [Slots -> SUBSET Headers]
  BY DEF HeaderInv, TypeOK, FileTypeOK
<1>2. Other(activeSlot) \in Slots /\ Other(activeSlot) # activeSlot
  BY <1>1, OtherSlot
<1>3. hdrMay[activeSlot] = {header} /\ hdr[activeSlot] = header /\ header.ok
  <2>1. hdrMay[activeSlot] = {header}
    BY DEF HeaderInv, ActiveIsStable
  <2>2. phase # "closed"
    BY DEF HeaderInv, Rotates, CallsNeedReader
  <2> QED
    BY <2>1, <2>2 DEF HeaderInv, HeaderInPlace
<1>4. /\ hdr' = [hdr EXCEPT ![Other(activeSlot)] = h]
      /\ hdrMay' = [hdrMay EXCEPT ![Other(activeSlot)] = @ \cup {h, TornHeader}]
  BY DEF WriteHeader
<1>5. SlotsViewed'
  BY <1>1, <1>2, <1>4 DEF HeaderInv, SlotsViewed
<1>6. hdr'[activeSlot] = header /\ hdrMay'[activeSlot] = {header} /\ hdr'[Other(activeSlot)] = h
  BY <1>1, <1>2, <1>3, <1>4
<1>7. SlotStands'
  BY <1>1, <1>3, <1>6 DEF SlotStands
<1> QED
  BY <1>3, <1>5, <1>6, <1>7

(* journal_sector_write. *)
LEMMA JournalHeaders ==
  ASSUME HeaderInv, TypeOK', CallsNeedReader', NEW w \in Writers, JournalStep(w)
  PROVE  HeaderInv'
<1>1. /\ activeSlot \in Slots /\ hdr \in [Slots -> Headers] /\ TypeOK
      /\ hdrMay \in [Slots -> SUBSET Headers]
      /\ Other(activeSlot) \in Slots /\ Other(activeSlot) # activeSlot
  BY OtherSlot DEF HeaderInv, TypeOK, FileTypeOK
<1>2. /\ pc[w] # "idle" /\ phase = "open" /\ phase' = phase
      /\ \A x \in Writers : x # w => pc'[x] = pc[x]
  BY DEF JournalStep, JournalLog, JournalLogFlush, JournalHeaderWrite, JournalHeaderFlush,
     HeaderInv, CallsNeedReader, Goto, TypeOK, memVars
<1>3. header.ok /\ hdr[activeSlot] = header
  BY <1>2 DEF HeaderInv, HeaderInPlace
<1>4. CASE JournalLog(w)
  <2>1. SlotsKept
    BY <1>4, DeviceKeepsSlots DEF JournalLog
  <2>2. UNCHANGED <<header, activeSlot>>
    BY <1>4 DEF JournalLog, memVars
  <2>3. CASE ~header.room
    <3>1. NoneEnters
      BY <1>1, <1>2, <1>4, <2>3 DEF JournalLog, NoneEnters, Goto, HoldsJournal, TypeOK
    <3> QED
      BY <1>2, <2>1, <2>2, <3>1, QuietHeader
  <2>4. CASE header.room
    <3>1. pc'[w] = "logFlush" /\ \A x \in Writers : ~HoldsJournal(x)
      BY <1>1, <1>4, <2>4 DEF JournalLog, Goto, TypeOK
    <3>2. OneJournal'
      BY <1>2, <3>1 DEF OneJournal, HoldsJournal
    <3>3. ~Rotates' /\ \A x \in Writers : pc'[x] # "headerFlush"
      BY <1>2, <3>1 DEF Rotates, HoldsJournal
    <3>4. SlotsViewed' /\ SlotStands'
      BY <2>1 DEF HeaderInv, SlotsViewed, SlotStands, SlotsKept
    <3> QED
      BY <1>2, <1>3, <2>1, <2>2, <3>2, <3>3, <3>4
      DEF HeaderInv, HeaderInPlace, ActiveIsStable, NewInPlace, SlotsKept
  <2> QED
    BY <2>3, <2>4
<1>5. ASSUME HoldsJournal(w), NEW x \in Writers, x # w PROVE ~HoldsJournal(x) /\ ~HoldsJournal(x)'
  BY <1>2, <1>5 DEF HeaderInv, OneJournal, HoldsJournal
<1>6. CASE JournalLogFlush(w)
  <2>1. HoldsJournal(w) /\ pc'[w] = "headerWrite" /\ Flush /\ UNCHANGED <<header, activeSlot>>
    BY <1>1, <1>6 DEF JournalLogFlush, HoldsJournal, Goto, TypeOK, memVars
  <2>2. hdr' = hdr /\ hdrMay' = [s \in Slots |-> {hdr[s]}]
    BY <2>1 DEF Flush
  <2>3. SlotsViewed' /\ SlotStands' /\ hdrMay'[activeSlot] = {header}
    BY <1>1, <1>3, <2>2 DEF SlotsViewed, SlotStands
  <2>4. OneJournal'
    BY <1>5, <2>1 DEF OneJournal
  <2>5. \A x \in Writers : pc'[x] # "headerFlush"
    BY <1>5, <2>1 DEF HoldsJournal
  <2> QED
    BY <1>2, <1>3, <2>1, <2>2, <2>3, <2>4, <2>5
    DEF HeaderInv, HeaderInPlace, ActiveIsStable, NewInPlace
<1>7. CASE JournalHeaderWrite(w)
  <2>1. /\ pc[w] = "headerWrite" /\ HoldsJournal(w) /\ pc'[w] = "headerFlush"
        /\ WriteHeader(Other(activeSlot), JournalHeader) /\ UNCHANGED <<header, activeSlot>>
    BY <1>1, <1>7 DEF JournalHeaderWrite, HoldsJournal, Goto, TypeOK, memVars
  <2>2. Rotates /\ JournalHeader \in Headers /\ JournalHeader.ok
    BY <1>1, <1>3, <2>1, JournalTypes, NewHeaders DEF Rotates
  <2>3. /\ SlotsViewed' /\ SlotStands' /\ hdr'[activeSlot] = header
        /\ hdrMay'[activeSlot] = {header} /\ hdr'[Other(activeSlot)] = JournalHeader
    BY <2>1, <2>2, OtherWritten
  <2>4. OneJournal'
    BY <1>5, <2>1 DEF OneJournal
  <2>5. JournalHeader' = JournalHeader /\ Other(activeSlot)' = Other(activeSlot)
    BY <2>1 DEF JournalHeader, Other
  <2> QED
    BY <1>2, <1>3, <2>1, <2>3, <2>4, <2>5
    DEF HeaderInv, HeaderInPlace, ActiveIsStable, NewInPlace
<1>8. CASE JournalHeaderFlush(w)
  <2>1. /\ pc[w] = "headerFlush" /\ HoldsJournal(w) /\ pc'[w] = "publish" /\ Flush
        /\ header' = JournalHeader /\ activeSlot' = Other(activeSlot)
    BY <1>1, <1>8 DEF JournalHeaderFlush, HoldsJournal, Goto, TypeOK
  <2>2. hdr' = hdr /\ hdrMay' = [s \in Slots |-> {hdr[s]}]
    BY <2>1 DEF Flush
  <2>3. hdr[Other(activeSlot)] = JournalHeader /\ JournalHeader.ok
    BY <1>1, <1>3, <2>1, NewHeaders DEF HeaderInv, NewInPlace
  <2>4. SlotsViewed' /\ SlotStands'
    BY <1>1, <1>3, <2>2 DEF SlotsViewed, SlotStands
  <2>5. \A x \in Writers : ~HoldsJournal(x)'
    BY <1>5, <2>1 DEF HoldsJournal
  <2>6. OneJournal' /\ ~Rotates' /\ \A x \in Writers : pc'[x] # "headerFlush"
    BY <1>2, <2>5 DEF OneJournal, Rotates, HoldsJournal
  <2> QED
    BY <1>2, <2>1, <2>2, <2>3, <2>4, <2>6
    DEF HeaderInv, HeaderInPlace, ActiveIsStable, NewInPlace
<1> QED
  BY <1>4, <1>6, <1>7, <1>8 DEF JournalStep

(* A failed device call of write_at. *)
LEMMA ErrorHeaders ==
  ASSUME HeaderInv, TypeOK', CallsNeedReader', NEW w \in Writers, DeviceError(w)
  PROVE  HeaderInv'
<1>1. /\ UNCHANGED <<phase, header, activeSlot>> /\ pc'[w] = "idle" /\ pc[w] # "idle"
      /\ \A x \in Writers : x # w => pc'[x] = pc[x]
  BY DEF DeviceError, ReturnError, Goto, memVars, HeaderInv, TypeOK
<1>2. NoneEnters
  BY <1>1 DEF NoneEnters, HoldsJournal
<1>3. CASE SlotsKept
  BY <1>1, <1>2, <1>3, QuietHeader
<1>4. CASE pc[w] = "headerWrite" /\ WriteHeader(Other(activeSlot), JournalHeader)
  <2>1. header.ok /\ phase = "open"
    BY <1>1 DEF HeaderInv, CallsNeedReader, HeaderInPlace
  <2>2. Rotates /\ JournalHeader \in Headers /\ JournalHeader.ok
    BY <1>4, <2>1, JournalTypes, NewHeaders DEF Rotates, HeaderInv
  <2>3. /\ SlotsViewed' /\ SlotStands' /\ hdr'[activeSlot] = header
    BY <1>4, <2>2, OtherWritten
  <2>4. \A x \in Writers : ~HoldsJournal(x)'
    BY <1>1, <1>4 DEF HeaderInv, OneJournal, HoldsJournal
  <2>5. OneJournal' /\ ~Rotates' /\ \A x \in Writers : pc'[x] # "headerFlush"
    BY <1>1, <2>1, <2>4 DEF OneJournal, Rotates, HoldsJournal
  <2> QED
    BY <1>1, <2>1, <2>3, <2>5 DEF HeaderInv, HeaderInPlace, ActiveIsStable, NewInPlace
<1>5. SlotsKept \/ (pc[w] = "headerWrite" /\ WriteHeader(Other(activeSlot), JournalHeader))
  <2>1. FailedEffect(w)
    BY DEF DeviceError
  <2>2. CASE UNCHANGED devVars
    BY <2>2, DeviceKeepsSlots
  <2>3. ASSUME NEW n, SetLen(n) PROVE SlotsKept
    BY <2>3, DeviceKeepsSlots
  <2>4. ASSUME NEW from, NEW to, NEW v, WriteCells(from, to, v) PROVE SlotsKept
    BY <2>4, DeviceKeepsSlots
  <2>5. CASE WriteLog(JournalEntry(w))
    BY <2>5, DeviceKeepsSlots
  <2>6. CASE WriteBatSector(image[w]) \/ TearBatSector(image[w])
    BY <2>6, DeviceKeepsSlots
  <2> QED
    BY <2>1, <2>2, <2>3, <2>4, <2>5, <2>6 DEF FailedEffect
<1> QED
  BY <1>3, <1>4, <1>5

(* A call takes a step outside journal_sector_write. *)
LEMMA CallHeaders ==
  ASSUME HeaderInv, TypeOK', CallsNeedReader', NEW w \in Writers,
         BeginWrite(w) \/ Lookup(w) \/ AllocateStep(w) \/ WritePayload(w) \/ Acknowledge(w)
  PROVE  HeaderInv'
<1>1. SlotsKept
  BY DeviceKeepsSlots
  DEF BeginWrite, Lookup, AllocateStep, Allocate, ZeroInit, ZeroFlush, ReadSector, Publish,
      PublishFlush, PublishTable, WritePayload, Acknowledge
<1>2. UNCHANGED <<phase, header, activeSlot>>
  BY DEF BeginWrite, Lookup, AllocateStep, Allocate, ZeroInit, ZeroFlush, ReadSector, Publish,
      PublishFlush, PublishTable, WritePayload, Acknowledge, ReturnError, memVars
<1>3. NoneEnters
  <2>1. pc \in [Writers -> Steps]
    BY DEF HeaderInv, TypeOK
  <2> QED
    BY <2>1 DEF BeginWrite, Lookup, AllocateStep, Allocate, ZeroInit, ZeroFlush, ReadSector,
       Publish, PublishFlush, PublishTable, WritePayload, Acknowledge, ReturnError,
       NoneEnters, HoldsJournal, Goto
<1> QED
  BY <1>1, <1>2, <1>3, QuietHeader

(* While open_inner runs there is no call. *)
LEMMA NoCallsInOpen ==
  ASSUME CallsNeedReader, phase # "open", NEW w \in Writers
  PROVE  pc[w] = "idle" /\ ~HoldsJournal(w)
  BY DEF CallsNeedReader, HoldsJournal

(* A step of open_inner that writes no header. *)
LEMMA OpenQuiet ==
  ASSUME HeaderInv, TypeOK', CallsNeedReader', SlotsKept, UNCHANGED <<pc, header, activeSlot>>,
         phase \notin {"closed", "open"}, phase' # "clearFlush",
         phase' \in {"erase", "eraseFlush", "clear"} =>
           \/ phase \in {"erase", "eraseFlush"}
           \/ hdrMay' = [s \in Slots |-> {hdr[s]}]
  PROVE  HeaderInv'
<1>1. \A w \in Writers : pc[w] = "idle" /\ ~HoldsJournal(w)
  BY NoCallsInOpen DEF HeaderInv
<1>2. SlotsViewed' /\ SlotStands'
  BY DEF HeaderInv, SlotsViewed, SlotStands, SlotsKept
<1>3. header.ok /\ hdr[activeSlot] = header /\ activeSlot \in Slots
  BY DEF HeaderInv, HeaderInPlace, TypeOK
<1>4. OneJournal' /\ HeaderInPlace' /\ NewInPlace'
  BY <1>1, <1>3 DEF OneJournal, HeaderInPlace, NewInPlace, SlotsKept, HoldsJournal
<1>5. ActiveIsStable'
  <2> SUFFICES ASSUME (Rotates \/ phase \in {"erase", "eraseFlush"})'
               PROVE  hdrMay'[activeSlot] = {header}
    BY DEF ActiveIsStable
  <2>1. phase' \in {"erase", "eraseFlush", "clear"}
    BY <1>1 DEF Rotates
  <2>2. CASE hdrMay' = [s \in Slots |-> {hdr[s]}]
    BY <1>3, <2>2
  <2>3. CASE phase \in {"erase", "eraseFlush"}
    <3>1. hdrMay[activeSlot] = {header}
      BY <2>3 DEF HeaderInv, ActiveIsStable
    <3> QED
      BY <1>3, <3>1 DEF SlotsKept
  <2> QED
    BY <2>1, <2>2, <2>3
<1> QED
  BY <1>2, <1>4, <1>5 DEF HeaderInv

(* open_inner. *)
LEMMA OpenHeaders ==
  ASSUME HeaderInv, TypeOK', CallsNeedReader', OpenStart \/ OpenStep
  PROVE  HeaderInv'
<1>1. /\ activeSlot \in Slots /\ hdr \in [Slots -> Headers] /\ TypeOK
      /\ Other(activeSlot) \in Slots /\ Other(activeSlot) # activeSlot
  BY OtherSlot DEF HeaderInv, TypeOK, FileTypeOK
<1>2. phase # "open" /\ pc' = pc
  BY DEF OpenStart, OpenStep, ReplayGrow, ReplayWrite, ReplayFlush, EraseLog, EraseFlush,
     ClearHeader, ClearFlush, LoadBat, callVars
<1>3. \A w \in Writers : pc[w] = "idle" /\ ~HoldsJournal(w) /\ ~HoldsJournal(w)'
  BY <1>2, NoCallsInOpen DEF HeaderInv, HoldsJournal
<1>4. OneJournal'
  BY <1>3 DEF OneJournal
<1>5. CASE OpenStart
  <2>1. /\ hdr' = hdr /\ hdrMay' = hdrMay /\ phase' \in {"grow", "load"}
        /\ hdr[PickSlot(hdr)].ok /\ header' = hdr[PickSlot(hdr)] /\ activeSlot' = PickSlot(hdr)
    BY <1>5 DEF OpenStart, devVars, hdrVars
  <2>2. SlotsViewed' /\ SlotStands'
    BY <2>1 DEF HeaderInv, SlotsViewed, SlotStands
  <2>3. HeaderInPlace' /\ ActiveIsStable' /\ NewInPlace'
    BY <1>2, <1>3, <2>1 DEF HeaderInPlace, ActiveIsStable, NewInPlace, Rotates
  <2> QED
    BY <1>4, <2>2, <2>3 DEF HeaderInv
<1>6. CASE ReplayGrow \/ ReplayWrite \/ ReplayFlush \/ EraseLog \/ EraseFlush \/ LoadBat
  <2>1. SlotsKept
    BY <1>6, DeviceKeepsSlots
    DEF ReplayGrow, ReplayWrite, ReplayFlush, EraseLog, EraseFlush, LoadBat
  <2>2. UNCHANGED <<pc, header, activeSlot>> /\ phase \notin {"closed", "open"}
        /\ phase' # "clearFlush"
    BY <1>6 DEF ReplayGrow, ReplayWrite, ReplayFlush, EraseLog, EraseFlush, LoadBat, callVars
  <2>3. phase' \in {"erase", "eraseFlush", "clear"} =>
           \/ phase \in {"erase", "eraseFlush"}
           \/ hdrMay' = [s \in Slots |-> {hdr[s]}]
    BY <1>6 DEF ReplayGrow, ReplayWrite, ReplayFlush, EraseLog, EraseFlush, LoadBat, Flush
  <2> QED
    BY <2>1, <2>2, <2>3, OpenQuiet
<1>7. CASE ClearHeader
  <2>1. /\ phase = "clear" /\ phase' = "clearFlush" /\ UNCHANGED <<header, activeSlot>>
        /\ WriteHeader(Other(activeSlot), ClearedHeader)
    BY <1>7 DEF ClearHeader
  <2>2. header.ok /\ Rotates
    BY <2>1 DEF HeaderInv, HeaderInPlace, Rotates
  <2>3. ClearedHeader \in Headers /\ ClearedHeader.ok
    BY <1>1, <2>2, JournalTypes, NewHeaders
  <2>4. /\ SlotsViewed' /\ SlotStands' /\ hdr'[activeSlot] = header
        /\ hdrMay'[activeSlot] = {header} /\ hdr'[Other(activeSlot)] = ClearedHeader
    BY <2>1, <2>2, <2>3, OtherWritten
  <2>5. ClearedHeader' = ClearedHeader /\ Other(activeSlot)' = Other(activeSlot)
    BY <2>1 DEF ClearedHeader, Other
  <2> QED
    BY <1>2, <1>3, <1>4, <2>1, <2>2, <2>4, <2>5
    DEF HeaderInv, HeaderInPlace, ActiveIsStable, NewInPlace
<1>8. CASE ClearFlush
  <2>1. /\ phase = "clearFlush" /\ phase' = "load" /\ Flush
        /\ header' = ClearedHeader /\ activeSlot' = Other(activeSlot)
    BY <1>8 DEF ClearFlush
  <2>2. hdr' = hdr /\ hdrMay' = [s \in Slots |-> {hdr[s]}]
    BY <2>1 DEF Flush
  <2>3. header.ok /\ hdr[activeSlot] = header /\ hdr[Other(activeSlot)] = ClearedHeader
    BY <2>1 DEF HeaderInv, HeaderInPlace, NewInPlace
  <2>4. ClearedHeader.ok
    BY <1>1, <2>3, NewHeaders
  <2>5. SlotsViewed' /\ SlotStands'
    BY <1>1, <2>2, <2>3 DEF SlotsViewed, SlotStands
  <2>6. HeaderInPlace' /\ ActiveIsStable' /\ NewInPlace'
    BY <1>2, <1>3, <2>1, <2>2, <2>3, <2>4 DEF HeaderInPlace, ActiveIsStable, NewInPlace, Rotates
  <2> QED
    BY <1>4, <2>5, <2>6 DEF HeaderInv
<1> QED
  BY <1>5, <1>6, <1>7, <1>8 DEF OpenStep

(* The process ends: an error of open_inner, a drop, a kill, a crash. *)
LEMMA EndHeaders ==
  ASSUME HeaderInv, TypeOK', CallsNeedReader', OpenError \/ Close \/ Kill \/ Crash
  PROVE  HeaderInv'
<1>1. phase' = "closed" /\ \A w \in Writers : pc'[w] = "idle"
  BY DEF OpenError, Close, Kill, Crash, Forget
<1>2. OneJournal' /\ HeaderInPlace' /\ ActiveIsStable' /\ NewInPlace'
  BY <1>1 DEF OneJournal, HeaderInPlace, ActiveIsStable, NewInPlace, Rotates, HoldsJournal
<1>3. ASSUME SlotsKept PROVE SlotsViewed' /\ SlotStands'
  BY <1>3 DEF HeaderInv, SlotsViewed, SlotStands, SlotsKept
<1>4. CASE Crash
  <2>1. hdr' \in Survivors(hdr, hdrMay) /\ hdrMay' = [s \in Slots |-> {hdr'[s]}]
    BY <1>4 DEF Crash, LosePower
  <2>2. \A s \in Slots : hdr'[s] \in hdrMay[s]
    BY <2>1, SlotSurvivor DEF HeaderInv
  <2>3. SlotsViewed' /\ SlotStands'
    BY <2>1, <2>2 DEF HeaderInv, SlotsViewed, SlotStands
  <2> QED
    BY <1>2, <2>3 DEF HeaderInv
<1>5. CASE OpenError /\ phase = "clear" /\ WriteHeader(Other(activeSlot), ClearedHeader)
  <2>1. header.ok /\ Rotates
    BY <1>5 DEF HeaderInv, HeaderInPlace, Rotates
  <2>2. ClearedHeader \in Headers /\ ClearedHeader.ok
    BY <2>1, JournalTypes, NewHeaders DEF HeaderInv
  <2> QED
    BY <1>2, <1>5, <2>1, <2>2, OtherWritten DEF HeaderInv
<1>6. CASE SlotsKept
  BY <1>2, <1>3, <1>6 DEF HeaderInv
<1> QED
  BY <1>4, <1>5, <1>6, DeviceKeepsSlots DEF OpenError, Close, Kill

(* One case for each kind of step. *)
LEMMA HeaderStep ==
  ASSUME HeaderInv, [Next]_vars
  PROVE  HeaderInv'
<1>1. TypeOK' /\ CallsNeedReader'
  BY TypeStep, CallsStep DEF HeaderInv
<1>2. CASE UNCHANGED vars
  <2>1. SlotsKept /\ NoneEnters /\ UNCHANGED <<phase, header, activeSlot>>
    BY <1>2 DEF SlotsKept, NoneEnters, vars, devVars, hdrVars, memVars, callVars
  <2> QED
    BY <1>1, <2>1, QuietHeader
<1> QED
  BY <1>1, <1>2, JournalHeaders, ErrorHeaders, CallHeaders, OpenHeaders, EndHeaders
  DEF Next, WriteStep

(* Before the first open both slots are as the image left them. *)
LEMMA HeaderInit ==
  ASSUME ImageReadable, Init
  PROVE  HeaderInv
<1>1. PICK st \in Starts : InitImage(st)
  BY DEF Init
<1>2. hdr = st.hdr /\ hdrMay = [s \in Slots |-> {st.hdr[s]}] /\ st.hdr[PickSlot(st.hdr)].ok
  BY <1>1 DEF InitImage, ImageReadable
<1>3. PickSlot(st.hdr) \in Slots
  BY DEF PickSlot, Slots
<1>4. SlotsViewed /\ SlotStands
  BY <1>2, <1>3 DEF SlotsViewed, SlotStands
<1> QED
  BY <1>4, TypeInit
  DEF HeaderInv, Init, CallsNeedReader, OneJournal, HeaderInPlace, ActiveIsStable, NewInPlace,
      Rotates, HoldsJournal

(* The inductive invariant of the slots. *)
THEOREM HeaderInvariant == ASSUME ImageReadable PROVE Spec => []HeaderInv
  BY HeaderInit, HeaderStep, PTL DEF Spec

(* However many calls journal, fail or are killed, and wherever power is   *)
(* lost, an image whose header could be read has a header that can be      *)
(* read: journal_sector_write and rewrite_header_clear_log write over a    *)
(* slot only while the other is on stable storage.                         *)
THEOREM HeaderSurvivesAlways == ASSUME ImageReadable PROVE Spec => []HeaderSurvives
<1>1. HeaderInv => HeaderSurvives
  <2> SUFFICES ASSUME HeaderInv PROVE HeaderSurvives
    OBVIOUS
  <2>1. ASSUME NEW h \in Survivors(hdr, hdrMay) PROVE h[PickSlot(h)].ok
    BY SlotSurvivor, PickIsReadable DEF HeaderInv, SlotStands
  <2> QED
    BY <2>1 DEF HeaderInv, ActiveIsStable, HeaderSurvives
<1> QED
  BY <1>1, HeaderInvariant, PTL

-----------------------------------------------------------------------------
(***************************************************************************)
(* The header in memory is the one the next open will pick, as long as the *)
(* sequence number has not wrapped.                                        *)
(***************************************************************************)
SeqBelowLimit == header.seq + 1 < SeqLimit

(* Below the limit a bumped number is a higher one. *)
LEMMA BumpedIsHigher ==
  ASSUME TypeOK, SeqBelowLimit
  PROVE  NextSeq(header.seq) = header.seq + 1 /\ header.seq \in Nat
<1>1. header.seq \in Nat /\ SeqLimit \in Nat \ {0}
  BY SizesAssumption DEF TypeOK, Headers
<1> QED
  BY <1>1 DEF NextSeq, SeqBelowLimit

(* Except between a header write and the flush after it, pick_header finds *)
(* the active slot.                                                        *)
ActiveIsPicked ==
  (/\ errors = 0
   /\ phase \notin {"closed", "clearFlush"}
   /\ \A w \in Writers : pc[w] # "headerFlush") => PickSlot(hdr) = activeSlot

(* The header a rotation has written outranks the one it replaces. *)
LEMMA NewIsPicked ==
  ASSUME HeaderInv, SeqBelowLimit, phase # "closed",
         hdr[Other(activeSlot)] \in {JournalHeader, ClearedHeader}
  PROVE  PickSlot(hdr) = Other(activeSlot)
<1>1. /\ hdr \in [Slots -> Headers] /\ activeSlot \in Slots
      /\ hdr[activeSlot] = header /\ header.ok
  BY DEF HeaderInv, TypeOK, FileTypeOK, HeaderInPlace
<1>2. Other(activeSlot) \in Slots /\ Other(Other(activeSlot)) = activeSlot
  BY <1>1 DEF Other, Slots
<1>3. hdr[Other(activeSlot)].ok /\ hdr[Other(activeSlot)].seq = header.seq + 1
      /\ header.seq \in Nat
  BY <1>1, NewHeaders, BumpedIsHigher DEF HeaderInv
<1> QED
  BY <1>1, <1>2, <1>3, PickIsNewer

(* One case for each kind of step. *)
LEMMA PickedStep ==
  ASSUME HeaderInv, SeqBelowLimit, ActiveIsPicked, [Next]_vars
  PROVE  ActiveIsPicked'
<1> SUFFICES ASSUME errors' = 0, phase' \notin {"closed", "clearFlush"},
                    \A w \in Writers : pc'[w] # "headerFlush"
             PROVE  PickSlot(hdr') = activeSlot'
  BY DEF ActiveIsPicked, PickSlot
<1>1. TypeOK /\ errors \in Nat
  BY DEF HeaderInv, TypeOK
<1>2. ASSUME hdr' = hdr, activeSlot' = activeSlot, errors = 0,
             phase \notin {"closed", "clearFlush"}, \A w \in Writers : pc[w] # "headerFlush"
      PROVE  PickSlot(hdr') = activeSlot'
  BY <1>2 DEF ActiveIsPicked
<1>3. ASSUME NEW w \in Writers,
             BeginWrite(w) \/ Lookup(w) \/ AllocateStep(w) \/ WritePayload(w) \/ Acknowledge(w)
      PROVE  PickSlot(hdr') = activeSlot'
  <2>1. hdr' = hdr
    BY <1>3, DeviceKeepsSlots
    DEF BeginWrite, Lookup, AllocateStep, Allocate, ZeroInit, ZeroFlush, ReadSector, Publish,
        PublishFlush, PublishTable, WritePayload, Acknowledge, SlotsKept
  <2>2. UNCHANGED <<phase, activeSlot, errors>>
    BY <1>3 DEF BeginWrite, Lookup, AllocateStep, Allocate, ZeroInit, ZeroFlush, ReadSector,
        Publish, PublishFlush, PublishTable, WritePayload, Acknowledge, ReturnError, memVars
  <2>3. \A x \in Writers : pc[x] = "headerFlush" => pc'[x] = "headerFlush"
    BY <1>1, <1>3 DEF BeginWrite, Lookup, AllocateStep, Allocate, ZeroInit, ZeroFlush,
       ReadSector, Publish, PublishFlush, PublishTable, WritePayload, Acknowledge,
       ReturnError, Goto, TypeOK
  <2> QED
    BY <1>2, <2>1, <2>2, <2>3
<1>4. ASSUME NEW w \in Writers, JournalStep(w) PROVE PickSlot(hdr') = activeSlot'
  <2>1. CASE JournalHeaderFlush(w)
    <3>1. hdr' = hdr /\ activeSlot' = Other(activeSlot) /\ pc[w] = "headerFlush"
      BY <2>1 DEF JournalHeaderFlush, Flush
    <3>2. hdr[Other(activeSlot)] = JournalHeader /\ phase # "closed"
      BY <3>1 DEF HeaderInv, NewInPlace, CallsNeedReader
    <3> QED
      BY <3>1, <3>2, NewIsPicked
  <2>2. CASE JournalHeaderWrite(w)
    BY <1>1, <2>2 DEF JournalHeaderWrite, Goto, TypeOK
  <2>3. CASE JournalLog(w) \/ JournalLogFlush(w)
    <3>1. UNCHANGED <<hdr, phase, activeSlot, errors>>
      BY <2>3 DEF JournalLog, JournalLogFlush, WriteLog, Flush, devVars, hdrVars, memVars
    <3>2. \A x \in Writers : pc[x] = "headerFlush" => pc'[x] = "headerFlush"
      BY <1>1, <2>3 DEF JournalLog, JournalLogFlush, Goto, TypeOK
    <3> QED
      BY <1>2, <3>1, <3>2
  <2> QED
    BY <1>4, <2>1, <2>2, <2>3 DEF JournalStep
<1>5. ASSUME NEW w \in Writers, DeviceError(w) PROVE PickSlot(hdr') = activeSlot'
  BY <1>1, <1>5 DEF DeviceError
<1>6. CASE OpenStart
  BY <1>6 DEF OpenStart, devVars, hdrVars
<1>7. CASE OpenStep
  <2>1. CASE ClearFlush
    <3>1. hdr' = hdr /\ activeSlot' = Other(activeSlot) /\ phase = "clearFlush"
      BY <2>1 DEF ClearFlush, Flush
    <3>2. hdr[Other(activeSlot)] = ClearedHeader
      BY <3>1 DEF HeaderInv, NewInPlace
    <3> QED
      BY <3>1, <3>2, NewIsPicked
  <2>2. CASE ClearHeader
    BY <2>2 DEF ClearHeader
  <2>3. CASE ~ClearFlush /\ ~ClearHeader
    <3>1. /\ UNCHANGED <<hdr, activeSlot, errors, pc>>
          /\ phase \notin {"closed", "clearFlush"}
      BY <1>7, <2>3 DEF OpenStep, ReplayGrow, ReplayWrite, ReplayFlush, EraseLog, EraseFlush,
         LoadBat, WriteBatSector, WriteLog, SetLen, Flush, devVars, hdrVars, callVars
    <3> QED
      BY <1>2, <3>1
  <2> QED
    BY <2>1, <2>2, <2>3
<1>8. CASE OpenError \/ Close \/ Kill \/ Crash
  BY <1>8 DEF OpenError, Close, Kill, Crash, Forget
<1>9. CASE UNCHANGED vars
  BY <1>2, <1>9 DEF vars, devVars, hdrVars, memVars, callVars
<1> QED
  BY <1>3, <1>4, <1>5, <1>6, <1>7, <1>8, <1>9 DEF Next, WriteStep

(* Between two journal writes the header in memory is the one the next     *)
(* open picks, for any number of writers and any kills and crashes, until  *)
(* a device call fails or the sequence number reaches its limit            *)
(* (journal_sector_write, rewrite_header_clear_log, pick_header).          *)
THEOREM HeaderIsCurrentAlways ==
  ASSUME ImageReadable PROVE Spec /\ []SeqBelowLimit => []HeaderIsCurrent
<1>1. Init => ActiveIsPicked
  BY DEF Init, ActiveIsPicked
<1>2. HeaderInv /\ SeqBelowLimit /\ ActiveIsPicked /\ [Next]_vars => ActiveIsPicked'
  BY PickedStep
<1>3. HeaderInv /\ ActiveIsPicked => HeaderIsCurrent
  BY DEF HeaderInv, ActiveIsPicked, HeaderIsCurrent, HeaderInPlace, HoldsJournal
<1> QED
  BY <1>1, <1>2, <1>3, HeaderInvariant, PTL DEF Spec

-----------------------------------------------------------------------------
(***************************************************************************)
(* The journal, for one writer on a device that reports no error and a     *)
(* process that is not killed: more writers, an error or a kill break it,  *)
(* as the runs that expect a violation show.                               *)
(***************************************************************************)
OneWriter == \A v, w \in Writers : v = w
Serial == OneWriter /\ MaxErrors = 0 /\ ~Kills

(* Every image has room for the log, and no entry is spoiled or would be   *)
(* forgotten by the log it has, once that is replayed.                     *)
JournaledStart(st) ==
  /\ st.hdr[PickSlot(st.hdr)].room
  /\ \A b \in Blocks :
       /\ st.bat[b].state = "spoiled" => Pending(st) /\ st.log.image[b] # Uncovered
       /\ Pending(st) => /\ st.log.image[b].state # "spoiled"
                         /\ st.log.image[b].state = "absent" => st.bat[b].state # "present"
ImageJournaled == \A st \in Starts : JournaledStart(st)

At(steps) == \E w \in Writers : pc[w] \in steps

(* Between the flush after a write and the next write of the same          *)
(* structure, a crash leaves what reads.                                   *)
Settling ==
  /\ ~At({"headerFlush"}) /\ phase # "clearFlush" => \A s \in Slots : hdrMay[s] = {hdr[s]}
  /\ ~At({"logFlush"}) /\ phase # "eraseFlush" => logMay = {log}
  /\ ~At({"publishFlush"}) /\ phase # "applyFlush" => \A b \in Blocks : batMay[b] = {bat[b]}

(* pick_header prefers the active header over x. *)
Outranked(x) == x.ok => IF activeSlot = 1 THEN header.seq >= x.seq ELSE header.seq > x.seq

RotationOutranks ==
  /\ At({"headerFlush"}) =>
       \A x \in hdrMay[Other(activeSlot)] : x = JournalHeader \/ Outranked(x)
  /\ phase = "clearFlush" =>
       \A x \in hdrMay[Other(activeSlot)] : x = ClearedHeader \/ Outranked(x)

(* The headers an open after a crash may find. *)
Heads ==
  IF phase = "closed" THEN {hdr[PickSlot(hdr)]}
  ELSE {header} \cup (IF At({"headerFlush"}) THEN {JournalHeader} ELSE {})
                \cup (IF phase = "clearFlush" THEN {ClearedHeader} ELSE {})

(* The log entry l is replayed under the header p. *)
Live(p, l) == p.guid # NoGuid /\ p.room /\ l.ok /\ l.guid = p.guid

HeadsRoom == \A p \in Heads : p.room

(* The sector a call has spliced its entry into is that on the device, up  *)
(* to the in-place write and from then on.                                 *)
ImageHolds ==
  \A w \in Writers :
    /\ pc[w] \in {"journal", "logFlush", "headerWrite", "headerFlush", "publish"} =>
         \A x \in Blocks : image[w][x] =
           IF x = BlockAt(w) THEN PresentEntry(host[w])
           ELSE IF SectorOf(x) = SectorOf(BlockAt(w)) THEN bat[x] ELSE Uncovered
    /\ pc[w] \in {"publishFlush", "publishTable"} =>
         /\ image[w][BlockAt(w)] = PresentEntry(host[w])
         /\ \A x \in Blocks : image[w][x] # Uncovered => bat[x] = image[w][x]

(* The log holds that sector, and from the header's flush on it is live.   *)
LogHolds ==
  \A w \in Writers :
    /\ pc[w] \in {"logFlush", "headerWrite", "headerFlush"} => log = JournalEntry(w)
    /\ pc[w] \in {"publish", "publishFlush"} => Live(header, log) /\ log.image = image[w]

ReplayHolds ==
  /\ phase \in {"grow", "apply", "applyFlush"} => Live(header, log)
  /\ phase = "applyFlush" =>
       \A b \in Blocks : log.image[b] # Uncovered => bat[b] = log.image[b]

(* The BAT is whole once the log has been applied, and until then the log  *)
(* covers what is not.                                                     *)
Applied == phase \in {"erase", "eraseFlush", "clear", "clearFlush", "load", "open"}
SpoiledIsCovered ==
  \A b \in Blocks : bat[b].state = "spoiled" =>
    ~Applied /\ \A p \in Heads : Live(p, log) /\ log.image[b] # Uncovered

(* Between the write of a BAT sector and its flush the log covers every    *)
(* entry a crash may leave otherwise than it reads, and does not forget    *)
(* one that may be left present.                                           *)
InPlaceHolds ==
  At({"publishFlush"}) \/ phase = "applyFlush" =>
    \A b \in Blocks :
      /\ bat[b] \in batMay[b]
      /\ log.image[b] = Uncovered => batMay[b] = {bat[b]}
      /\ log.image[b].state = "absent" => \A e \in batMay[b] : e.state # "present"

(* An entry that may be replayed spoils nothing and forgets nothing, and   *)
(* is what the BAT says already or what the call in flight will write.     *)
Restores(l, b) ==
  /\ l.image[b].state # "spoiled"
  /\ l.image[b].state = "absent" => bat[b].state # "present"
  /\ Applied => \/ l.image[b] = bat[b]
                \/ \E w \in Writers : /\ Owns(w) /\ BlockAt(w) = b
                                      /\ l.image[b] = PresentEntry(host[w])
LiveRestores ==
  \A p \in Heads, l \in logMay : Live(p, l) =>
    \A b \in Blocks : l.image[b] # Uncovered => Restores(l, b)

JournalInv ==
  /\ HeaderInv
  /\ ActiveIsPicked
  /\ errors = 0
  /\ log \in logMay
  /\ Settling
  /\ RotationOutranks
  /\ HeadsRoom
  /\ ImageHolds
  /\ LogHolds
  /\ ReplayHolds
  /\ SpoiledIsCovered
  /\ InPlaceHolds
  /\ LiveRestores

(* What no serial run has. *)
LEMMA SerialExcludes ==
  ASSUME Serial, errors = 0
  PROVE  /\ \A w \in Writers : ~DeviceError(w)
         /\ ~OpenError
         /\ ~Kill
  BY ImageAssumption DEF Serial, DeviceError, OpenError, Kill

(* pick_header and the order of headers. *)
LEMMA OutrankedIsNotPicked ==
  ASSUME NEW h \in [Slots -> Headers], TypeOK, header.ok, h[activeSlot] = header
  PROVE  Outranked(h[Other(activeSlot)]) <=> PickSlot(h) = activeSlot
<1>1. h[1].seq \in Nat /\ h[2].seq \in Nat
  BY DEF Slots, Headers
<1>2. activeSlot = 1 \/ activeSlot = 2
  BY DEF TypeOK, Slots
<1> QED
  BY <1>1, <1>2 DEF PickSlot, Other, Outranked

(* Whatever a crash leaves, the header that is picked is one of Heads. *)
LEMMA HeadsCover ==
  ASSUME JournalInv, NEW h \in Survivors(hdr, hdrMay)
  PROVE  h[PickSlot(h)] \in Heads
<1>1. TypeOK /\ h \in [Slots -> Headers] /\ \A s \in Slots : h[s] \in hdrMay[s]
  BY SlotSurvivor DEF JournalInv, HeaderInv
<1>2. hdr \in [Slots -> Headers] /\ activeSlot \in Slots /\ PickSlot(h) \in Slots
  BY <1>1 DEF TypeOK, FileTypeOK, PickSlot, Slots
<1>3. Other(activeSlot) \in Slots /\ \A s \in Slots : s = activeSlot \/ s = Other(activeSlot)
  BY <1>2, OtherSlot
<1>4. CASE phase = "closed"
  <2>1. \A s \in Slots : h[s] = hdr[s]
    BY <1>1, <1>4 DEF JournalInv, Settling, HeaderInv, CallsNeedReader, At
  <2>2. h = hdr
    BY <1>1, <1>2, <2>1
  <2> QED
    BY <1>4, <2>2 DEF Heads
<1>5. CASE phase # "closed"
  <2>1. header.ok /\ hdr[activeSlot] = header
    BY <1>5 DEF JournalInv, HeaderInv, HeaderInPlace
  <2>2. CASE ~At({"headerFlush"}) /\ phase # "clearFlush"
    <3>1. \A s \in Slots : h[s] = hdr[s]
      BY <1>1, <2>2 DEF JournalInv, Settling
    <3>2. h = hdr
      BY <1>1, <1>2, <3>1
    <3>3. PickSlot(hdr) = activeSlot
      BY <1>5, <2>2 DEF JournalInv, ActiveIsPicked, At
    <3> QED
      BY <1>5, <2>1, <3>2, <3>3 DEF Heads
  <2>3. CASE At({"headerFlush"}) \/ phase = "clearFlush"
    <3>1. hdrMay[activeSlot] = {header}
      BY <2>3 DEF JournalInv, HeaderInv, ActiveIsStable, Rotates, At
    <3>2. h[activeSlot] = header
      BY <1>1, <1>2, <3>1
    <3>3. h[Other(activeSlot)] \in Heads \/ Outranked(h[Other(activeSlot)])
      BY <1>1, <1>3, <1>5, <2>3 DEF JournalInv, RotationOutranks, Heads
    <3>4. header \in Heads
      BY <1>5 DEF Heads
    <3> QED
      BY <1>1, <1>2, <1>3, <2>1, <3>2, <3>3, <3>4, OutrankedIsNotPicked
  <2> QED
    BY <2>2, <2>3
<1> QED
  BY <1>4, <1>5

-----------------------------------------------------------------------------
(* The device operations and the three structures: each reads as before,   *)
(* and a crash leaves what it could leave before or what reads.            *)
Held ==
  /\ UNCHANGED <<hdr, log, bat>>
  /\ hdrMay' = hdrMay \/ hdrMay' = [s \in Slots |-> {hdr[s]}]
  /\ logMay' = logMay \/ logMay' = {log}
  /\ batMay' = batMay \/ batMay' = [b \in Blocks |-> {bat[b]}]

(* A flush, a growth or a write of the payload is such a step. *)
LEMMA DeviceHolds ==
  ASSUME \/ UNCHANGED devVars
         \/ Flush
         \/ \E from, to, v : WriteCells(from, to, v)
         \/ \E n : SetLen(n)
  PROVE  Held
  BY DEF Held, Flush, WriteCells, SetLen, devVars, hdrVars, logVars, batVars

(* What the header lemmas give for every serial step. *)
LEMMA SerialHeaders ==
  ASSUME Serial, JournalInv, SeqBelowLimit, [Next]_vars
  PROVE  /\ HeaderInv' /\ ActiveIsPicked' /\ errors' = 0
         /\ TypeOK /\ TypeOK'
<1>1. HeaderInv' /\ ActiveIsPicked'
  BY HeaderStep, PickedStep DEF JournalInv
<1>2. errors' = errors
  BY SerialExcludes
  DEF JournalInv, Next, BeginWrite, WriteStep, AllocateStep, JournalStep, Lookup, Allocate,
      ZeroInit, ZeroFlush, ReadSector, Publish, PublishFlush, PublishTable, JournalLog,
      JournalLogFlush, JournalHeaderWrite, JournalHeaderFlush, WritePayload, Acknowledge,
      OpenStart, OpenStep, ReplayGrow, ReplayWrite, ReplayFlush, EraseLog, EraseFlush,
      ClearHeader, ClearFlush, LoadBat, Close, Crash, vars
<1> QED
  BY <1>1, <1>2 DEF JournalInv, HeaderInv

(* The steps of a call that are none of the journal's. *)
Outside == {"idle", "lookup", "allocate", "zero", "zeroFlush", "payload", "finalFlush"}

(* A call that takes one of them leaves JournalInv as it is. *)
LEMMA QuietJournal ==
  ASSUME Serial, JournalInv, HeaderInv', ActiveIsPicked', errors' = 0, Held,
         phase = "open", UNCHANGED <<phase, header, activeSlot>>,
         NEW w \in Writers, pc[w] \in Outside, pc'[w] \in Outside \cup {"readSector"}
  PROVE  JournalInv'
<1>1. \A x \in Writers : x = w
  BY DEF Serial, OneWriter
<1>2. /\ ~At({"headerFlush"}) /\ ~At({"logFlush"}) /\ ~At({"publishFlush"})
      /\ ~At({"headerFlush"})' /\ ~At({"logFlush"})' /\ ~At({"publishFlush"})'
  BY <1>1 DEF At, Outside
<1>3. /\ \A s \in Slots : hdrMay[s] = {hdr[s]}
      /\ logMay = {log}
      /\ \A b \in Blocks : batMay[b] = {bat[b]}
  BY <1>2 DEF JournalInv, Settling
<1>4. Settling' /\ (log \in logMay)'
  BY <1>3 DEF Settling, Held
<1>5. RotationOutranks'
  BY <1>2 DEF RotationOutranks
<1>6. Heads = {header} /\ Heads' = {header}
  BY <1>2 DEF Heads
<1>7. HeadsRoom'
  BY <1>6 DEF JournalInv, HeadsRoom
<1>8. ImageHolds' /\ LogHolds' /\ ReplayHolds'
  BY <1>1 DEF ImageHolds, LogHolds, ReplayHolds, Outside
<1>9. SpoiledIsCovered' /\ InPlaceHolds'
  BY <1>2 DEF JournalInv, SpoiledIsCovered, Held, Applied, InPlaceHolds
<1>10. LiveRestores'
  <2> SUFFICES ASSUME Live(header, log), NEW b \in Blocks, log.image[b] # Uncovered
               PROVE  Restores(log, b)'
    BY <1>3, <1>6 DEF LiveRestores, Held
  <2>1. Restores(log, b) /\ ~Owns(w)
    BY <1>3, <1>6 DEF JournalInv, LiveRestores, Owns, Outside
  <2>2. log.image[b] = bat[b] /\ log.image[b].state # "spoiled"
        /\ (log.image[b].state = "absent" => bat[b].state # "present")
    BY <1>1, <2>1 DEF Restores, Applied
  <2> QED
    BY <2>2 DEF Restores, Held
<1> QED
  BY <1>4, <1>5, <1>7, <1>8, <1>9, <1>10 DEF JournalInv

(* The steps of write_at around the journal. *)
LEMMA CallsJournal ==
  ASSUME Serial, JournalInv, HeaderInv', ActiveIsPicked', errors' = 0, NEW w \in Writers,
         \/ BeginWrite(w) \/ Lookup(w) \/ Allocate(w) \/ ZeroInit(w) \/ ZeroFlush(w)
         \/ WritePayload(w) \/ Acknowledge(w)
  PROVE  JournalInv'
<1>1. pc \in [Writers -> Steps]
  BY DEF JournalInv, HeaderInv, TypeOK
<1>2. Held
  BY DeviceHolds DEF BeginWrite, Lookup, Allocate, ZeroInit, ZeroFlush, WritePayload, Acknowledge
<1>3. UNCHANGED <<phase, header, activeSlot>>
  BY DEF BeginWrite, Lookup, Allocate, ZeroInit, ZeroFlush, WritePayload, Acknowledge,
     ReturnError, memVars
<1>4. pc[w] \in Outside /\ pc'[w] \in Outside \cup {"readSector"}
  BY <1>1 DEF BeginWrite, Lookup, Allocate, ZeroInit, ZeroFlush, WritePayload, Acknowledge,
     ReturnError, Goto, Outside
<1>5. phase = "open"
  BY DEF BeginWrite, Lookup, Allocate, ZeroInit, ZeroFlush, WritePayload, Acknowledge,
     JournalInv, HeaderInv, CallsNeedReader
<1> QED
  BY <1>2, <1>3, <1>4, <1>5, QuietJournal

(* What an entry restores depends on the BAT and on the block in hand. *)
LEMMA RestoresKept ==
  ASSUME NEW l, NEW b \in Blocks, Restores(l, b), bat'[b] = bat[b], Applied' => Applied,
         \A x \in Writers : Owns(x) => Owns(x)' /\ host'[x] = host[x] /\ BlockAt(x)' = BlockAt(x)
  PROVE  Restores(l, b)'
  BY DEF Restores

(* The sector a call has spliced its entry into restores every block it    *)
(* covers.                                                                 *)
LEMMA SpliceRestores ==
  ASSUME JournalInv, phase = "open", NEW w \in Writers,
         pc[w] \in {"journal", "logFlush", "headerWrite", "headerFlush", "publish"},
         NEW l, l.image = image[w], NEW b \in Blocks, l.image[b] # Uncovered
  PROVE  Restores(l, b)
<1>1. Owns(w)
  BY DEF Owns
<1>2. l.image[b] = IF b = BlockAt(w) THEN PresentEntry(host[w]) ELSE bat[b]
  BY DEF JournalInv, ImageHolds
<1>3. bat[b].state # "spoiled"
  BY DEF JournalInv, SpoiledIsCovered, Applied
<1> QED
  BY <1>1, <1>2, <1>3, NotPresent DEF Restores, PresentEntry

(* An entry is never live under the all-zero GUID, and stirring does not   *)
(* make one.                                                               *)
LEMMA StirNotZero ==
  ASSUME NEW g, NEW n
  PROVE  Stir(g, n) # NoGuid
<1> DEFINE mix == (g.mix \ BitsOf(n)) \cup (BitsOf(n) \ g.mix)
<1>1. CASE mix = {} /\ ~g.lead
  BY <1>1 DEF Stir, NoGuid
<1>2. CASE ~(mix = {} /\ ~g.lead)
  <2>1. Stir(g, n) = [lead |-> g.lead, mix |-> mix]
    BY <1>2 DEF Stir
  <2> HIDE DEF mix
  <2> QED
    BY <1>2, <2>1 DEF NoGuid
<1> QED
  BY <1>1, <1>2

(* allocate_block_for reads the BAT sector. *)
LEMMA ReadSectorJournal ==
  ASSUME Serial, JournalInv, HeaderInv', ActiveIsPicked', errors' = 0, NEW w \in Writers,
         ReadSector(w)
  PROVE  JournalInv'
<1>1. \A x \in Writers : x = w
  BY DEF Serial, OneWriter
<1>2. /\ pc[w] = "readSector" /\ pc'[w] = "journal" /\ phase = "open"
      /\ UNCHANGED <<hdr, hdrMay, log, logMay, bat, batMay, phase, header, activeSlot, host, req>>
      /\ \A x \in Blocks : image'[w][x] =
           IF x = BlockAt(w) THEN PresentEntry(host[w])
           ELSE IF SectorOf(x) = SectorOf(BlockAt(w)) THEN bat[x] ELSE Uncovered
  BY DEF ReadSector, Goto, devVars, hdrVars, logVars, batVars, memVars, JournalInv, HeaderInv,
     TypeOK, CallsNeedReader
<1>3. /\ ~At({"headerFlush"}) /\ ~At({"logFlush"}) /\ ~At({"publishFlush"})
      /\ ~At({"headerFlush"})' /\ ~At({"logFlush"})' /\ ~At({"publishFlush"})'
  BY <1>1, <1>2 DEF At
<1>4. Settling' /\ (log \in logMay)' /\ RotationOutranks'
  BY <1>2, <1>3 DEF JournalInv, Settling, RotationOutranks
<1>5. Heads = {header} /\ Heads' = {header}
  BY <1>2, <1>3 DEF Heads
<1>6. HeadsRoom'
  BY <1>5 DEF JournalInv, HeadsRoom
<1>7. ImageHolds'
  BY <1>1, <1>2 DEF ImageHolds, BlockAt
<1>8. LogHolds' /\ ReplayHolds'
  BY <1>1, <1>2 DEF LogHolds, ReplayHolds
<1>9. SpoiledIsCovered' /\ InPlaceHolds'
  BY <1>2, <1>3 DEF JournalInv, SpoiledIsCovered, Applied, InPlaceHolds
<1>10. LiveRestores'
  <2> SUFFICES ASSUME NEW l \in logMay, Live(header, l), NEW b \in Blocks, l.image[b] # Uncovered
               PROVE  Restores(l, b)'
    BY <1>2, <1>5 DEF LiveRestores
  <2>1. Restores(l, b)
    BY <1>5 DEF JournalInv, LiveRestores
  <2>2. \A x \in Writers : Owns(x) => Owns(x)' /\ host'[x] = host[x] /\ BlockAt(x)' = BlockAt(x)
    BY <1>1, <1>2 DEF Owns, BlockAt
  <2> QED
    BY <1>2, <2>1, <2>2, RestoresKept DEF Applied
<1> QED
  BY <1>4, <1>6, <1>7, <1>8, <1>9, <1>10 DEF JournalInv

(* journal_sector_write: the log entry. *)
LEMMA LogJournal ==
  ASSUME Serial, JournalInv, HeaderInv', ActiveIsPicked', errors' = 0, NEW w \in Writers,
         JournalLog(w) \/ JournalLogFlush(w)
  PROVE  JournalInv'
<1>1. \A x \in Writers : x = w
  BY DEF Serial, OneWriter
<1>2. /\ pc[w] \in {"journal", "logFlush"} /\ phase = "open"
      /\ UNCHANGED <<hdr, bat, phase, header, activeSlot, devSize, host, req, image>>
      /\ pc \in [Writers -> Steps]
  BY DEF JournalLog, JournalLogFlush, WriteLog, Flush, devVars, hdrVars, batVars, memVars,
     JournalInv, HeaderInv, TypeOK, CallsNeedReader
<1>3. ~At({"headerFlush"}) /\ ~At({"publishFlush"})
  BY <1>1, <1>2 DEF At
<1>4. Heads = {header} /\ header.room
  BY <1>2, <1>3 DEF Heads, JournalInv, HeadsRoom
<1>5. /\ \A s \in Slots : hdrMay[s] = {hdr[s]}
      /\ \A b \in Blocks : batMay[b] = {bat[b]}
  BY <1>2, <1>3 DEF JournalInv, Settling
<1>6. /\ pc'[w] \in {"logFlush", "headerWrite"}
      /\ log' = JournalEntry(w) /\ log' \in logMay'
      /\ logMay' \subseteq logMay \cup {JournalEntry(w), NoEntry}
      /\ \A s \in Slots : hdrMay'[s] = {hdr'[s]}
      /\ \A b \in Blocks : batMay'[b] = {bat'[b]}
      /\ pc'[w] # "logFlush" => logMay' = {log'}
  <2>1. CASE JournalLog(w)
    <3>1. WriteLog(JournalEntry(w)) /\ pc'[w] = "logFlush"
      BY <1>2, <1>4, <2>1 DEF JournalLog, Goto
    <3> QED
      BY <1>2, <1>5, <3>1 DEF WriteLog, hdrVars, batVars
  <2>2. CASE JournalLogFlush(w)
    <3>1. Flush /\ pc'[w] = "headerWrite" /\ pc[w] = "logFlush"
      BY <1>2, <2>2 DEF JournalLogFlush, Goto
    <3>2. log = JournalEntry(w) /\ log \in logMay
      BY <3>1 DEF JournalInv, LogHolds
    <3> QED
      BY <1>2, <3>1, <3>2 DEF Flush
  <2> QED
    BY <2>1, <2>2
<1>7. ~At({"headerFlush"})' /\ ~At({"publishFlush"})'
  BY <1>1, <1>6 DEF At
<1>8. Settling' /\ RotationOutranks'
  BY <1>1, <1>2, <1>6, <1>7 DEF Settling, RotationOutranks, At
<1>9. Heads' = {header}
  BY <1>2, <1>7 DEF Heads
<1>10. HeadsRoom' /\ ReplayHolds'
  BY <1>2, <1>4, <1>9 DEF HeadsRoom, ReplayHolds
<1>11. ImageHolds'
  BY <1>1, <1>2, <1>6 DEF JournalInv, ImageHolds, BlockAt
<1>12. LogHolds'
  <2>1. JournalEntry(w)' = JournalEntry(w)
    BY <1>2 DEF JournalEntry, JournalHeader
  <2> QED
    BY <1>1, <1>6, <2>1 DEF LogHolds
<1>13. SpoiledIsCovered' /\ InPlaceHolds'
  BY <1>2, <1>7 DEF JournalInv, SpoiledIsCovered, Applied, InPlaceHolds
<1>14. LiveRestores'
  <2> SUFFICES ASSUME NEW l \in logMay', Live(header, l), NEW b \in Blocks, l.image[b] # Uncovered
               PROVE  Restores(l, b)'
    BY <1>9 DEF LiveRestores
  <2>1. l \in logMay \/ l = JournalEntry(w)
    BY <1>6 DEF Live, NoEntry
  <2>2. CASE l = JournalEntry(w)
    <3>1. l.image = image[w]
      BY <2>2 DEF JournalEntry
    <3> QED
      BY <1>2, <3>1, SpliceRestores, RestoresKept, <1>1, <1>6 DEF Applied, Owns, BlockAt
  <2>3. CASE l \in logMay
    <3>1. Restores(l, b)
      BY <1>4, <2>3 DEF JournalInv, LiveRestores
    <3> QED
      BY <1>1, <1>2, <1>6, <3>1, RestoresKept DEF Applied, Owns, BlockAt
  <2> QED
    BY <2>1, <2>2, <2>3
<1> QED
  BY <1>6, <1>8, <1>10, <1>11, <1>12, <1>13, <1>14 DEF JournalInv

(* journal_sector_write: the header that names it. *)
LEMMA RotateJournal ==
  ASSUME Serial, JournalInv, HeaderInv', ActiveIsPicked', errors' = 0, NEW w \in Writers,
         JournalHeaderWrite(w) \/ JournalHeaderFlush(w)
  PROVE  JournalInv'
<1>1. \A x \in Writers : x = w
  BY DEF Serial, OneWriter
<1>2. /\ pc[w] \in {"headerWrite", "headerFlush"} /\ phase = "open" /\ phase' = "open"
      /\ UNCHANGED <<log, bat, devSize, host, req, image>>
      /\ pc \in [Writers -> Steps] /\ TypeOK
  BY DEF JournalHeaderWrite, JournalHeaderFlush, WriteHeader, Flush, devVars, logVars, batVars,
     memVars, JournalInv, HeaderInv, TypeOK, CallsNeedReader
<1>3. ~At({"logFlush"}) /\ ~At({"publishFlush"})
  BY <1>1, <1>2 DEF At
<1>4. logMay = {log} /\ \A b \in Blocks : batMay[b] = {bat[b]}
  BY <1>2, <1>3 DEF JournalInv, Settling
<1>5. log = JournalEntry(w)
  BY <1>2 DEF JournalInv, LogHolds
<1>6. /\ log.image = image[w] /\ log.ok /\ log.guid = JournalHeader.guid
      /\ JournalHeader.guid # NoGuid /\ JournalHeader.room = header.room /\ header.room
  <2>1. header \in Heads
    BY <1>2 DEF Heads
  <2> QED
    BY <1>2, <1>5, <2>1, NewHeaders, StirNotZero DEF JournalEntry, JournalInv, HeadsRoom
<1>7. ASSUME NEW b \in Blocks, log.image[b] # Uncovered, bat' = bat,
             Owns(w)' PROVE Restores(log, b)'
  <2>1. Restores(log, b)
    BY <1>2, <1>6, <1>7, SpliceRestores
  <2> QED
    BY <1>1, <1>2, <1>7, <2>1, RestoresKept DEF Applied, BlockAt
<1>8. SpoiledIsCovered'
  BY <1>2 DEF JournalInv, SpoiledIsCovered, Applied
<1>9. CASE JournalHeaderWrite(w)
  <2>1. /\ pc'[w] = "headerFlush" /\ WriteHeader(Other(activeSlot), JournalHeader)
        /\ UNCHANGED <<header, activeSlot>> /\ pc[w] = "headerWrite"
    BY <1>2, <1>9 DEF JournalHeaderWrite, Goto, memVars
  <2>2. /\ UNCHANGED <<logMay, batMay>>
        /\ hdrMay' = [hdrMay EXCEPT ![Other(activeSlot)] = @ \cup {JournalHeader, TornHeader}]
    BY <2>1 DEF WriteHeader, logVars, batVars
  <2>3. JournalHeader' = JournalHeader /\ JournalEntry(w)' = JournalEntry(w)
        /\ Other(activeSlot)' = Other(activeSlot)
    BY <1>2, <2>1 DEF JournalHeader, JournalEntry, Other
  <2>4. At({"headerFlush"})' /\ ~At({"logFlush"})' /\ ~At({"publishFlush"})'
    BY <1>1, <2>1 DEF At
  <2>5. Settling' /\ (log \in logMay)'
    BY <1>2, <1>4, <2>2, <2>4 DEF Settling
  <2>6. RotationOutranks'
    <3>1. /\ hdr \in [Slots -> Headers] /\ hdrMay \in [Slots -> SUBSET Headers]
          /\ Other(activeSlot) \in Slots
      BY <1>2, OtherSlot DEF TypeOK, FileTypeOK
    <3>2. ~At({"headerFlush"})
      BY <1>1, <2>1 DEF At
    <3>3. hdrMay[Other(activeSlot)] = {hdr[Other(activeSlot)]} /\ PickSlot(hdr) = activeSlot
          /\ hdr[activeSlot] = header /\ header.ok
      BY <1>2, <3>1, <3>2
      DEF JournalInv, Settling, ActiveIsPicked, At, HeaderInv, HeaderInPlace
    <3>4. Outranked(hdr[Other(activeSlot)])
      BY <1>2, <3>1, <3>3, OutrankedIsNotPicked
    <3>5. Outranked(TornHeader)
      BY DEF Outranked, TornHeader
    <3>6. hdrMay'[Other(activeSlot)] = {hdr[Other(activeSlot)], JournalHeader, TornHeader}
      BY <2>2, <3>1, <3>3
    <3>7. \A x \in hdrMay'[Other(activeSlot)] : x = JournalHeader \/ Outranked(x)'
      BY <2>1, <3>4, <3>5, <3>6 DEF Outranked
    <3> QED
      BY <1>2, <2>3, <3>7 DEF RotationOutranks
  <2>7. Heads' = {header, JournalHeader}
    BY <1>2, <2>1, <2>3, <2>4 DEF Heads
  <2>8. HeadsRoom' /\ ReplayHolds' /\ InPlaceHolds'
    BY <1>2, <1>6, <2>4, <2>7 DEF HeadsRoom, ReplayHolds, InPlaceHolds
  <2>9. ImageHolds' /\ LogHolds'
    BY <1>1, <1>2, <1>5, <2>1, <2>3 DEF JournalInv, ImageHolds, LogHolds, BlockAt
  <2>10. LiveRestores'
    BY <1>2, <1>4, <1>7, <2>1, <2>2 DEF LiveRestores, Owns
  <2> QED
    BY <1>8, <2>5, <2>6, <2>8, <2>9, <2>10 DEF JournalInv
<1>10. CASE JournalHeaderFlush(w)
  <2>1. /\ pc'[w] = "publish" /\ Flush /\ header' = JournalHeader
    BY <1>2, <1>10 DEF JournalHeaderFlush, Goto
  <2>2. /\ hdr' = hdr /\ hdrMay' = [s \in Slots |-> {hdr[s]}]
        /\ logMay' = {log} /\ batMay' = [b \in Blocks |-> {bat[b]}]
    BY <2>1 DEF Flush
  <2>3. ~At({"headerFlush"})' /\ ~At({"logFlush"})' /\ ~At({"publishFlush"})'
    BY <1>1, <2>1 DEF At
  <2>4. Settling' /\ (log \in logMay)' /\ RotationOutranks'
    BY <1>2, <2>2, <2>3 DEF Settling, RotationOutranks
  <2>5. Heads' = {JournalHeader}
    BY <1>2, <2>1, <2>3 DEF Heads
  <2>6. HeadsRoom' /\ ReplayHolds' /\ InPlaceHolds'
    BY <1>2, <1>6, <2>3, <2>5 DEF HeadsRoom, ReplayHolds, InPlaceHolds
  <2>7. ImageHolds'
    BY <1>1, <1>2, <2>1 DEF JournalInv, ImageHolds, BlockAt
  <2>8. LogHolds'
    BY <1>1, <1>2, <1>6, <2>1 DEF LogHolds, Live
  <2>9. LiveRestores'
    BY <1>2, <1>7, <2>1, <2>2 DEF LiveRestores, Owns
  <2> QED
    BY <1>8, <2>4, <2>6, <2>7, <2>8, <2>9 DEF JournalInv
<1> QED
  BY <1>9, <1>10

(* allocate_block_for: the BAT sector in place, and the BAT in memory. *)
LEMMA PublishJournal ==
  ASSUME Serial, JournalInv, HeaderInv', ActiveIsPicked', errors' = 0, NEW w \in Writers,
         Publish(w) \/ PublishFlush(w) \/ PublishTable(w)
  PROVE  JournalInv'
<1>1. \A x \in Writers : x = w
  BY DEF Serial, OneWriter
<1>2. /\ pc[w] \in {"publish", "publishFlush", "publishTable"}
      /\ phase = "open" /\ phase' = "open"
      /\ UNCHANGED <<hdr, log, header, activeSlot, host, req>>
      /\ pc \in [Writers -> Steps] /\ TypeOK
  BY DEF Publish, PublishFlush, PublishTable, WriteBatSector, Flush, devVars, hdrVars, logVars,
     memVars, JournalInv, HeaderInv, TypeOK, CallsNeedReader
<1>3. /\ pc'[w] \in {"publishFlush", "publishTable", "payload"}
      /\ BlockAt(w)' = BlockAt(w)
  BY <1>2 DEF Publish, PublishFlush, PublishTable, Goto, BlockAt
<1>4. /\ ~At({"headerFlush"}) /\ ~At({"logFlush"})
      /\ ~At({"headerFlush"})' /\ ~At({"logFlush"})'
  BY <1>1, <1>2, <1>3 DEF At
<1>5. logMay = {log} /\ \A s \in Slots : hdrMay[s] = {hdr[s]}
  BY <1>2, <1>4 DEF JournalInv, Settling
<1>6. logMay' = {log} /\ \A s \in Slots : hdrMay'[s] = {hdr[s]}
  BY <1>5 DEF Publish, PublishFlush, PublishTable, WriteBatSector, Flush, devVars, hdrVars, logVars
<1>7. Heads = {header} /\ Heads' = {header}
  BY <1>2, <1>4 DEF Heads
<1>8. (log \in logMay)' /\ RotationOutranks' /\ HeadsRoom' /\ ReplayHolds'
  BY <1>2, <1>4, <1>6, <1>7 DEF JournalInv, RotationOutranks, HeadsRoom, ReplayHolds
<1>9. Applied /\ Applied' /\ \A b \in Blocks : bat[b].state # "spoiled"
  BY <1>2 DEF JournalInv, SpoiledIsCovered, Applied
<1>10. BlockAt(w) \in Blocks
  BY <1>2, BlockAtType
<1>11. SUFFICES Settling' /\ ImageHolds' /\ LogHolds' /\ SpoiledIsCovered' /\ InPlaceHolds'
                /\ LiveRestores'
  BY <1>8 DEF JournalInv
<1>12. CASE Publish(w)
  <2>1. /\ pc[w] = "publish" /\ pc'[w] = "publishFlush" /\ image' = image
        /\ WriteBatSector(image[w]) /\ ~At({"publishFlush"}) /\ At({"publishFlush"})'
    BY <1>1, <1>2, <1>12 DEF Publish, Goto, At
  <2>2. /\ \A b \in Blocks : batMay[b] = {bat[b]}
        /\ Live(header, log) /\ log.image = image[w]
        /\ \A x \in Blocks : image[w][x] =
             IF x = BlockAt(w) THEN PresentEntry(host[w])
             ELSE IF SectorOf(x) = SectorOf(BlockAt(w)) THEN bat[x] ELSE Uncovered
    BY <1>2, <2>1 DEF JournalInv, Settling, ImageHolds, LogHolds
  <2>3. ASSUME NEW b \in Blocks
        PROVE  /\ bat'[b] = IF b = BlockAt(w) THEN PresentEntry(host[w]) ELSE bat[b]
               /\ image[w][b] # Uncovered => bat'[b] = image[w][b]
               /\ bat'[b] \in batMay'[b]
               /\ image[w][b] = Uncovered => batMay'[b] = {bat'[b]}
               /\ image[w][b].state = "absent" => b # BlockAt(w)
               /\ \A e \in batMay'[b] : e = bat[b] \/ e = image[w][b] \/ e = SpoiledEntry
    <3>1. /\ bat'[b] = IF image[w][b] # Uncovered THEN image[w][b] ELSE bat[b]
          /\ batMay'[b] = IF image[w][b] # Uncovered
                          THEN batMay[b] \cup {image[w][b]}
                               \cup (IF "crash" \in Tears THEN {SpoiledEntry} ELSE {})
                          ELSE batMay[b]
      BY <2>1 DEF WriteBatSector
    <3>2. PresentEntry(host[w]) # Uncovered /\ PresentEntry(host[w]).state # "absent"
      BY DEF PresentEntry, Uncovered
    <3> QED
      BY <2>2, <3>1, <3>2
  <2>4. Settling' /\ LogHolds'
    BY <1>1, <1>2, <1>4, <1>6, <2>1, <2>2 DEF Settling, LogHolds
  <2>5. ImageHolds'
    BY <1>1, <1>2, <1>3, <1>10, <2>1, <2>2, <2>3 DEF ImageHolds
  <2>6. SpoiledIsCovered'
    BY <1>9, <2>3 DEF SpoiledIsCovered, PresentEntry
  <2>7. InPlaceHolds'
    <3> SUFFICES ASSUME NEW b \in Blocks, image[w][b].state = "absent", NEW e \in batMay'[b]
                 PROVE  e.state # "present"
      BY <1>2, <2>2, <2>3 DEF InPlaceHolds
    <3>1. image[w][b] # Uncovered /\ b # BlockAt(w)
      BY <2>3 DEF Uncovered
    <3>2. image[w][b] = bat[b]
      BY <2>2, <3>1
    <3> QED
      BY <2>3, <3>2 DEF SpoiledEntry
  <2>8. LiveRestores'
    <3> SUFFICES ASSUME NEW b \in Blocks, log.image[b] # Uncovered PROVE Restores(log, b)'
      BY <1>2, <1>6, <1>7 DEF LiveRestores
    <3>1. log.image[b] = bat'[b] /\ log.image[b].state # "spoiled"
      BY <1>9, <2>2, <2>3 DEF PresentEntry
    <3> QED
      BY <1>2, <3>1 DEF Restores
  <2> QED
    BY <2>4, <2>5, <2>6, <2>7, <2>8
<1>13. CASE PublishFlush(w)
  <2>1. /\ pc[w] = "publishFlush" /\ pc'[w] = "publishTable" /\ image' = image /\ bat' = bat
        /\ batMay' = [b \in Blocks |-> {bat[b]}] /\ ~At({"publishFlush"})'
    BY <1>1, <1>2, <1>13 DEF PublishFlush, Goto, At, Flush
  <2>2. Settling' /\ LogHolds' /\ InPlaceHolds' /\ SpoiledIsCovered'
    BY <1>1, <1>2, <1>4, <1>6, <1>9, <2>1
    DEF Settling, LogHolds, InPlaceHolds, SpoiledIsCovered
  <2>3. ImageHolds'
    BY <1>1, <1>2, <1>3, <2>1 DEF JournalInv, ImageHolds
  <2>4. LiveRestores'
    <3> SUFFICES ASSUME NEW l \in logMay, Live(header, l), NEW b \in Blocks,
                        l.image[b] # Uncovered
                 PROVE  Restores(l, b)'
      BY <1>2, <1>5, <1>6, <1>7 DEF LiveRestores
    <3>1. Restores(l, b)
      BY <1>7 DEF JournalInv, LiveRestores
    <3>2. \A x \in Writers : Owns(x) => Owns(x)' /\ host'[x] = host[x] /\ BlockAt(x)' = BlockAt(x)
      BY <1>1, <1>2, <1>3, <2>1 DEF Owns
    <3> QED
      BY <1>9, <2>1, <3>1, <3>2, RestoresKept
  <2> QED
    BY <2>2, <2>3, <2>4
<1>14. CASE PublishTable(w)
  <2>1. /\ pc[w] = "publishTable" /\ pc'[w] = "payload" /\ UNCHANGED <<bat, batMay>>
        /\ ~At({"publishFlush"})' /\ ~At({"publishFlush"})
    BY <1>1, <1>2, <1>14 DEF PublishTable, Goto, At, devVars, batVars
  <2>2. \A b \in Blocks : batMay[b] = {bat[b]}
    BY <1>2, <2>1 DEF JournalInv, Settling
  <2>3. Settling' /\ LogHolds' /\ InPlaceHolds' /\ SpoiledIsCovered' /\ ImageHolds'
    BY <1>1, <1>2, <1>4, <1>6, <1>9, <2>1, <2>2
    DEF Settling, LogHolds, InPlaceHolds, SpoiledIsCovered, ImageHolds
  <2>4. LiveRestores'
    <3> SUFFICES ASSUME NEW l \in logMay, Live(header, l), NEW b \in Blocks,
                        l.image[b] # Uncovered
                 PROVE  Restores(l, b)'
      BY <1>2, <1>5, <1>6, <1>7 DEF LiveRestores
    <3>1. Restores(l, b)
      BY <1>7 DEF JournalInv, LiveRestores
    <3>2. /\ image[w][BlockAt(w)] = PresentEntry(host[w])
          /\ image[w][BlockAt(w)] # Uncovered => bat[BlockAt(w)] = image[w][BlockAt(w)]
      BY <1>10, <2>1 DEF JournalInv, ImageHolds
    <3>3. bat[BlockAt(w)] = PresentEntry(host[w])
      BY <3>2 DEF PresentEntry, Uncovered
    <3>4. l.image[b] = bat[b]
      <4>1. CASE \E x \in Writers : Owns(x) /\ BlockAt(x) = b /\ l.image[b] = PresentEntry(host[x])
        BY <1>1, <3>3, <4>1
      <4> QED
        BY <1>9, <3>1, <4>1 DEF Restores
    <3> QED
      BY <1>2, <2>1, <3>1, <3>4 DEF Restores
  <2> QED
    BY <2>3, <2>4
<1> QED
  BY <1>12, <1>13, <1>14

-----------------------------------------------------------------------------
(* With no call under way nothing is asked of the journal. *)
LEMMA IdleBefore ==
  ASSUME \A w \in Writers : pc[w] = "idle"
  PROVE  /\ ~At({"headerFlush"}) /\ ~At({"logFlush"}) /\ ~At({"publishFlush"})
         /\ \A w \in Writers : ~Owns(w)
  BY DEF At, Owns

(* Nor after a step that ends every call. *)
LEMMA IdleAfter ==
  ASSUME \A w \in Writers : pc'[w] = "idle"
  PROVE  /\ ~At({"headerFlush"})' /\ ~At({"logFlush"})' /\ ~At({"publishFlush"})'
         /\ ImageHolds' /\ LogHolds'
  BY DEF At, ImageHolds, LogHolds

(* open_inner up to the BAT it may have to repair. *)
LEMMA ReplayJournal ==
  ASSUME Serial, JournalInv, HeaderInv', ActiveIsPicked', errors' = 0,
         OpenStart \/ ReplayGrow \/ ReplayWrite \/ ReplayFlush
  PROVE  JournalInv'
<1>1. /\ \A w \in Writers : pc[w] = "idle" /\ pc'[w] = "idle"
      /\ TypeOK /\ hdr' = hdr /\ log' = log
  <2>1. phase # "open" /\ UNCHANGED callVars /\ hdr' = hdr /\ log' = log
    BY DEF OpenStart, ReplayGrow, ReplayWrite, ReplayFlush, SetLen, WriteBatSector, Flush,
       devVars, hdrVars, logVars
  <2> QED
    BY <2>1 DEF JournalInv, HeaderInv, CallsNeedReader, callVars
<1>2. /\ ~At({"headerFlush"}) /\ ~At({"logFlush"}) /\ ~At({"publishFlush"})
      /\ \A w \in Writers : ~Owns(w)
  BY <1>1, IdleBefore
<1>3. /\ ~At({"headerFlush"})' /\ ~At({"logFlush"})' /\ ~At({"publishFlush"})'
      /\ ImageHolds' /\ LogHolds'
  BY <1>1, IdleAfter
<1>4. /\ phase \in {"closed", "grow", "apply", "applyFlush"}
      /\ phase' \in {"grow", "apply", "applyFlush", "erase", "load"}
      /\ ~Applied
  BY DEF OpenStart, ReplayGrow, ReplayWrite, ReplayFlush, Applied
<1>5. logMay = {log} /\ \A s \in Slots : hdrMay[s] = {hdr[s]}
  BY <1>2, <1>4 DEF JournalInv, Settling
<1>6. logMay' = {log} /\ \A s \in Slots : hdrMay'[s] = {hdr[s]}
  BY <1>5 DEF OpenStart, ReplayGrow, ReplayWrite, ReplayFlush, SetLen, WriteBatSector, Flush,
     devVars, hdrVars, logVars
<1>7. Heads = {header'} /\ Heads' = {header'}
  BY <1>2, <1>3, <1>4 DEF Heads, OpenStart, ReplayGrow, ReplayWrite, ReplayFlush
<1>8. (log \in logMay)' /\ RotationOutranks' /\ HeadsRoom'
  BY <1>1, <1>3, <1>4, <1>6, <1>7 DEF JournalInv, RotationOutranks, HeadsRoom
<1>9. SUFFICES /\ phase' # "applyFlush" => \A b \in Blocks : batMay'[b] = {bat'[b]}
               /\ ReplayHolds' /\ SpoiledIsCovered' /\ InPlaceHolds' /\ LiveRestores'
  BY <1>1, <1>3, <1>4, <1>6, <1>8 DEF JournalInv, Settling
<1>10. ASSUME NEW b \in Blocks, Live(header', log), log.image[b] # Uncovered
       PROVE  /\ log.image[b].state # "spoiled"
              /\ log.image[b].state = "absent" => bat[b].state # "present"
  BY <1>5, <1>7, <1>10 DEF JournalInv, LiveRestores, Restores
<1>11. \A b \in Blocks : bat[b].state = "spoiled" =>
         Live(header', log) /\ log.image[b] # Uncovered
  BY <1>7 DEF JournalInv, SpoiledIsCovered
<1>12. ASSUME \A b \in Blocks : batMay[b] = {bat[b]}, UNCHANGED <<bat, batMay>>,
              phase' \in {"grow", "apply", "load"},
              phase' = "load" => ~Live(header', log),
              phase' # "load" => Live(header', log)
       PROVE  /\ phase' # "applyFlush" => \A b \in Blocks : batMay'[b] = {bat'[b]}
              /\ ReplayHolds' /\ SpoiledIsCovered' /\ InPlaceHolds' /\ LiveRestores'
  <2>1. ReplayHolds' /\ InPlaceHolds'
    BY <1>1, <1>3, <1>12 DEF ReplayHolds, InPlaceHolds, Live
  <2>2. SpoiledIsCovered'
    BY <1>1, <1>7, <1>11, <1>12 DEF SpoiledIsCovered, Applied, Live
  <2>3. LiveRestores'
    BY <1>1, <1>6, <1>7, <1>10, <1>12 DEF LiveRestores, Restores, Applied, Live
  <2> QED
    BY <1>12, <2>1, <2>2, <2>3
<1>13. CASE OpenStart
  <2>1. /\ UNCHANGED <<bat, batMay>>
        /\ phase' = IF Live(header', log) THEN "grow" ELSE "load"
        /\ phase = "closed"
    BY <1>13 DEF OpenStart, Live, devVars, batVars
  <2>2. \A b \in Blocks : batMay[b] = {bat[b]}
    BY <1>2, <2>1 DEF JournalInv, Settling
  <2> QED
    BY <1>12, <2>1, <2>2
<1>14. CASE ReplayGrow
  <2>1. /\ UNCHANGED <<bat, batMay, header>> /\ phase = "grow" /\ phase' = "apply"
    BY <1>14 DEF ReplayGrow, SetLen, devVars, batVars
  <2>2. Live(header, log) /\ \A b \in Blocks : batMay[b] = {bat[b]}
    BY <1>2, <2>1 DEF JournalInv, Settling, ReplayHolds
  <2> QED
    BY <1>12, <2>1, <2>2
<1>15. CASE ReplayWrite
  <2>1. /\ WriteBatSector(log.image) /\ header' = header /\ phase = "apply"
        /\ phase' = "applyFlush"
    BY <1>15 DEF ReplayWrite
  <2>2. Live(header', log) /\ \A b \in Blocks : batMay[b] = {bat[b]}
    BY <1>2, <2>1 DEF JournalInv, Settling, ReplayHolds
  <2>3. ASSUME NEW b \in Blocks
        PROVE  /\ bat'[b] = IF log.image[b] # Uncovered THEN log.image[b] ELSE bat[b]
               /\ bat'[b] \in batMay'[b]
               /\ log.image[b] = Uncovered => batMay'[b] = {bat[b]}
               /\ \A e \in batMay'[b] : e = bat[b] \/ e = log.image[b] \/ e = SpoiledEntry
    BY <2>1, <2>2 DEF WriteBatSector
  <2>4. ReplayHolds'
    BY <1>1, <2>1, <2>2, <2>3 DEF ReplayHolds, Live
  <2>5. SpoiledIsCovered'
    BY <1>10, <1>11, <2>2, <2>3 DEF SpoiledIsCovered
  <2>6. InPlaceHolds'
    <3> SUFFICES ASSUME NEW b \in Blocks, log.image[b].state = "absent", NEW e \in batMay'[b]
                 PROVE  e.state # "present"
      BY <1>1, <2>3 DEF InPlaceHolds
    <3> QED
      BY <1>10, <2>2, <2>3 DEF SpoiledEntry, Uncovered
  <2>7. LiveRestores'
    BY <1>1, <1>6, <1>7, <1>10, <2>1, <2>2, <2>3 DEF LiveRestores, Restores, Applied
  <2> QED
    BY <2>1, <2>4, <2>5, <2>6, <2>7
<1>16. CASE ReplayFlush
  <2>1. /\ bat' = bat /\ batMay' = [b \in Blocks |-> {bat[b]}] /\ header' = header
        /\ phase = "applyFlush" /\ phase' = "erase"
    BY <1>16 DEF ReplayFlush, Flush
  <2>2. /\ Live(header', log)
        /\ \A b \in Blocks : log.image[b] # Uncovered => bat[b] = log.image[b]
    BY <2>1 DEF JournalInv, ReplayHolds
  <2>3. ReplayHolds' /\ InPlaceHolds'
    BY <1>3, <2>1 DEF ReplayHolds, InPlaceHolds
  <2>4. SpoiledIsCovered'
    BY <1>10, <1>11, <2>1, <2>2 DEF SpoiledIsCovered
  <2>5. LiveRestores'
    BY <1>1, <1>6, <1>7, <1>10, <2>1, <2>2 DEF LiveRestores, Restores
  <2> QED
    BY <2>1, <2>3, <2>4, <2>5
<1> QED
  BY <1>13, <1>14, <1>15, <1>16

(* open_inner once the BAT is repaired: the log is erased and the header   *)
(* rotated to one that names none.                                         *)
LEMMA ClearJournal ==
  ASSUME Serial, JournalInv, HeaderInv', ActiveIsPicked', errors' = 0,
         EraseLog \/ EraseFlush \/ ClearHeader \/ ClearFlush \/ LoadBat
  PROVE  JournalInv'
<1>1. /\ \A w \in Writers : pc[w] = "idle" /\ pc'[w] = "idle"
      /\ TypeOK /\ bat' = bat
  <2>1. phase # "open" /\ UNCHANGED callVars /\ bat' = bat
    BY DEF EraseLog, EraseFlush, ClearHeader, ClearFlush, LoadBat, WriteLog, WriteHeader, Flush,
       devVars, batVars
  <2> QED
    BY <2>1 DEF JournalInv, HeaderInv, CallsNeedReader, callVars
<1>2. /\ ~At({"headerFlush"}) /\ ~At({"logFlush"}) /\ ~At({"publishFlush"})
      /\ \A w \in Writers : ~Owns(w)
  BY <1>1, IdleBefore
<1>3. /\ ~At({"headerFlush"})' /\ ~At({"logFlush"})' /\ ~At({"publishFlush"})'
      /\ ImageHolds' /\ LogHolds'
  BY <1>1, IdleAfter
<1>4. /\ phase \in {"erase", "eraseFlush", "clear", "clearFlush", "load"}
      /\ phase' \in {"eraseFlush", "clear", "clearFlush", "load", "open"}
      /\ Applied
  BY DEF EraseLog, EraseFlush, ClearHeader, ClearFlush, LoadBat, Applied
<1>5. \A b \in Blocks : batMay[b] = {bat[b]} /\ bat[b].state # "spoiled"
  BY <1>2, <1>4 DEF JournalInv, Settling, SpoiledIsCovered
<1>6. \A b \in Blocks : batMay'[b] = {bat[b]}
  BY <1>5 DEF EraseLog, EraseFlush, ClearHeader, ClearFlush, LoadBat, WriteLog, WriteHeader,
     Flush, devVars, batVars
<1>7. ReplayHolds' /\ SpoiledIsCovered' /\ InPlaceHolds'
  BY <1>1, <1>3, <1>4, <1>5 DEF ReplayHolds, SpoiledIsCovered, InPlaceHolds
<1>8. header \in Heads /\ header.room
  BY <1>4 DEF Heads, JournalInv, HeadsRoom
<1>9. ASSUME NEW l \in logMay, Live(header, l), NEW b \in Blocks, l.image[b] # Uncovered
      PROVE  Restores(l, b)'
  <2>1. Restores(l, b)
    BY <1>8, <1>9 DEF JournalInv, LiveRestores
  <2> QED
    BY <1>1, <1>2, <1>4, <2>1, RestoresKept
<1>10. ClearedHeader.room = header.room /\ ClearedHeader.guid = NoGuid
  BY <1>1, NewHeaders
<1>11. /\ phase # "eraseFlush" => logMay = {log}
       /\ phase # "clearFlush" => \A s \in Slots : hdrMay[s] = {hdr[s]}
       /\ log \in logMay
  BY <1>2, <1>4 DEF JournalInv, Settling
<1>12. CASE EraseLog \/ EraseFlush \/ LoadBat
  <2>1. /\ UNCHANGED <<header, activeSlot, hdr>> /\ phase' # "clearFlush" /\ phase # "clearFlush"
        /\ hdrMay' = hdrMay \/ hdrMay' = [s \in Slots |-> {hdr[s]}]
    BY <1>12 DEF EraseLog, EraseFlush, LoadBat, WriteLog, Flush, devVars, hdrVars
  <2>2. phase' # "eraseFlush" => logMay' = {log'}
    BY <1>11, <1>12 DEF EraseLog, EraseFlush, LoadBat, WriteLog, Flush, devVars, logVars
  <2>3. log' \in logMay'
    BY <1>11, <1>12 DEF EraseLog, EraseFlush, LoadBat, WriteLog, Flush, devVars, logVars
  <2>4. Heads' = {header}
    BY <1>3, <1>4, <2>1 DEF Heads
  <2>5. Settling' /\ RotationOutranks' /\ HeadsRoom'
    BY <1>1, <1>3, <1>4, <1>6, <1>8, <1>11, <2>1, <2>2, <2>3, <2>4
    DEF Settling, RotationOutranks, HeadsRoom
  <2>6. logMay' \subseteq logMay \cup {NoEntry}
    BY <1>11, <1>12 DEF EraseLog, EraseFlush, LoadBat, WriteLog, Flush, devVars, logVars
  <2>7. LiveRestores'
    BY <1>9, <2>4, <2>6 DEF LiveRestores, Live, NoEntry
  <2> QED
    BY <1>3, <1>7, <2>3, <2>5, <2>7 DEF JournalInv
<1>13. CASE ClearHeader
  <2>1. /\ UNCHANGED <<header, activeSlot, log, logMay>> /\ phase = "clear" /\ phase' = "clearFlush"
        /\ hdrMay' = [hdrMay EXCEPT ![Other(activeSlot)] = @ \cup {ClearedHeader, TornHeader}]
    BY <1>13 DEF ClearHeader, WriteHeader, logVars
  <2>2. ClearedHeader' = ClearedHeader /\ Other(activeSlot)' = Other(activeSlot)
    BY <2>1 DEF ClearedHeader, Other
  <2>3. Settling' /\ (log \in logMay)'
    BY <1>1, <1>3, <1>6, <1>11, <2>1 DEF Settling
  <2>4. RotationOutranks'
    <3>1. /\ hdr \in [Slots -> Headers] /\ hdrMay \in [Slots -> SUBSET Headers]
          /\ Other(activeSlot) \in Slots
      BY <1>1, OtherSlot DEF TypeOK, FileTypeOK
    <3>2. hdrMay[Other(activeSlot)] = {hdr[Other(activeSlot)]} /\ PickSlot(hdr) = activeSlot
          /\ hdr[activeSlot] = header /\ header.ok
      BY <1>2, <1>11, <2>1, <3>1 DEF JournalInv, ActiveIsPicked, At, HeaderInv, HeaderInPlace
    <3>3. Outranked(hdr[Other(activeSlot)])
      BY <1>1, <3>1, <3>2, OutrankedIsNotPicked
    <3>4. Outranked(TornHeader)
      BY DEF Outranked, TornHeader
    <3>5. hdrMay'[Other(activeSlot)] = {hdr[Other(activeSlot)], ClearedHeader, TornHeader}
      BY <2>1, <3>1, <3>2
    <3>6. \A x \in hdrMay'[Other(activeSlot)] : x = ClearedHeader \/ Outranked(x)'
      BY <2>1, <3>3, <3>4, <3>5 DEF Outranked
    <3> QED
      BY <1>3, <2>1, <2>2, <3>6 DEF RotationOutranks
  <2>5. Heads' = {header, ClearedHeader}
    BY <1>3, <2>1, <2>2 DEF Heads
  <2>6. HeadsRoom'
    BY <1>8, <1>10, <2>5 DEF HeadsRoom
  <2>7. LiveRestores'
    BY <1>9, <1>10, <2>1, <2>5 DEF LiveRestores, Live
  <2> QED
    BY <1>3, <1>7, <2>3, <2>4, <2>6, <2>7 DEF JournalInv
<1>14. CASE ClearFlush
  <2>1. /\ header' = ClearedHeader /\ phase' = "load" /\ hdr' = hdr /\ log' = log
        /\ hdrMay' = [s \in Slots |-> {hdr[s]}] /\ logMay' = {log}
    BY <1>14 DEF ClearFlush, Flush
  <2>2. Heads' = {ClearedHeader}
    BY <1>3, <2>1 DEF Heads
  <2>3. Settling' /\ (log \in logMay)' /\ RotationOutranks' /\ HeadsRoom'
    BY <1>1, <1>3, <1>6, <1>8, <1>10, <2>1, <2>2 DEF Settling, RotationOutranks, HeadsRoom
  <2>4. LiveRestores'
    BY <1>10, <2>2 DEF LiveRestores, Live
  <2> QED
    BY <1>3, <1>7, <2>3, <2>4 DEF JournalInv
<1> QED
  BY <1>12, <1>13, <1>14

(* What the BAT reads is one of the things a crash may leave. *)
LEMMA BatViewed ==
  ASSUME JournalInv, NEW b \in Blocks
  PROVE  bat[b] \in batMay[b]
  BY DEF JournalInv, Settling, InPlaceHolds

(* A crash leaves in each entry of the BAT something it may hold. *)
LEMMA BatSurvivor ==
  ASSUME JournalInv, NEW f \in Survivors(bat, batMay), NEW b \in Blocks
  PROVE  f[b] \in batMay[b]
<1>1. DOMAIN bat = Blocks
  BY DEF JournalInv, HeaderInv, TypeOK, FileTypeOK
<1> QED
  BY <1>1, SurvivorIsAdmitted, BatViewed

(* The reader is dropped, or power is lost. *)
LEMMA EndJournal ==
  ASSUME Serial, JournalInv, HeaderInv', ActiveIsPicked', errors' = 0, Close \/ Crash
  PROVE  JournalInv'
<1>1. /\ \A w \in Writers : pc'[w] = "idle"
      /\ phase # "closed" /\ phase' = "closed" /\ TypeOK
  BY DEF Close, Crash, Forget, JournalInv, HeaderInv
<1>2. /\ ~At({"headerFlush"})' /\ ~At({"logFlush"})' /\ ~At({"publishFlush"})'
      /\ ImageHolds' /\ LogHolds'
  BY <1>1, IdleAfter
<1>3. /\ hdr'[PickSlot(hdr')] \in Heads
      /\ \A s \in Slots : hdrMay'[s] = {hdr'[s]}
      /\ log' \in logMay /\ logMay' = {log'}
      /\ \A b \in Blocks : bat'[b] \in batMay[b] /\ batMay'[b] = {bat'[b]}
  <2>1. CASE Close
    <3>1. /\ phase = "open" /\ \A w \in Writers : pc[w] = "idle"
          /\ UNCHANGED <<hdr, hdrMay, log, logMay, bat, batMay>>
      BY <2>1 DEF Close, devVars, hdrVars, logVars, batVars
    <3>2. ~At({"headerFlush"}) /\ ~At({"logFlush"}) /\ ~At({"publishFlush"})
      BY <3>1, IdleBefore
    <3>3. /\ \A s \in Slots : hdrMay[s] = {hdr[s]}
          /\ logMay = {log}
          /\ \A b \in Blocks : batMay[b] = {bat[b]}
      BY <3>1, <3>2 DEF JournalInv, Settling
    <3>4. hdr[PickSlot(hdr)] = header /\ header \in Heads
      BY <3>1, <3>2 DEF JournalInv, ActiveIsPicked, At, HeaderInv, HeaderInPlace, Heads
    <3> QED
      BY <3>1, <3>3, <3>4
  <2>2. CASE Crash
    <3>1. /\ hdr' \in Survivors(hdr, hdrMay) /\ hdrMay' = [s \in Slots |-> {hdr'[s]}]
          /\ log' \in logMay /\ logMay' = {log'}
          /\ bat' \in Survivors(bat, batMay) /\ batMay' = [b \in Blocks |-> {bat'[b]}]
      BY <2>2 DEF Crash, LosePower
    <3>2. hdr'[PickSlot(hdr')] \in Heads
      BY <3>1, HeadsCover
    <3>3. \A b \in Blocks : bat'[b] \in batMay[b]
      BY <3>1, BatSurvivor
    <3> QED
      BY <3>1, <3>2, <3>3
  <2> QED
    BY <2>1, <2>2
<1>4. Heads' = {hdr'[PickSlot(hdr')]}
  BY <1>1 DEF Heads
<1>5. Settling' /\ (log \in logMay)' /\ RotationOutranks' /\ HeadsRoom' /\ ReplayHolds'
      /\ InPlaceHolds'
  BY <1>1, <1>2, <1>3, <1>4
  DEF JournalInv, Settling, RotationOutranks, HeadsRoom, ReplayHolds, InPlaceHolds
<1>6. ASSUME At({"publishFlush"}) \/ phase = "applyFlush"
      PROVE  /\ Heads = {header} /\ logMay = {log} /\ Live(header, log)
  <2>1. ~At({"headerFlush"}) /\ ~At({"logFlush"}) /\ phase # "clearFlush" /\ phase # "eraseFlush"
    <3>1. CASE phase = "applyFlush"
      BY <3>1, IdleBefore DEF JournalInv, HeaderInv, CallsNeedReader
    <3>2. CASE At({"publishFlush"})
      BY <3>2 DEF At, Serial, OneWriter, JournalInv, HeaderInv, CallsNeedReader
    <3> QED
      BY <1>6, <3>1, <3>2
  <2>2. Live(header, log)
    BY <1>6 DEF JournalInv, LogHolds, ReplayHolds, At
  <2> QED
    BY <1>1, <2>1, <2>2 DEF Heads, JournalInv, Settling
<1>7. SpoiledIsCovered'
  <2> SUFFICES ASSUME NEW b \in Blocks, bat'[b].state = "spoiled"
               PROVE  Live(hdr'[PickSlot(hdr')], log') /\ log'.image[b] # Uncovered
    BY <1>1, <1>4 DEF SpoiledIsCovered, Applied, Live
  <2>1. CASE At({"publishFlush"}) \/ phase = "applyFlush"
    <3>1. log.image[b] # Uncovered
      BY <1>3, <2>1 DEF JournalInv, InPlaceHolds, SpoiledIsCovered, Heads
    <3> QED
      BY <1>3, <1>6, <2>1, <3>1
  <2>2. CASE ~(At({"publishFlush"}) \/ phase = "applyFlush")
    <3>1. bat'[b] = bat[b]
      BY <1>3, <2>2 DEF JournalInv, Settling
    <3>2. ~Applied /\ \A p \in Heads : Live(p, log) /\ log.image[b] # Uncovered
      BY <3>1 DEF JournalInv, SpoiledIsCovered
    <3>3. ~At({"logFlush"}) /\ phase # "eraseFlush"
      BY <3>2, IdleBefore DEF Applied, JournalInv, HeaderInv, CallsNeedReader
    <3>4. logMay = {log}
      BY <3>3 DEF JournalInv, Settling
    <3> QED
      BY <1>3, <3>2, <3>4
  <2> QED
    BY <2>1, <2>2
<1>8. LiveRestores'
  <2> SUFFICES ASSUME NEW l \in logMay, l = log', NEW p \in Heads, Live(p, l), NEW b \in Blocks,
                      l.image[b] # Uncovered
               PROVE  Restores(l, b)'
    BY <1>3, <1>4 DEF LiveRestores
  <2>1. Restores(l, b)
    BY DEF JournalInv, LiveRestores
  <2>2. l.image[b].state = "absent" => bat'[b].state # "present"
    <3>1. CASE At({"publishFlush"}) \/ phase = "applyFlush"
      BY <1>3, <1>6, <3>1 DEF JournalInv, InPlaceHolds
    <3>2. CASE ~(At({"publishFlush"}) \/ phase = "applyFlush")
      <4>1. bat'[b] = bat[b]
        BY <1>3, <3>2 DEF JournalInv, Settling
      <4> QED
        BY <2>1, <4>1 DEF Restores
    <3> QED
      BY <3>1, <3>2
  <2> QED
    BY <1>1, <2>1, <2>2 DEF Restores, Applied
<1> QED
  BY <1>2, <1>5, <1>7, <1>8 DEF JournalInv

-----------------------------------------------------------------------------
(* An image before its first open. *)
LEMMA JournalInit ==
  ASSUME ImageReadable, ImageJournaled, Init
  PROVE  JournalInv
<1>1. PICK st \in Starts : InitImage(st)
  BY DEF Init
<1>2. JournaledStart(st)
  BY DEF ImageJournaled
<1>3. /\ hdr = st.hdr /\ hdrMay = [s \in Slots |-> {st.hdr[s]}]
      /\ log = st.log /\ logMay = {st.log}
      /\ bat = st.bat /\ batMay = [b \in Blocks |-> {st.bat[b]}]
  BY <1>1 DEF InitImage
<1>4. phase = "closed" /\ errors = 0 /\ \A w \in Writers : pc[w] = "idle"
  BY DEF Init
<1>5. HeaderInv /\ ActiveIsPicked
  BY <1>4, HeaderInit DEF ActiveIsPicked
<1>6. ~At({"headerFlush"}) /\ ~At({"logFlush"}) /\ ~At({"publishFlush"})
  BY <1>4, IdleBefore
<1>7. Heads = {st.hdr[PickSlot(st.hdr)]}
  BY <1>3, <1>4 DEF Heads
<1>8. Live(st.hdr[PickSlot(st.hdr)], st.log) <=> Pending(st)
  BY DEF Live, Pending
<1>9. Settling /\ RotationOutranks /\ log \in logMay /\ HeadsRoom /\ ImageHolds /\ LogHolds
      /\ ReplayHolds /\ InPlaceHolds
  BY <1>2, <1>3, <1>4, <1>6, <1>7
  DEF Settling, RotationOutranks, HeadsRoom, ImageHolds, LogHolds, ReplayHolds, InPlaceHolds,
      JournaledStart
<1>10. SpoiledIsCovered
  BY <1>2, <1>3, <1>4, <1>7, <1>8 DEF SpoiledIsCovered, Applied, JournaledStart
<1>11. LiveRestores
  BY <1>2, <1>3, <1>4, <1>7, <1>8 DEF LiveRestores, Restores, Applied, JournaledStart
<1> QED
  BY <1>4, <1>5, <1>9, <1>10, <1>11 DEF JournalInv

(* A step that changes nothing. *)
LEMMA JournalStutter ==
  ASSUME JournalInv, HeaderInv', ActiveIsPicked', errors' = 0, UNCHANGED vars
  PROVE  JournalInv'
<1>1. UNCHANGED <<hdr, hdrMay, log, logMay, bat, batMay, phase, header, activeSlot, devSize,
                  pc, req, host, image>>
  BY DEF vars, devVars, hdrVars, logVars, batVars, memVars, callVars
<1>2. /\ At({"headerFlush"})' = At({"headerFlush"}) /\ At({"logFlush"})' = At({"logFlush"})
      /\ At({"publishFlush"})' = At({"publishFlush"})
      /\ JournalHeader' = JournalHeader /\ ClearedHeader' = ClearedHeader
      /\ Other(activeSlot)' = Other(activeSlot)
      /\ \A w \in Writers : JournalEntry(w)' = JournalEntry(w) /\ BlockAt(w)' = BlockAt(w)
  BY <1>1 DEF At, JournalHeader, ClearedHeader, JournalEntry, Other, BlockAt
<1>3. Heads' = Heads /\ (Applied' <=> Applied) /\ \A w \in Writers : Owns(w)' <=> Owns(w)
  BY <1>1, <1>2 DEF Heads, Applied, Owns
<1>4. Settling' /\ (log \in logMay)' /\ RotationOutranks' /\ HeadsRoom'
  BY <1>1, <1>2, <1>3 DEF JournalInv, Settling, RotationOutranks, Outranked, HeadsRoom
<1>5. ImageHolds' /\ LogHolds' /\ ReplayHolds'
  BY <1>1, <1>2 DEF JournalInv, ImageHolds, LogHolds, ReplayHolds, Live
<1>6. SpoiledIsCovered' /\ InPlaceHolds'
  BY <1>1, <1>2, <1>3 DEF JournalInv, SpoiledIsCovered, InPlaceHolds, Live
<1>7. LiveRestores'
  BY <1>1, <1>2, <1>3, RestoresKept DEF JournalInv, LiveRestores
<1> QED
  BY <1>4, <1>5, <1>6, <1>7 DEF JournalInv

(* Every serial step keeps the journal. *)
LEMMA JournalPreserved ==
  ASSUME Serial, JournalInv, SeqBelowLimit, [Next]_vars
  PROVE  JournalInv'
<1>1. HeaderInv' /\ ActiveIsPicked' /\ errors' = 0 /\ errors = 0
  BY SerialHeaders DEF JournalInv
<1>2. /\ \A w \in Writers : ~DeviceError(w)
      /\ ~OpenError /\ ~Kill
  BY <1>1, SerialExcludes
<1>3. ASSUME NEW w \in Writers, BeginWrite(w) \/ WriteStep(w) PROVE JournalInv'
  BY <1>1, <1>3, CallsJournal, ReadSectorJournal, LogJournal, RotateJournal, PublishJournal
  DEF WriteStep, AllocateStep, JournalStep
<1>4. CASE OpenStart \/ OpenStep
  BY <1>1, <1>4, ReplayJournal, ClearJournal DEF OpenStep
<1>5. CASE Close \/ Crash
  BY <1>1, <1>5, EndJournal
<1>6. CASE UNCHANGED vars
  BY <1>1, <1>6, JournalStutter
<1> QED
  BY <1>2, <1>3, <1>4, <1>5, <1>6 DEF Next

(* The inductive invariant of the journal. *)
THEOREM JournalInvariant ==
  ASSUME ImageReadable, ImageJournaled, Serial
  PROVE  Spec /\ []SeqBelowLimit => []JournalInv
  BY JournalInit, JournalPreserved, PTL DEF Spec

(* Wherever power is lost while allocate_block_for or a replay rewrites a  *)
(* BAT sector, the header the next open picks names a log entry that holds *)
(* every entry of the sector that may be torn or half old: the log and the *)
(* header are on stable storage before the sector is touched.              *)
THEOREM JournalCoversAlways ==
  ASSUME ImageReadable, ImageJournaled, Serial
  PROVE  Spec /\ []SeqBelowLimit => []JournalCovers
<1>1. JournalInv => JournalCovers
  <2> SUFFICES ASSUME JournalInv, NEW b \in Blocks, Unsettled(b),
                      NEW h \in Survivors(hdr, hdrMay), NEW l \in logMay
               PROVE  /\ l.ok /\ l.guid = h[PickSlot(h)].guid /\ l.guid # NoGuid
                      /\ l.image[b].state \notin {"uncovered", "spoiled"}
    BY DEF JournalCovers
  <2> DEFINE p == h[PickSlot(h)]
  <2>1. p \in Heads
    BY HeadsCover
  <2>2. Live(p, l) /\ l.image[b] # Uncovered
    <3>1. CASE At({"publishFlush"}) \/ phase = "applyFlush"
      <4>1. /\ phase \notin {"clearFlush", "eraseFlush", "closed"}
            /\ ~At({"headerFlush"}) /\ ~At({"logFlush"})
        <5>1. CASE phase = "applyFlush"
          BY <5>1, IdleBefore DEF JournalInv, HeaderInv, CallsNeedReader
        <5>2. CASE At({"publishFlush"})
          BY <5>2 DEF At, Serial, OneWriter, JournalInv, HeaderInv, CallsNeedReader
        <5> QED
          BY <3>1, <5>1, <5>2
      <4>2. Heads = {header} /\ logMay = {log} /\ Live(header, log)
        BY <3>1, <4>1 DEF Heads, JournalInv, Settling, LogHolds, ReplayHolds, At
      <4>3. log.image[b] # Uncovered
        <5>1. SUFFICES ASSUME log.image[b] = Uncovered PROVE FALSE
          OBVIOUS
        <5>2. bat[b].state = "spoiled"
          BY <3>1, <5>1 DEF JournalInv, InPlaceHolds, Unsettled
        <5> QED
          BY <4>2, <5>1, <5>2 DEF JournalInv, SpoiledIsCovered
      <4> QED
        BY <2>1, <4>2, <4>3
    <3>2. CASE ~(At({"publishFlush"}) \/ phase = "applyFlush")
      <4>1. bat[b].state = "spoiled"
        BY <3>2 DEF JournalInv, Settling, Unsettled
      <4>2. ~Applied /\ \A q \in Heads : Live(q, log) /\ log.image[b] # Uncovered
        BY <4>1 DEF JournalInv, SpoiledIsCovered
      <4>3. ~At({"logFlush"}) /\ phase # "eraseFlush"
        BY <4>2, IdleBefore DEF Applied, JournalInv, HeaderInv, CallsNeedReader
      <4>4. logMay = {log}
        BY <4>3 DEF JournalInv, Settling
      <4> QED
        BY <2>1, <4>2, <4>4
    <3> QED
      BY <3>1, <3>2
  <2>3. l.image[b].state # "spoiled"
    BY <2>1, <2>2 DEF JournalInv, LiveRestores, Restores
  <2>4. l.image[b] \in Entries
    BY <2>2 DEF JournalInv, HeaderInv, TypeOK, FileTypeOK, LogEntries, Images
  <2> QED
    BY <2>2, <2>3, <2>4 DEF Live, Entries
<1> QED
  BY <1>1, JournalInvariant, PTL

(* No write of a BAT sector and no replay of a stale one forgets an        *)
(* allocation: an entry present in every crash outcome is not absent in    *)
(* one after the next step.                                                *)
THEOREM AllocationsAreKeptAlways ==
  ASSUME ImageReadable, ImageJournaled, Serial
  PROVE  Spec /\ []SeqBelowLimit => AllocationsAreKept
<1> DEFINE Kept == \A b \in Blocks : (\A e \in batMay[b] : e.state = "present") =>
                     \A e \in batMay'[b] : e.state # "absent"
<1>1. ASSUME JournalInv, [Next]_vars PROVE [Kept]_vars
  <2>1. \A b \in Blocks : bat[b] \in batMay[b]
    BY <1>1, BatViewed
  <2>2. /\ \A w \in Writers : ~DeviceError(w)
        /\ ~OpenError /\ ~Kill
    BY <1>1, SerialExcludes DEF JournalInv
  <2>3. ASSUME Held PROVE Kept
    BY <2>1, <2>3 DEF Held
  <2>4. ASSUME NEW i, WriteBatSector(i), \A b \in Blocks : batMay[b] = {bat[b]},
               \A b \in Blocks : i[b].state = "absent" => bat[b].state # "present"
        PROVE  Kept
    <3> SUFFICES ASSUME NEW b \in Blocks, \A e \in batMay[b] : e.state = "present",
                        NEW e \in batMay'[b]
                 PROVE  e.state # "absent"
      OBVIOUS
    <3>1. e \in batMay[b] \/ e = i[b] \/ e = SpoiledEntry
      BY <2>4 DEF WriteBatSector
    <3> QED
      BY <2>1, <2>4, <3>1 DEF SpoiledEntry
  <2>5. ASSUME LosePower PROVE Kept
    <3>1. \A b \in Blocks : bat'[b] \in batMay[b] /\ batMay'[b] = {bat'[b]}
      BY <1>1, <2>5, BatSurvivor DEF LosePower
    <3> QED
      BY <3>1
  <2>6. ASSUME UNCHANGED batVars PROVE Kept
    BY <2>6 DEF batVars
  <2>7. ASSUME NEW w \in Writers, BeginWrite(w) \/ WriteStep(w) PROVE Kept
    <3>1. CASE Publish(w)
      <4>1. /\ pc[w] = "publish" /\ WriteBatSector(image[w]) /\ phase = "open"
        BY <1>1, <3>1 DEF Publish, JournalInv, HeaderInv, CallsNeedReader
      <4>2. /\ \A b \in Blocks : batMay[b] = {bat[b]}
            /\ \A x \in Blocks : image[w][x] =
                 IF x = BlockAt(w) THEN PresentEntry(host[w])
                 ELSE IF SectorOf(x) = SectorOf(BlockAt(w)) THEN bat[x] ELSE Uncovered
        BY <1>1, <4>1 DEF JournalInv, Settling, ImageHolds, Serial, OneWriter, At
      <4>3. \A b \in Blocks : image[w][b].state = "absent" => bat[b].state # "present"
        BY <4>2 DEF PresentEntry, Uncovered
      <4> QED
        BY <2>4, <4>1, <4>2, <4>3
    <3>2. CASE JournalLog(w) \/ JournalHeaderWrite(w)
      <4>1. UNCHANGED batVars
        BY <3>2 DEF JournalLog, JournalHeaderWrite, WriteLog, WriteHeader, devVars
      <4> QED
        BY <2>6, <4>1
    <3>3. CASE ~Publish(w) /\ ~JournalLog(w) /\ ~JournalHeaderWrite(w)
      <4>1. Held
        BY <2>7, <3>3, DeviceHolds
        DEF WriteStep, AllocateStep, JournalStep, BeginWrite, Lookup, Allocate, ZeroInit,
          ZeroFlush, ReadSector, JournalLogFlush, JournalHeaderFlush, PublishFlush,
          PublishTable, WritePayload, Acknowledge
      <4> QED
        BY <2>3, <4>1
    <3> QED
      BY <3>1, <3>2, <3>3
  <2>8. ASSUME OpenStart \/ OpenStep PROVE Kept
    <3>1. CASE ReplayWrite
      <4>1. phase = "apply" /\ WriteBatSector(log.image) /\ \A w \in Writers : pc[w] = "idle"
        BY <1>1, <3>1 DEF ReplayWrite, JournalInv, HeaderInv, CallsNeedReader
      <4>2. ~At({"publishFlush"}) /\ ~At({"headerFlush"})
        BY <4>1, IdleBefore
      <4>3. (\A b \in Blocks : batMay[b] = {bat[b]}) /\ Live(header, log) /\ Heads = {header}
        BY <1>1, <4>1, <4>2 DEF JournalInv, Settling, ReplayHolds, Heads
      <4>4. \A b \in Blocks : log.image[b].state = "absent" => bat[b].state # "present"
        BY <1>1, <4>3 DEF JournalInv, LiveRestores, Restores, Uncovered
      <4> QED
        BY <2>4, <4>1, <4>3, <4>4
    <3>2. CASE EraseLog \/ ClearHeader
      <4>1. UNCHANGED batVars
        BY <3>2 DEF EraseLog, ClearHeader, WriteLog, WriteHeader
      <4> QED
        BY <2>6, <4>1
    <3>3. CASE ~ReplayWrite /\ ~EraseLog /\ ~ClearHeader
      <4>1. Held
        BY <2>8, <3>3, DeviceHolds
        DEF OpenStep, OpenStart, ReplayGrow, ReplayFlush, EraseFlush, ClearFlush, LoadBat
      <4> QED
        BY <2>3, <4>1
    <3> QED
      BY <3>1, <3>2, <3>3
  <2>9. ASSUME Close \/ Crash PROVE Kept
    BY <2>5, <2>6, <2>9 DEF Close, Crash, devVars
  <2>10. ASSUME UNCHANGED vars PROVE [Kept]_vars
    BY <2>10
  <2> HIDE DEF Kept
  <2> QED
    BY <1>1, <2>2, <2>7, <2>8, <2>9, <2>10 DEF Next
<1> QED
  BY <1>1, JournalInvariant, PTL DEF Spec, AllocationsAreKept
=============================================================================

---------------------------- MODULE MCVhdxImage -----------------------------
(***************************************************************************)
(* Small images for TLC to check VhdxImage on.  A block is two cells,      *)
(* one in `threads`.  Cells 0 and 1 of the file, or 0 alone, stand for its *)
(* header section, log and BAT.                                            *)
(***************************************************************************)
EXTENDS VhdxImage, TLC

(* Number 1 is the current header; the other slot holds number 0 before it *)
(* or nothing readable.                                                    *)
Header(n, guid, room) == [ok |-> TRUE, seq |-> n, guid |-> guid, room |-> room]
SlotsWith(s, current, other) == [x \in Slots |-> IF x = s THEN current ELSE other]
AnySlots(guid, room) ==
  {SlotsWith(s, Header(1, guid, room), other) :
     s \in Slots, other \in {TornHeader, Header(0, NoGuid, room)}}

NewImage(n, entries, slots) == [len |-> n, bat |-> entries, hdr |-> slots, log |-> NoEntry]

(* No block is allocated. *)
NonePresent == [b \in Blocks |-> AbsentEntry]

(* Block 0 is present at cells 2..3; cell 4 makes the tail unaligned, so   *)
(* the first allocation skips to cell 6.                                   *)
OnePresent == [b \in Blocks |-> IF b = 0 THEN PresentEntry(2) ELSE AbsentEntry]

(* Another implementation crashed in the middle of an allocation: the      *)
(* entry in its log puts block 1 past the current end of the file, and the *)
(* sector it covers was half written.  The last block's entry names bytes  *)
(* past the end the file will have: the image has lost its tail.           *)
ForeignGuid == [lead |-> TRUE, mix |-> {0}]
ForeignLog ==
  [ok |-> TRUE, guid |-> ForeignGuid, seq |-> 1, last |-> 8,
   image |-> [b \in Blocks |-> IF b = 0 THEN PresentEntry(2)
                               ELSE IF b = 1 THEN PresentEntry(6) ELSE Uncovered]]
ForeignImage(slots) ==
  [len |-> 5, hdr |-> slots, log |-> ForeignLog,
   bat |-> [OnePresent EXCEPT ![1] = SpoiledEntry, ![NBlocks - 1] = PresentEntry(8)]]

(* No usable log, and a last block that is PartiallyPresent or Reserved.   *)
UnloggedImage ==
  NewImage(1, [NonePresent EXCEPT ![NBlocks - 1] = [state |-> "refused", off |-> 0]],
           SlotsWith(2, Header(1, NoGuid, FALSE), Header(0, NoGuid, FALSE)))

EmptyStart == {NewImage(1, NonePresent, SlotsWith(1, Header(1, NoGuid, TRUE), TornHeader))}
CleanStart == {NewImage(5, OnePresent, h) : h \in AnySlots(NoGuid, TRUE)}
SerialStarts == CleanStart \cup {ForeignImage(h) : h \in AnySlots(ForeignGuid, TRUE)}
ThreadStarts == EmptyStart \cup {UnloggedImage}

(* One cell of the present block, two cells across blocks 0 and 1, a cell  *)
(* of block 1, the whole of block 2.                                       *)
SerialRequests == {<<0, 0>>, <<1, 2>>, <<3, 3>>, <<4, 5>>}

(* Whole blocks: two calls in flight are never on one block. *)
BlockRequests == {<<BlockSize * b, BlockSize * (b + 1) - 1>> : b \in Blocks}

(* And the whole disk, which is written by one call at a time. *)
ThreadRequests == BlockRequests \cup {<<0, NBlocks * BlockSize - 1>>}

(* Each half of block 0, and a half of block 1. *)
ContendedRequests == {<<0, 0>>, <<1, 1>>, <<2, 2>>}

(* The two halves of one block that has yet to be allocated. *)
SharedBlockRequests == {<<2, 2>>, <<3, 3>>}

(* The writers run the same code. *)
WriterSymmetry == Permutations(Writers)
=============================================================================

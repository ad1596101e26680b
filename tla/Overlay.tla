------------------------------- MODULE Overlay -------------------------------
(***************************************************************************)
(* The copy-on-write device of src/src/cli/vhdx/overlay.rs, on which the   *)
(* read-only verbs let the library replay a log: what is written is kept   *)
(* in memory, in whole pages, over a base file that is only read.          *)
(*                                                                         *)
(* Each call is one step: read_at and write_at hold the lock of the pages  *)
(* throughout, and the length, checked before, only grows.                 *)
(***************************************************************************)
EXTENDS Integers, Sequences

CONSTANTS
  Bytes, Zero,
  PAGE,         \* bytes per page
  MaxPages,     \* bound: the device holds no more pages
  Buffers,      \* what callers write
  Bases         \* the files there may be under the device

ASSUME OverlayAssumption ==
  /\ Zero \in Bytes
  /\ PAGE \in Nat \ {0}
  /\ MaxPages \in Nat
  /\ Buffers \subseteq Seq(Bytes)
  /\ Bases \subseteq Seq(Bytes)
  /\ \A b \in Bases : Len(b) <= PAGE * MaxPages

VARIABLES
  base, baseLen,   \* Overlay.base and base_len
  len,             \* Overlay.len
  pages,           \* Overlay.pages: by index, the page or NoPage
  written,         \* Overlay.written
  call             \* the last call that returned, and what it returned

vars == <<base, baseLen, len, pages, written, call>>

Capacity == PAGE * MaxPages
Addresses == 0 .. Capacity - 1
Indexes == 0 .. MaxPages - 1
NoPage == [at \in {} |-> Zero]
Page == [0 .. PAGE - 1 -> Bytes]

Returns(op, off, n, buf, result) ==
  call' = [op |-> op, off |-> off, n |-> n, buf |-> buf, result |-> result]

-----------------------------------------------------------------------------
(* read_base: zeros past the end of the base. *)
ReadBase(a) == IF a < baseLen THEN base[a + 1] ELSE Zero

BoundLoose(off, n) == off < len
Bound(off, n) == off + n <= len

(* pieces: the page an address is in, and where in the page. *)
IndexOf(a) == a \div PAGE
InPage(a) == a % PAGE
AddressOf(index, at) == index * PAGE + at
Touched(off, n) == {index \in Indexes : \E at \in 0 .. PAGE - 1 :
                                           AddressOf(index, at) \in off .. off + n - 1}

(* What read_at finds at an address: the page, or else the base. *)
ByteAt(a) ==
  IF pages[IndexOf(a)] = NoPage THEN ReadBase(a) ELSE pages[IndexOf(a)][InPage(a)]

(* The pages once the first k bytes of buf are written at off.  A page     *)
(* that was not there is filled from the base first.                       *)
SplicedZeroed(off, buf, k) ==
  [index \in Indexes |->
     IF index \notin Touched(off, k) THEN pages[index]
     ELSE [at \in 0 .. PAGE - 1 |->
             LET a == AddressOf(index, at)
             IN  IF a \in off .. off + k - 1 THEN buf[a - off + 1]
                 ELSE IF pages[index] = NoPage THEN Zero ELSE pages[index][at]]]
Spliced(off, buf, k) ==
  [index \in Indexes |->
     IF index \notin Touched(off, k) THEN pages[index]
     ELSE [at \in 0 .. PAGE - 1 |->
             LET a == AddressOf(index, at)
             IN  IF a \in off .. off + k - 1 THEN buf[a - off + 1]
                 ELSE IF pages[index] = NoPage THEN ReadBase(a) ELSE pages[index][at]]]

-----------------------------------------------------------------------------
WriteAt(off, buf) ==
  /\ Bound(off, Len(buf))
  /\ pages' = Spliced(off, buf, Len(buf))
  /\ written' = TRUE
  /\ Returns("write", off, Len(buf), buf, << >>)
  /\ UNCHANGED <<base, baseLen, len>>

(* The base cannot be read where a page is to be filled from it: the       *)
(* pieces before that page are written, and `written` is not set.          *)
WriteAtFails(off, buf) ==
  /\ Bound(off, Len(buf))
  /\ \E k \in 0 .. Len(buf) - 1 :
       /\ k = 0 \/ InPage(off + k) = 0
       /\ pages[IndexOf(off + k)] = NoPage
       /\ AddressOf(IndexOf(off + k), 0) < baseLen
       /\ pages' = Spliced(off, buf, k)
  /\ Returns("writeError", off, Len(buf), buf, << >>)
  /\ UNCHANGED <<base, baseLen, len, written>>

ReadAt(off, n) ==
  /\ Bound(off, n)
  /\ Returns("read", off, n, << >>, [i \in 1 .. n |-> ByteAt(off + i - 1)])
  /\ UNCHANGED <<base, baseLen, len, pages, written>>

ReadAtFails(off, n) ==
  /\ Bound(off, n)
  /\ \E a \in off .. off + n - 1 : pages[IndexOf(a)] = NoPage /\ a < baseLen
  /\ Returns("readError", off, n, << >>, << >>)
  /\ UNCHANGED <<base, baseLen, len, pages, written>>

OutOfBounds(off, n, op) ==
  /\ ~Bound(off, n)
  /\ Returns(op, off, n, << >>, << >>)
  /\ UNCHANGED <<base, baseLen, len, pages, written>>

(* set_len: growth only. *)
SetLen(n) ==
  /\ \/ /\ n >= len
        /\ len' = n
        /\ written' = TRUE
        /\ Returns("setLen", n, 0, << >>, << >>)
     \/ /\ n < len
        /\ Returns("setLenError", n, 0, << >>, << >>)
        /\ UNCHANGED <<len, written>>
  /\ UNCHANGED <<base, baseLen, pages>>

-----------------------------------------------------------------------------
(* Overlay::new. *)
Init ==
  /\ base \in Bases
  /\ baseLen = Len(base)
  /\ len = baseLen
  /\ pages = [index \in Indexes |-> NoPage]
  /\ written = FALSE
  /\ call = [op |-> "none", off |-> 0, n |-> 0, buf |-> << >>, result |-> << >>]

Next ==
  \/ \E off \in Addresses, buf \in Buffers :
       WriteAt(off, buf) \/ WriteAtFails(off, buf) \/ OutOfBounds(off, Len(buf), "writeError")
  \/ \E off \in Addresses, n \in 0 .. Capacity :
       ReadAt(off, n) \/ ReadAtFails(off, n) \/ OutOfBounds(off, n, "readError")
  \/ \E n \in 0 .. Capacity : SetLen(n)

Spec == Init /\ [][Next]_vars

-----------------------------------------------------------------------------
(* What the library sees of the overlay, as one run of bytes. *)
View == [a \in Addresses |-> IF a < len THEN ByteAt(a) ELSE Zero]

Flat == INSTANCE FlatDevice WITH contents <- View, changed <- written

(* The overlay is a flat device that holds the base to begin with: a page  *)
(* filled from the base, at its end too, a write across pages, one that    *)
(* fails on its way and a growth read back as they would from a file, and  *)
(* `written` (the `dirty` of the report) is set by every call that changes *)
(* the device and returns Ok, and by no other.                             *)
ImplementsFlatDevice == Flat!Spec
=============================================================================

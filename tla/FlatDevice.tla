----------------------------- MODULE FlatDevice ------------------------------
(***************************************************************************)
(* What fs_core::BlockDevice promises its callers, for a device that grows *)
(* and never shrinks: a flat run of bytes.  A write that is refused does   *)
(* nothing; one that fails has written a prefix of its bytes; the bytes a  *)
(* growth adds are zeros.  `call` is the last call that returned, with     *)
(* what it returned, and `changed` says whether a call changed the device  *)
(* and said so.                                                            *)
(***************************************************************************)
EXTENDS Integers, Sequences

CONSTANTS
  Bytes,      \* the values of a byte
  Zero,       \* one of them
  Capacity,   \* bound: no device is longer
  Buffers     \* what callers write

VARIABLES contents, len, changed, call

Addresses == 0 .. Capacity - 1
Returns(op, off, n, buf, result) ==
  call' = [op |-> op, off |-> off, n |-> n, buf |-> buf, result |-> result]

(* The device with the first k bytes of buf at off. *)
Written(off, buf, k) ==
  [a \in Addresses |-> IF a \in off .. off + k - 1 THEN buf[a - off + 1] ELSE contents[a]]

Write(off, buf) ==
  /\ off + Len(buf) <= len
  /\ contents' = Written(off, buf, Len(buf))
  /\ changed' = TRUE
  /\ Returns("write", off, Len(buf), buf, << >>)
  /\ UNCHANGED len

FailedWrite(off, buf) ==
  /\ off + Len(buf) <= len
  /\ \E k \in 0 .. Len(buf) - 1 : contents' = Written(off, buf, k)
  /\ Returns("writeError", off, Len(buf), buf, << >>)
  /\ UNCHANGED <<len, changed>>

Read(off, n) ==
  /\ off + n <= len
  /\ Returns("read", off, n, << >>, [i \in 1 .. n |-> contents[off + i - 1]])
  /\ UNCHANGED <<contents, len, changed>>

FailedRead(off, n) ==
  /\ off + n <= len
  /\ Returns("readError", off, n, << >>, << >>)
  /\ UNCHANGED <<contents, len, changed>>

OutOfBounds(off, n, op) ==
  /\ off + n > len
  /\ Returns(op, off, n, << >>, << >>)
  /\ UNCHANGED <<contents, len, changed>>

Grow(n) ==
  /\ n >= len
  /\ len' = n
  /\ changed' = TRUE
  /\ Returns("setLen", n, 0, << >>, << >>)
  /\ UNCHANGED contents

RefuseToShrink(n) ==
  /\ n < len
  /\ Returns("setLenError", n, 0, << >>, << >>)
  /\ UNCHANGED <<contents, len, changed>>

Init ==
  /\ len \in 0 .. Capacity
  /\ contents \in [Addresses -> Bytes]
  /\ \A a \in Addresses : a >= len => contents[a] = Zero
  /\ changed = FALSE
  /\ call = [op |-> "none", off |-> 0, n |-> 0, buf |-> << >>, result |-> << >>]

Next ==
  \/ \E off \in Addresses, buf \in Buffers :
       \/ Write(off, buf) \/ FailedWrite(off, buf) \/ OutOfBounds(off, Len(buf), "writeError")
  \/ \E off \in Addresses, n \in 0 .. Capacity :
       \/ Read(off, n) \/ FailedRead(off, n) \/ OutOfBounds(off, n, "readError")
  \/ \E n \in 0 .. Capacity : Grow(n) \/ RefuseToShrink(n)

Spec == Init /\ [][Next]_<<contents, len, changed, call>>
=============================================================================

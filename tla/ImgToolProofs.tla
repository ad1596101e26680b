---------------------------- MODULE ImgToolProofs ----------------------------
(***************************************************************************)
(* The overlay of the read-only verbs is a flat device, for every page     *)
(* size, every file under it and any calls; and a run of img.vhdx puts out *)
(* or writes what it was asked to, or the beginning of it, for every size  *)
(* of disk, chunk and range, whatever fails on its way.                    *)
(***************************************************************************)
EXTENDS ImgTool, DivisionProofs, SequenceTheorems

(* The length never falls below the file's, every page is whole, and what  *)
(* a page holds past the end of the device is zeros: a later growth would  *)
(* show it.                                                                *)
OverlayInv ==
  /\ base \in Seq(Bytes)
  /\ baseLen = Len(base)
  /\ len \in Nat /\ baseLen <= len /\ len <= Capacity
  /\ pages \in [Indexes -> Page \cup {NoPage}]
  /\ \A a \in Addresses : a >= len => ByteAt(a) = Zero

-----------------------------------------------------------------------------
(* The device has a size. *)
LEMMA CapacityType == Capacity \in Nat
BY OverlayAssumption DEF Capacity

(* An address lies in one page, at one place. *)
LEMMA PageOf ==
  ASSUME NEW a \in Addresses
  PROVE  /\ a \in Nat
         /\ IndexOf(a) \in Indexes
         /\ InPage(a) \in 0 .. PAGE - 1
         /\ AddressOf(IndexOf(a), InPage(a)) = a
<1> DEFINE q == a \div PAGE  m == a % PAGE
<1>1. a \in Nat /\ PAGE \in Nat \ {0} /\ MaxPages \in Nat /\ a < PAGE * MaxPages
  BY OverlayAssumption, CapacityType DEF Addresses, Capacity
<1>2. q \in Nat /\ m \in 0 .. PAGE - 1 /\ a = PAGE * q + m
  BY <1>1, DivMod
<1>3. IndexOf(a) = q /\ InPage(a) = m
  BY DEF IndexOf, InPage
<1> HIDE DEF q, m
<1>4. q < MaxPages
  <2> SUFFICES ASSUME q >= MaxPages PROVE FALSE
    BY <1>1, <1>2
  <2>1. PAGE * q >= PAGE * MaxPages
    BY <1>1, <1>2
  <2>2. PAGE * q \in Nat /\ PAGE * MaxPages \in Nat
    BY <1>1, <1>2
  <2> QED
    BY <1>1, <1>2, <2>1, <2>2
<1>5. q * PAGE + m = a
  BY <1>1, <1>2
<1> QED
  BY <1>1, <1>2, <1>3, <1>4, <1>5 DEF Indexes, AddressOf

(* A whole page is not the absence of one. *)
LEMMA PageIsThere == \A p \in Page : p # NoPage
<1>1. 0 \in 0 .. PAGE - 1
  BY OverlayAssumption
<1>2. \A p \in Page : 0 \in DOMAIN p
  BY <1>1 DEF Page
<1>3. DOMAIN NoPage = {}
  BY DEF NoPage
<1> QED
  BY <1>2, <1>3

(* read_base gives bytes. *)
LEMMA ReadBaseType ==
  ASSUME base \in Seq(Bytes), baseLen = Len(base), NEW a \in Nat
  PROVE  ReadBase(a) \in Bytes
<1>1. CASE a < baseLen
  <2>1. a + 1 \in 1 .. Len(base)
    BY <1>1
  <2> QED
    BY <1>1, <2>1 DEF ReadBase
<1>2. CASE ~(a < baseLen)
  BY <1>2, OverlayAssumption DEF ReadBase
<1> QED
  BY <1>1, <1>2

(* Pages with bytes spliced in are whole pages, and where the bytes were   *)
(* not written nothing has changed.                                        *)
LEMMA SplicedBytes ==
  ASSUME OverlayInv, NEW off \in Addresses, NEW buf \in Seq(Bytes), NEW k \in 0 .. Len(buf),
         pages' = Spliced(off, buf, k), UNCHANGED <<base, baseLen>>
  PROVE  /\ pages' \in [Indexes -> Page \cup {NoPage}]
         /\ \A a \in Addresses :
              ByteAt(a)' = IF a \in off .. off + k - 1 THEN buf[a - off + 1] ELSE ByteAt(a)
<1>1. off \in Nat /\ k \in Nat /\ PAGE \in Nat \ {0} /\ MaxPages \in Nat /\ Len(buf) \in Nat
  BY OverlayAssumption, CapacityType DEF Addresses
<1> DEFINE new(index) ==
      [p \in 0 .. PAGE - 1 |->
         IF AddressOf(index, p) \in off .. off + k - 1 THEN buf[AddressOf(index, p) - off + 1]
         ELSE IF pages[index] = NoPage THEN ReadBase(AddressOf(index, p)) ELSE pages[index][p]]
<1>2. pages' = [index \in Indexes |->
                  IF index \notin Touched(off, k) THEN pages[index] ELSE new(index)]
  BY DEF Spliced
<1>3. ASSUME NEW index \in Indexes PROVE new(index) \in Page
  <2> SUFFICES ASSUME NEW p \in 0 .. PAGE - 1 PROVE new(index)[p] \in Bytes
    BY DEF Page
  <2>1. AddressOf(index, p) \in Nat
    <3>1. index \in Nat
      BY <1>1 DEF Indexes
    <3>2. index * PAGE \in Nat
      BY <1>1, <3>1
    <3> QED
      BY <1>1, <3>2 DEF AddressOf
  <2>2. AddressOf(index, p) \in off .. off + k - 1 => buf[AddressOf(index, p) - off + 1] \in Bytes
    <3> SUFFICES ASSUME AddressOf(index, p) \in off .. off + k - 1
                 PROVE  AddressOf(index, p) - off + 1 \in 1 .. Len(buf)
      OBVIOUS
    <3> QED
      BY <1>1, <2>1
  <2>3. ReadBase(AddressOf(index, p)) \in Bytes
    BY <2>1, ReadBaseType DEF OverlayInv
  <2>4. pages[index] # NoPage => pages[index][p] \in Bytes
    BY DEF OverlayInv, Page
  <2> QED
    BY <2>2, <2>3, <2>4
<1>4. pages' \in [Indexes -> Page \cup {NoPage}]
  <2> HIDE DEF new
  <2> QED
    BY <1>2, <1>3 DEF OverlayInv
<1>5. ASSUME NEW a \in Addresses
      PROVE  ByteAt(a)' = IF a \in off .. off + k - 1 THEN buf[a - off + 1] ELSE ByteAt(a)
  <2> DEFINE index == IndexOf(a)  p == InPage(a)
  <2>1. a \in Nat /\ index \in Indexes /\ p \in 0 .. PAGE - 1 /\ AddressOf(index, p) = a
    BY PageOf
  <2>2. ByteAt(a)' = IF pages'[index] = NoPage THEN ReadBase(a) ELSE pages'[index][p]
    BY DEF ByteAt, ReadBase, IndexOf, InPage, NoPage
  <2>3. ByteAt(a) = IF pages[index] = NoPage THEN ReadBase(a) ELSE pages[index][p]
    BY DEF ByteAt
  <2>4. CASE index \in Touched(off, k)
    <3>1. pages'[index] = new(index)
      BY <1>2, <2>1, <2>4
    <3>2. pages'[index] # NoPage
      BY <1>3, <2>1, <3>1, PageIsThere
    <3>3. new(index)[p] = IF a \in off .. off + k - 1 THEN buf[a - off + 1]
                           ELSE IF pages[index] = NoPage THEN ReadBase(a) ELSE pages[index][p]
      BY <2>1
    <3> QED
      BY <2>2, <2>3, <3>1, <3>2, <3>3
  <2>5. CASE index \notin Touched(off, k)
    <3>1. pages'[index] = pages[index]
      BY <1>2, <2>1, <2>5
    <3>2. a \notin off .. off + k - 1
      BY <2>1, <2>5 DEF Touched
    <3> QED
      BY <2>2, <2>3, <3>1, <3>2
  <2> QED
    BY <2>4, <2>5
<1> QED
  BY <1>4, <1>5

(* Writing the first k bytes of buf to the pages is writing them to the    *)
(* flat device.                                                            *)
LEMMA SplicedView ==
  ASSUME OverlayInv, NEW off \in Addresses, NEW buf \in Seq(Bytes), NEW k \in 0 .. Len(buf),
         Bound(off, Len(buf)), pages' = Spliced(off, buf, k), UNCHANGED <<base, baseLen, len>>
  PROVE  OverlayInv' /\ View' = Flat!Written(off, buf, k)
<1>1. /\ pages' \in [Indexes -> Page \cup {NoPage}]
      /\ \A a \in Addresses :
           ByteAt(a)' = IF a \in off .. off + k - 1 THEN buf[a - off + 1] ELSE ByteAt(a)
  BY SplicedBytes
<1>2. off \in Nat /\ k \in Nat /\ len \in Nat /\ off + k <= len
  BY CapacityType DEF Addresses, Bound, OverlayInv
<1>3. \A a \in Addresses : a \in off .. off + k - 1 => a < len
  BY <1>2, PageOf
<1>4. OverlayInv'
  <2>1. \A a \in Addresses : a >= len => ByteAt(a)' = Zero
    BY <1>1, <1>2, <1>3, PageOf DEF OverlayInv
  <2>2. Capacity' = Capacity /\ Addresses' = Addresses /\ Indexes' = Indexes /\ Page' = Page
        /\ NoPage' = NoPage
    BY DEF Capacity, Addresses, Indexes, Page, NoPage
  <2> QED
    BY <1>1, <2>1, <2>2 DEF OverlayInv
<1>5. View' = [a \in Addresses |-> IF a < len THEN ByteAt(a)' ELSE Zero]
  BY DEF View, Addresses, Capacity
<1>6. Flat!Written(off, buf, k) =
        [a \in Addresses |-> IF a \in off .. off + k - 1 THEN buf[a - off + 1]
                             ELSE IF a < len THEN ByteAt(a) ELSE Zero]
  BY DEF Flat!Written, Flat!Addresses, View, Addresses
<1> QED
  BY <1>1, <1>3, <1>4, <1>5, <1>6

(* A call that leaves the device alone leaves the flat one alone. *)
LEMMA SameView ==
  ASSUME OverlayInv, UNCHANGED <<base, baseLen, len, pages>>
  PROVE  OverlayInv' /\ View' = View
<1>1. \A a : ByteAt(a)' = ByteAt(a)
  BY DEF ByteAt, ReadBase, IndexOf, InPage, NoPage
<1>2. OverlayInv'
  BY <1>1 DEF OverlayInv, Capacity, Addresses, Indexes, Page, NoPage
<1>3. View' = View
  BY <1>1 DEF View, Addresses, Capacity
<1> QED
  BY <1>2, <1>3

(* What a growth adds reads as zeros. *)
LEMMA GrownView ==
  ASSUME OverlayInv, NEW n \in 0 .. Capacity, n >= len, len' = n,
         UNCHANGED <<base, baseLen, pages>>
  PROVE  OverlayInv' /\ View' = View
<1>1. \A a : ByteAt(a)' = ByteAt(a)
  BY DEF ByteAt, ReadBase, IndexOf, InPage, NoPage
<1>2. n \in Nat /\ len \in Nat /\ n <= Capacity /\ baseLen \in Nat
  BY CapacityType DEF OverlayInv
<1>3. \A a \in Addresses : a >= n => a >= len
  BY <1>2, PageOf
<1>4. OverlayInv'
  BY <1>1, <1>2, <1>3 DEF OverlayInv, Capacity, Addresses, Indexes, Page, NoPage
<1>5. View' = [a \in Addresses |-> IF a < n THEN ByteAt(a) ELSE Zero]
  BY <1>1 DEF View, Addresses, Capacity
<1>6. \A a \in Addresses : (IF a < n THEN ByteAt(a) ELSE Zero)
                             = (IF a < len THEN ByteAt(a) ELSE Zero)
  BY <1>2, PageOf DEF OverlayInv
<1> QED
  BY <1>4, <1>5, <1>6 DEF View

-----------------------------------------------------------------------------
(* A fresh overlay is a flat device that holds the file under it. *)
LEMMA OverlayInit == Init => OverlayInv /\ Flat!Init
<1> SUFFICES ASSUME Init PROVE OverlayInv /\ Flat!Init
  OBVIOUS
<1>1. base \in Seq(Bytes) /\ baseLen = Len(base) /\ baseLen \in Nat /\ baseLen <= Capacity
      /\ len = baseLen
  BY OverlayAssumption DEF Init, Capacity
<1>2. ASSUME NEW a \in Addresses PROVE ByteAt(a) = ReadBase(a)
  <2>1. IndexOf(a) \in Indexes
    BY PageOf
  <2>2. pages[IndexOf(a)] = NoPage
    BY <2>1 DEF Init
  <2> QED
    BY <2>2 DEF ByteAt
<1>3. OverlayInv
  <2>1. \A a \in Addresses : a >= len => ByteAt(a) = Zero
    BY <1>1, <1>2, PageOf DEF ReadBase
  <2>2. pages \in [Indexes -> Page \cup {NoPage}]
    BY DEF Init
  <2> QED
    BY <1>1, <2>1, <2>2 DEF OverlayInv
<1>4. View \in [Addresses -> Bytes] /\ \A a \in Addresses : a >= len => View[a] = Zero
  <2>1. \A a \in Addresses : ByteAt(a) \in Bytes
    BY <1>1, <1>2, PageOf, ReadBaseType
  <2>2. Zero \in Bytes
    BY OverlayAssumption
  <2>3. \A a \in Addresses : a >= len => ~(a < len)
    BY <1>1, PageOf
  <2> QED
    BY <2>1, <2>2, <2>3 DEF View
<1>5. len \in 0 .. Capacity
  BY <1>1, CapacityType
<1> QED
  BY <1>3, <1>4, <1>5 DEF Flat!Init, Flat!Addresses, Addresses, Init

(* Every call of the overlay is a call of the flat device. *)
LEMMA OverlayStep ==
  ASSUME OverlayInv, [Next]_vars
  PROVE  OverlayInv' /\ [Flat!Next]_<<View, len, written, call>>
<1>1. ASSUME NEW off \in Addresses, NEW buf \in Buffers, WriteAt(off, buf)
      PROVE  OverlayInv' /\ Flat!Write(off, buf)
  <2>1. buf \in Seq(Bytes) /\ Len(buf) \in 0 .. Len(buf)
    BY OverlayAssumption
  <2>2. OverlayInv' /\ View' = Flat!Written(off, buf, Len(buf))
    BY <1>1, <2>1, SplicedView DEF WriteAt
  <2> QED
    BY <1>1, <2>2 DEF WriteAt, Bound, Returns, Flat!Write, Flat!Returns
<1>2. ASSUME NEW off \in Addresses, NEW buf \in Buffers, WriteAtFails(off, buf)
      PROVE  OverlayInv' /\ Flat!FailedWrite(off, buf)
  <2>1. buf \in Seq(Bytes) /\ Len(buf) \in Nat
    BY OverlayAssumption
  <2>2. PICK k \in 0 .. Len(buf) - 1 : pages' = Spliced(off, buf, k)
    BY <1>2 DEF WriteAtFails
  <2>3. OverlayInv' /\ View' = Flat!Written(off, buf, k)
    <3>1. k \in 0 .. Len(buf)
      BY <2>1
    <3> QED
      BY <1>2, <2>1, <2>2, <3>1, SplicedView DEF WriteAtFails
  <2> QED
    BY <1>2, <2>3 DEF WriteAtFails, Bound, Returns, Flat!FailedWrite, Flat!Returns
<1>3. ASSUME NEW off \in Addresses, NEW n \in 0 .. Capacity, ReadAt(off, n)
      PROVE  OverlayInv' /\ Flat!Read(off, n)
  <2>1. OverlayInv' /\ View' = View
    BY <1>3, SameView DEF ReadAt
  <2>2. off \in Nat /\ n \in Nat /\ len \in Nat /\ len <= Capacity /\ off + n <= len
    BY <1>3, CapacityType DEF Addresses, ReadAt, Bound, OverlayInv
  <2>3. \A i \in 1 .. n : ByteAt(off + i - 1) = View[off + i - 1]
    <3> SUFFICES ASSUME NEW i \in 1 .. n
                 PROVE  off + i - 1 \in Addresses /\ off + i - 1 < len
      BY DEF View
    <3> QED
      BY <2>2, CapacityType DEF Addresses
  <2>4. [i \in 1 .. n |-> ByteAt(off + i - 1)] = [i \in 1 .. n |-> View[off + i - 1]]
    BY <2>3
  <2> QED
    BY <1>3, <2>1, <2>4 DEF ReadAt, Bound, Returns, Flat!Read, Flat!Returns
<1>4. ASSUME NEW off \in Addresses, NEW n \in 0 .. Capacity, ReadAtFails(off, n)
      PROVE  OverlayInv' /\ Flat!FailedRead(off, n)
  <2>1. OverlayInv' /\ View' = View
    BY <1>4, SameView DEF ReadAtFails
  <2> QED
    BY <1>4, <2>1 DEF ReadAtFails, Bound, Returns, Flat!FailedRead, Flat!Returns
<1>5. ASSUME NEW off \in Addresses, NEW n \in Nat, NEW op, OutOfBounds(off, n, op)
      PROVE  OverlayInv' /\ Flat!OutOfBounds(off, n, op)
  <2>1. OverlayInv' /\ View' = View
    BY <1>5, SameView DEF OutOfBounds
  <2>2. off + n > len
    BY <1>5, CapacityType DEF OutOfBounds, Bound, OverlayInv, Addresses
  <2> QED
    BY <1>5, <2>1, <2>2 DEF OutOfBounds, Returns, Flat!OutOfBounds, Flat!Returns
<1>6. ASSUME NEW n \in 0 .. Capacity, SetLen(n)
      PROVE  OverlayInv' /\ (Flat!Grow(n) \/ Flat!RefuseToShrink(n))
  <2>1. CASE n >= len /\ len' = n /\ written' = TRUE /\ Returns("setLen", n, 0, << >>, << >>)
    <3>1. OverlayInv' /\ View' = View
      BY <1>6, <2>1, GrownView DEF SetLen
    <3> QED
      BY <2>1, <3>1 DEF Returns, Flat!Grow, Flat!Returns
  <2>2. CASE /\ n < len /\ Returns("setLenError", n, 0, << >>, << >>)
             /\ UNCHANGED <<len, written>>
    <3>1. OverlayInv' /\ View' = View
      BY <1>6, <2>2, SameView DEF SetLen
    <3> QED
      BY <2>2, <3>1 DEF Returns, Flat!RefuseToShrink, Flat!Returns
  <2> QED
    BY <1>6, <2>1, <2>2 DEF SetLen
<1>7. CASE UNCHANGED vars
  BY <1>7, SameView DEF vars
<1>8. ASSUME Next PROVE OverlayInv' /\ Flat!Next
  <2>1. \A buf \in Buffers : Len(buf) \in Nat
    BY OverlayAssumption
  <2>2. \A n \in 0 .. Capacity : n \in Nat
    BY CapacityType
  <2>3. ASSUME NEW off \in Addresses, NEW buf \in Buffers,
               \/ WriteAt(off, buf) \/ WriteAtFails(off, buf)
               \/ OutOfBounds(off, Len(buf), "writeError")
        PROVE  OverlayInv' /\ Flat!Next
    BY <1>1, <1>2, <1>5, <2>1, <2>3 DEF Flat!Next, Flat!Addresses, Addresses
  <2>4. ASSUME NEW off \in Addresses, NEW n \in 0 .. Capacity,
               ReadAt(off, n) \/ ReadAtFails(off, n) \/ OutOfBounds(off, n, "readError")
        PROVE  OverlayInv' /\ Flat!Next
    BY <1>3, <1>4, <1>5, <2>2, <2>4 DEF Flat!Next, Flat!Addresses, Addresses
  <2>5. ASSUME NEW n \in 0 .. Capacity, SetLen(n) PROVE OverlayInv' /\ Flat!Next
    BY <1>6, <2>5 DEF Flat!Next
  <2> QED
    BY <1>8, <2>3, <2>4, <2>5 DEF Next
<1> QED
  BY <1>7, <1>8

(* The overlay implements the flat device, whatever the page size and the  *)
(* file under it: the library may replay a log on it as on a file.         *)
THEOREM OverlayIsFlat == Spec => ImplementsFlatDevice
<1>1. Init => OverlayInv /\ Flat!Init
  BY OverlayInit
<1>2. OverlayInv /\ [Next]_vars => OverlayInv' /\ [Flat!Next]_<<View, len, written, call>>
  BY OverlayStep
<1> QED
  BY <1>1, <1>2, PTL DEF Spec, ImplementsFlatDevice, Flat!Spec

-----------------------------------------------------------------------------
(***************************************************************************)
(* A run of img.vhdx: the inductive invariant, one part per property.      *)
(***************************************************************************)
Writing == arg.verb \in {"write", "writeFile"}

(* The command line, and which phases belong to which verb. *)
ArgHolds ==
  /\ arg.verb \in {"info", "read", "readFile", "write", "writeFile", "create"}
  /\ arg.offset \in Nat \cup {None} /\ arg.length \in Nat \cup {None} /\ arg.skip \in Nat
  /\ phase = "start" => arg.verb \in {"write", "writeFile", "create"}
  /\ phase = "opening" => arg.verb \in {"info", "read", "readFile"}
  /\ phase = "stream" => arg.verb = "read" /\ RangeOk
  /\ phase \in {"copy", "sync", "rename"} => arg.verb = "readFile" /\ RangeOk
  /\ phase = "abandon" => arg.verb = "readFile"
  /\ phase = "write" => Writing

(* The bytes from Offset on are those of f, as far as n. *)
Follows(f, n) == \A i \in 1 .. n : View[Offset + i - 1] = f[i]

(* While it runs, `read` has put out what is before its cursor. *)
StreamHolds ==
  /\ stdout \in Seq(Bytes)
  /\ phase \in {"start", "opening"} => stdout = << >>
  /\ stdout # << >> => RangeOk /\ Len(stdout) <= Length
  /\ Follows(stdout, Len(stdout))
  /\ phase = "stream" => Len(stdout) = at - Offset

(* FILE.partial, up to the cursor, is the range but for zeros at its end   *)
(* that were skipped; it is all of the range and synced before it becomes  *)
(* FILE.                                                                   *)
FileHolds ==
  /\ phase \in {"start", "opening"} => dest = OldFile /\ destMay = {OldFile}
  /\ \A f \in destMay \cup {dest} : f # OldFile => RangeOk /\ f = Wanted
  /\ phase = "copy" =>
       /\ partial \in Seq(Bytes) /\ Len(partial) <= at - Offset
       /\ \A i \in 1 .. at - Offset :
            View[Offset + i - 1] = IF i <= Len(partial) THEN partial[i] ELSE Zero
  /\ phase \in {"sync", "rename"} => partial = Wanted
  /\ phase = "rename" => synced
  /\ arg.verb = "readFile" /\ phase = "ended" /\ exit = 0 => dest = Wanted

(* Until a call has said that it changed the device, the device is the     *)
(* file: a call that changes it and fails ends the run.                    *)
ReportHolds ==
  /\ phase \in {"start", "opening"} => report = NoReport
  /\ phase = "opening" /\ ~written =>
       len = baseLen /\ \A a \in 0 .. baseLen - 1 : View[a] = base[a + 1]
  /\ ReportIsOfTheFile

(* The guest disk d holds the first k of the bytes f. *)
DiskHolds(d, f, k) ==
  \A a \in GuestAddresses :
    d[a] = IF a \in Offset .. Offset + k - 1 THEN f[a - Offset + 1] ELSE OldDisk[a]
WriteHolds ==
  /\ took \in Seq(Bytes) /\ input \in Seq(Bytes)
  /\ phase = "start" => took = << >> /\ disk = OldDisk
  /\ phase = "write" =>
       /\ at \in Nat /\ at + left <= VirtualSize
       /\ at = Offset + Len(took)
       /\ DiskHolds(disk, took, Len(took))
  /\ WriteIsExact

ToolInv ==
  /\ OverlayInv
  /\ ToolTypeOK
  /\ ArgHolds
  /\ StreamHolds
  /\ FileHolds
  /\ ReportHolds
  /\ WriteHolds

-----------------------------------------------------------------------------
(***************************************************************************)
(* Sequences, ranges and reads.                                            *)
(***************************************************************************)

(* A function on 1 .. n is a sequence of length n. *)
LEMMA FunctionIsSeq ==
  ASSUME NEW S, NEW n \in Nat, NEW f \in [1 .. n -> S]
  PROVE  f \in Seq(S) /\ Len(f) = n
<1>1. f \in Seq(S)
  BY SeqDef
<1>2. Len(f) \in Nat /\ DOMAIN f = 1 .. Len(f) /\ DOMAIN f = 1 .. n
  BY <1>1, LenProperties
<1>3. Len(f) = n
  <2>1. ~(Len(f) < n)
    <3> SUFFICES ASSUME Len(f) < n PROVE FALSE
      OBVIOUS
    <3>1. n \in 1 .. n /\ n \notin 1 .. Len(f)
      BY <1>2
    <3> QED
      BY <1>2, <3>1
  <2>2. ~(n < Len(f))
    <3> SUFFICES ASSUME n < Len(f) PROVE FALSE
      OBVIOUS
    <3>1. Len(f) \in 1 .. Len(f) /\ Len(f) \notin 1 .. n
      BY <1>2
    <3> QED
      BY <1>2, <3>1
  <2> QED
    BY <1>2, <2>1, <2>2
<1> QED
  BY <1>1, <1>3

(* The range asked for, once it was let through, is a run of the disk. *)
LEMMA RangeType ==
  ASSUME ArgHolds
  PROVE  /\ Offset \in Nat /\ Length \in Int /\ VirtualSize \in Nat /\ CHUNK \in Nat \ {0}
         /\ RangeOk => Length \in Nat /\ Offset + Length <= VirtualSize
  BY ToolAssumption DEF ArgHolds, Offset, Length, RangeOk, None

(* What the device reads as is bytes. *)
LEMMA ViewType ==
  ASSUME OverlayInv, NEW a \in Addresses
  PROVE  View[a] \in Bytes /\ (a < len => View[a] = ByteAt(a))
<1>1. IndexOf(a) \in Indexes /\ InPage(a) \in 0 .. PAGE - 1 /\ a \in Nat
  BY PageOf
<1>2. ReadBase(a) \in Bytes
  BY <1>1, ReadBaseType DEF OverlayInv
<1>3. pages[IndexOf(a)] = NoPage \/ pages[IndexOf(a)] \in Page
  BY <1>1 DEF OverlayInv
<1>4. ByteAt(a) \in Bytes
  BY <1>1, <1>2, <1>3 DEF ByteAt, Page
<1> QED
  BY <1>4, OverlayAssumption DEF View

(* A chunk that was read is what the guest has there. *)
LEMMA ChunkRead ==
  ASSUME OverlayInv, at \in Nat, NEW n \in Nat, ReadChunk(n)
  PROVE  /\ call'.result \in Seq(Bytes) /\ Len(call'.result) = n
         /\ \A i \in 1 .. n : call'.result[i] = View[at + i - 1]
<1> DEFINE f == [i \in 1 .. n |-> ByteAt(at + i - 1)]
<1>1. call'.result = f /\ at + n <= len /\ len \in Nat /\ len <= Capacity /\ Capacity \in Nat
  BY CapacityType DEF ReadChunk, ReadAt, Returns, Bound, OverlayInv
<1>2. ASSUME NEW i \in 1 .. n
      PROVE  ByteAt(at + i - 1) = View[at + i - 1] /\ View[at + i - 1] \in Bytes
  <2>1. at + i - 1 \in Addresses /\ at + i - 1 < len
    BY <1>1 DEF Addresses
  <2> QED
    BY <2>1, ViewType
<1>3. f \in [1 .. n -> Bytes]
  BY <1>2
<1>4. f \in Seq(Bytes) /\ Len(f) = n
  BY <1>3, FunctionIsSeq
<1> QED
  BY <1>1, <1>2, <1>4

(* The chunk under the cursor is not empty and ends in the range. *)
LEMMA ChunkSize ==
  ASSUME ToolTypeOK, ArgHolds, phase \in {"stream", "copy"}, at < Offset + Length
  PROVE  /\ Offset \in Nat /\ Length \in Nat /\ at \in Nat /\ Offset <= at
         /\ ChunkHere \in Nat /\ ChunkHere >= 1 /\ at + ChunkHere <= Offset + Length
<1>1. RangeOk /\ Offset \in Nat /\ Length \in Nat /\ CHUNK \in Nat \ {0}
  BY RangeType DEF ArgHolds
<1>2. at \in Nat /\ Offset <= at
  BY <1>1 DEF ToolTypeOK
<1> QED
  BY <1>1, <1>2 DEF ChunkHere, Smaller

-----------------------------------------------------------------------------
(***************************************************************************)
(* What most steps leave alone.                                            *)
(***************************************************************************)

(* The command line never changes. *)
LEMMA ArgKept ==
  ASSUME ToolNext \/ UNCHANGED <<vars, toolVars>>
  PROVE  /\ arg' = arg /\ Offset' = Offset /\ Length' = Length /\ RangeOk' = RangeOk
         /\ Writing' = Writing
<1>1. arg' = arg
  BY DEF ToolNext, toolVars, Open, OpenRefused, Get, NotImplemented, ReadStart, StreamChunk,
     StreamEnd, CopyChunk, FinishPartial, SyncAll, Rename, Abandon, LosePower, WriteStart,
     InputChanges, WriteChunk, WriteEnd
<1> QED
  BY <1>1 DEF Offset, Length, RangeOk, Writing

(* Nothing but the open changes the device. *)
LEMMA DeviceKept ==
  ASSUME OverlayInv, ToolNext \/ UNCHANGED <<vars, toolVars>>, ~Open
  PROVE  /\ UNCHANGED <<base, baseLen, len, pages, written>>
         /\ OverlayInv' /\ View' = View /\ Wanted' = Wanted
<1>1. ASSUME ReadChunk(ChunkHere) \/ ReadChunkFails(ChunkHere)
      PROVE  UNCHANGED <<base, baseLen, len, pages, written>>
  BY <1>1 DEF ReadChunk, ReadChunkFails, ReadAt, ReadAtFails, OutOfBounds
<1>2. UNCHANGED <<base, baseLen, len, pages, written>>
  BY <1>1 DEF ToolNext, vars, OpenRefused, Get, NotImplemented, ReadStart, StreamChunk,
     StreamEnd, CopyChunk, FinishPartial, SyncAll, Rename, Abandon, LosePower, WriteStart,
     InputChanges, WriteChunk, WriteEnd
<1>3. OverlayInv' /\ View' = View
  BY <1>2, SameView
<1> QED
  BY <1>2, <1>3, ArgKept DEF Wanted

(* What is on stdout stays right where neither it nor the device changes. *)
LEMMA StreamKept ==
  ASSUME StreamHolds, Offset' = Offset, Length' = Length, RangeOk' = RangeOk, View' = View,
         stdout' = stdout,
         phase' \in {"start", "opening"} => phase \in {"start", "opening"},
         phase' = "stream" => phase = "stream" /\ at' = at
  PROVE  StreamHolds'
  BY DEF StreamHolds, Follows

(* So does the output file ... *)
LEMMA FileKept ==
  ASSUME FileHolds, arg' = arg, Offset' = Offset, RangeOk' = RangeOk, View' = View,
         Wanted' = Wanted, UNCHANGED <<partial, synced, dest, destMay>>,
         phase' \in {"start", "opening"} => phase \in {"start", "opening"},
         phase' = "copy" => phase = "copy" /\ at' = at,
         phase' \in {"sync", "rename"} => phase' = phase,
         arg.verb = "readFile" /\ phase' = "ended" => exit' # 0 \/ (phase = "ended" /\ exit' = exit)
  PROVE  FileHolds'
  BY DEF FileHolds

(* ... the report ... *)
LEMMA ReportKept ==
  ASSUME ReportHolds, arg' = arg, View' = View, UNCHANGED <<base, baseLen, len, written>>,
         report' = report \/ arg.verb # "info",
         phase' \in {"start", "opening"} => report' = report /\ phase' = phase
  PROVE  ReportHolds'
  BY DEF ReportHolds, ReportIsOfTheFile, NoReport

(* ... and the guest disk. *)
LEMMA WriteKept ==
  ASSUME WriteHolds, arg' = arg, Offset' = Offset, UNCHANGED writeVars,
         phase' = "start" => phase = "start",
         phase' = "write" => phase = "write" /\ at' = at,
         Writing => UNCHANGED <<report, exit>> \/ exit' # 0
  PROVE  WriteHolds'
  BY DEF WriteHolds, WriteIsExact, DiskHolds, writeVars, Writing

-----------------------------------------------------------------------------
(***************************************************************************)
(* The steps.                                                              *)
(***************************************************************************)

(* A call of the open that says it changed nothing, and did not fail.      *)
LEMMA OpenClean ==
  ASSUME OverlayInv, Next, ~written', call'.op \notin {"writeError", "readError", "setLenError"}
  PROVE  UNCHANGED <<base, baseLen, len, pages, written>>
<1>1. ASSUME NEW off \in Addresses, NEW buf \in Buffers,
             \/ WriteAt(off, buf) \/ WriteAtFails(off, buf)
             \/ OutOfBounds(off, Len(buf), "writeError")
      PROVE  FALSE
  BY <1>1 DEF WriteAt, WriteAtFails, OutOfBounds, Returns
<1>2. ASSUME NEW off \in Addresses, NEW n \in 0 .. Capacity,
             ReadAt(off, n) \/ ReadAtFails(off, n) \/ OutOfBounds(off, n, "readError")
      PROVE  UNCHANGED <<base, baseLen, len, pages, written>>
  BY <1>2 DEF ReadAt, ReadAtFails, OutOfBounds
<1>3. ASSUME NEW n \in 0 .. Capacity, SetLen(n) PROVE FALSE
  BY <1>3 DEF SetLen, Returns
<1> QED
  BY <1>1, <1>2, <1>3 DEF Next

(* The library's calls while it opens the image. *)
LEMMA OpenTool ==
  ASSUME ToolInv, Open
  PROVE  ToolInv'
<1>1. /\ phase = "opening" /\ Next /\ exit = None
      /\ UNCHANGED <<arg, at, readVars, writeVars, report>>
      /\ \/ phase' = "ended" /\ exit' = 1
         \/ UNCHANGED <<phase, exit>> /\ call'.op \notin {"writeError", "readError", "setLenError"}
  BY DEF Open, End, ToolInv, ToolTypeOK
<1>2. OverlayInv'
  BY <1>1, OverlayStep DEF ToolInv
<1>3. Offset' = Offset /\ Length' = Length /\ RangeOk' = RangeOk /\ Writing' = Writing
  BY ArgKept DEF ToolNext
<1>4. arg.verb \in {"info", "read", "readFile"} /\ stdout = << >> /\ dest = OldFile
      /\ destMay = {OldFile} /\ report = NoReport
  BY <1>1 DEF ToolInv, ArgHolds, StreamHolds, FileHolds, ReportHolds
<1>5. ToolTypeOK' /\ ArgHolds'
  BY <1>1, <1>3 DEF ToolInv, ToolTypeOK, ArgHolds, Phases, writeVars, readVars, None
<1>6. StreamHolds'
  <2>1. stdout' = << >> /\ Len(<< >>) = 0 /\ << >> \in Seq(Bytes)
    BY <1>1, <1>4, EmptySeq DEF readVars
  <2> QED
    BY <1>1, <2>1 DEF StreamHolds, Follows
<1>7. FileHolds'
  BY <1>1, <1>4 DEF FileHolds, readVars
<1>8. ReportHolds'
  <2>1. ASSUME phase' = "opening", ~written'
        PROVE  len' = baseLen' /\ \A a \in 0 .. baseLen' - 1 : View'[a] = base'[a + 1]
    <3>1. UNCHANGED <<base, baseLen, len, pages, written>>
      BY <1>1, <2>1, OpenClean DEF ToolInv
    <3>2. View' = View
      BY <3>1, SameView DEF ToolInv
    <3> QED
      BY <1>1, <2>1, <3>1, <3>2 DEF ToolInv, ReportHolds
  <2>2. report' = NoReport' /\ NoReport' = NoReport
    BY <1>1, <1>4 DEF NoReport
  <2> QED
    BY <2>1, <2>2 DEF ReportHolds, ReportIsOfTheFile
<1>9. WriteHolds'
  BY <1>1, <1>3, <1>4, WriteKept DEF ToolInv, Writing
<1> QED
  BY <1>2, <1>5, <1>6, <1>7, <1>8, <1>9 DEF ToolInv

(* stdout: only `read` writes it, a chunk or a part of one at a time. *)
LEMMA StreamStep ==
  ASSUME ToolInv, ToolNext \/ UNCHANGED <<vars, toolVars>>, ~Open
  PROVE  StreamHolds'
<1>1. /\ arg' = arg /\ Offset' = Offset /\ Length' = Length /\ RangeOk' = RangeOk
      /\ View' = View /\ StreamHolds
  BY ArgKept, DeviceKept DEF ToolInv
<1>2. CASE ReadStart
  <2>1. stdout' = stdout /\ stdout = << >> /\ at' = Offset /\ phase' \notin {"start", "opening"}
    BY <1>1, <1>2 DEF ReadStart, End, StreamHolds
  <2>2. Len(stdout) = 0 /\ Offset \in Nat
    BY <2>1, EmptySeq, RangeType DEF ToolInv
  <2>3. at' - Offset' = 0
    BY <1>1, <2>1, <2>2
  <2> QED
    BY <1>1, <2>1, <2>2, <2>3 DEF StreamHolds, Follows
<1>3. CASE StreamChunk
  <2> DEFINE n == ChunkHere  res == call'.result  z == Len(stdout)
  <2>1. phase = "stream" /\ at < Offset + Length /\ RangeOk
    BY <1>3 DEF StreamChunk, ToolInv, ArgHolds
  <2>2. /\ Offset \in Nat /\ Length \in Nat /\ at \in Nat /\ Offset <= at
        /\ n \in Nat /\ n >= 1 /\ at + n <= Offset + Length
    BY <2>1, ChunkSize DEF ToolInv
  <2>3. z = at - Offset /\ stdout \in Seq(Bytes) /\ z \in Nat
    BY <1>1, <2>1 DEF StreamHolds
  <2>4. CASE ReadChunkFails(n) /\ phase' = "ended" /\ stdout' = stdout
    BY <1>1, <2>4, StreamKept
  <2>5. ASSUME ReadChunk(n), NEW k \in 0 .. n,
               stdout' = stdout \o SubSeq(res, 1, k), phase' = "ended" \/ (k = n /\ at' = at + n),
               phase' \notin {"start", "opening"}
        PROVE  StreamHolds'
    <3> DEFINE part == SubSeq(res, 1, k)
    <3>1. res \in Seq(Bytes) /\ Len(res) = n /\ \A i \in 1 .. n : res[i] = View[at + i - 1]
      BY <2>2, <2>5, ChunkRead DEF ToolInv
    <3>2. k \in Nat /\ k <= n /\ \A i \in 1 .. k : res[i] \in Bytes
      BY <2>2, <3>1, ElementOfSeq
    <3>3. part \in Seq(Bytes) /\ Len(part) = k /\ \A i \in 1 .. k : part[i] = res[i]
      <4>1. /\ part \in Seq(Bytes) /\ Len(part) = IF 1 <= k THEN k - 1 + 1 ELSE 0
            /\ \A i \in 1 .. k - 1 + 1 : part[i] = res[1 + i - 1]
        BY <3>2, SubSeqProperties
      <4> HIDE DEF part
      <4> QED
        BY <3>2, <4>1
    <3> HIDE DEF part, res
    <3>4. /\ stdout' \in Seq(Bytes) /\ Len(stdout') = z + k
          /\ \A i \in 1 .. z + k : stdout'[i] = IF i <= z THEN stdout[i] ELSE part[i - z]
      <4>1. stdout' = stdout \o part
        BY <2>5 DEF part
      <4> QED
        BY <2>3, <3>3, <4>1, ConcatProperties
    <3> HIDE DEF n, z
    <3>5. ASSUME NEW i \in 1 .. z + k PROVE View[Offset + i - 1] = stdout'[i]
      <4>1. CASE i <= z
        <5>1. i \in 1 .. Len(stdout)
          BY <2>3, <4>1 DEF z
        <5> QED
          BY <1>1, <3>4, <4>1, <5>1 DEF StreamHolds, Follows
      <4>2. CASE i > z
        <5>1. i - z \in 1 .. k /\ i - z \in 1 .. n /\ at + (i - z) - 1 = Offset + i - 1
          BY <2>2, <2>3, <3>2, <4>2
        <5>2. stdout'[i] = part[i - z]
          BY <2>3, <3>4, <4>2
        <5> QED
          BY <3>1, <3>3, <5>1, <5>2
      <4> QED
        BY <2>3, <3>2, <4>1, <4>2
    <3>6. Len(stdout') <= Length
      BY <2>2, <2>3, <3>2, <3>4
    <3>7. phase' = "stream" => Len(stdout') = at' - Offset
      BY <2>2, <2>3, <2>5, <3>2, <3>4
    <3> QED
      BY <1>1, <2>1, <2>5, <3>4, <3>5, <3>6, <3>7 DEF StreamHolds, Follows
  <2>6. ASSUME ReadChunk(n) PROVE SubSeq(res, 1, n) = res
    BY <2>2, <2>6, ChunkRead, SubSeqFull DEF ToolInv
  <2>7. CASE ReadChunk(n) /\ stdout' = stdout \o res /\ at' = at + n /\ UNCHANGED phase
    <3>1. stdout' = stdout \o SubSeq(res, 1, n) /\ n \in 0 .. n /\ phase' = "stream"
      BY <2>1, <2>2, <2>6, <2>7
    <3> HIDE DEF n, res
    <3> QED
      BY <2>5, <2>7, <3>1
  <2>8. CASE /\ ReadChunk(n)
             /\ \E k \in 0 .. n - 1 : stdout' = stdout \o SubSeq(res, 1, k)
             /\ phase' = "ended"
    <3>1. PICK k \in 0 .. n - 1 : stdout' = stdout \o SubSeq(res, 1, k)
      BY <2>8
    <3>2. k \in 0 .. n
      BY <2>2
    <3> QED
      BY <2>5, <2>8, <3>1, <3>2
  <2> QED
    BY <1>3, <2>4, <2>7, <2>8 DEF StreamChunk, End
<1>4. CASE ~ReadStart /\ ~StreamChunk
  <2>1. /\ stdout' = stdout
        /\ phase' \in {"start", "opening"} => phase \in {"start", "opening"}
        /\ phase' = "stream" => phase = "stream" /\ at' = at
    BY <1>4 DEF ToolNext, toolVars, readVars, OpenRefused, Get, NotImplemented, StreamEnd,
       CopyChunk, FinishPartial, SyncAll, Rename, Abandon, LosePower, WriteStart,
       InputChanges, WriteChunk, WriteEnd, End
  <2> QED
    BY <1>1, <2>1, StreamKept
<1> QED
  BY <1>2, <1>3, <1>4

(* A step of `write` takes bytes of stdin that are there, and no more than *)
(* it still may.                                                           *)
LEMMA TakenBytes ==
  ASSUME ToolInv, WriteChunk
  PROVE  /\ Take \in Nat /\ 0 < Take /\ Take <= left /\ left \in Nat
         /\ SubSeq(input, Position + 1, Position + Take) \in Seq(Bytes)
         /\ Len(SubSeq(input, Position + 1, Position + Take)) = Take
         /\ at \in Nat /\ at + Take <= VirtualSize /\ VirtualSize \in Nat
<1>1. /\ phase = "write" /\ Take > 0 /\ arg.skip \in Nat /\ left \in Nat /\ CHUNK \in Nat \ {0}
      /\ input \in Seq(Bytes) /\ took \in Seq(Bytes) /\ at \in Nat /\ at = Offset + Len(took)
      /\ at + left <= VirtualSize /\ VirtualSize \in Nat
  BY ToolAssumption DEF WriteChunk, ToolInv, ToolTypeOK, ArgHolds, WriteHolds
<1>2. Offset \in Nat /\ Len(took) \in Nat /\ Len(input) \in Nat
  BY <1>1, RangeType, LenProperties DEF ToolInv
<1>3. Position \in Nat
  BY <1>1, <1>2 DEF Position
<1>4. Available \in Nat /\ (Available > 0 => Position + Available <= Len(input))
  BY <1>2, <1>3 DEF Available
<1>5. Take \in Nat /\ Take <= left /\ Take <= Available
  BY <1>1, <1>4 DEF Take, Smaller
<1>6. Position + 1 \in Nat /\ Position + Take \in Nat /\ Position + Take <= Len(input)
      /\ Available > 0
  BY <1>1, <1>3, <1>4, <1>5
<1> DEFINE n == Take  lo == Position + 1  hi == Position + n
<1>7. \A i \in lo .. hi : input[i] \in Bytes
  BY <1>1, <1>2, <1>3, <1>5, <1>6, ElementOfSeq
<1>8. /\ SubSeq(input, lo, hi) \in Seq(Bytes)
      /\ Len(SubSeq(input, lo, hi)) = IF lo <= hi THEN hi - lo + 1 ELSE 0
  BY <1>1, <1>2, <1>3, <1>5, <1>6, <1>7, SubSeqProperties
<1>9. (IF lo <= hi THEN hi - lo + 1 ELSE 0) = n
  BY <1>1, <1>3, <1>5
<1> QED
  BY <1>1, <1>5, <1>8, <1>9

(* A disk with bytes written on it is a disk. *)
LEMMA SpliceType ==
  ASSUME disk \in [GuestAddresses -> Bytes], NEW off \in Nat, NEW bs \in Seq(Bytes)
  PROVE  Splice(off, bs) \in [GuestAddresses -> Bytes]
<1>1. Len(bs) \in Nat /\ VirtualSize \in Nat
  BY LenProperties, ToolAssumption
<1>2. ASSUME NEW a \in GuestAddresses, a \in off .. off + Len(bs) - 1
      PROVE  bs[a - off + 1] \in Bytes
  <2>1. a - off + 1 \in 1 .. Len(bs)
    BY <1>1, <1>2 DEF GuestAddresses
  <2> QED
    BY <2>1, ElementOfSeq
<1> QED
  BY <1>2 DEF Splice

(* A file cut to a length, or grown to it with zeros. *)
LEMMA CutType ==
  ASSUME NEW f \in Seq(Bytes), NEW n \in Nat
  PROVE  Cut(f, n) \in Seq(Bytes) /\ Len(Cut(f, n)) = n
<1>1. Len(f) \in Nat /\ Zero \in Bytes
  BY LenProperties, OverlayAssumption
<1>2. ASSUME NEW i \in 1 .. n, i <= Len(f) PROVE f[i] \in Bytes
  <2>1. i \in 1 .. Len(f)
    BY <1>1, <1>2
  <2> QED
    BY <2>1, ElementOfSeq
<1>3. Cut(f, n) \in [1 .. n -> Bytes]
  BY <1>1, <1>2 DEF Cut
<1> QED
  BY <1>3, FunctionIsSeq

(* The types, the exit status, the cursor, and which verb does what. *)
LEMMA TypeStep ==
  ASSUME ToolInv, ToolNext \/ UNCHANGED <<vars, toolVars>>, ~Open
  PROVE  ToolTypeOK' /\ ArgHolds'
<1>1. arg' = arg /\ Offset' = Offset /\ Length' = Length /\ RangeOk' = RangeOk /\ Writing' = Writing
  BY ArgKept
<1>2. ToolTypeOK /\ ArgHolds
  BY DEF ToolInv
<1>3. /\ Offset \in Nat /\ Length \in Int /\ VirtualSize \in Nat /\ CHUNK \in Nat \ {0}
      /\ RangeOk => Length \in Nat /\ Offset + Length <= VirtualSize
  BY <1>2, RangeType
<1>4. CASE UNCHANGED <<vars, toolVars>>
  BY <1>1, <1>2, <1>4 DEF ToolTypeOK, ArgHolds, toolVars
<1>5. CASE OpenRefused \/ Get \/ NotImplemented \/ StreamEnd \/ WriteEnd
  <2>1. phase' = "ended" /\ exit' \in {0, 1, 2, 3} /\ left' = left /\ disk' = disk
    BY <1>5 DEF OpenRefused, Get, NotImplemented, StreamEnd, WriteEnd, writeVars, End
  <2> QED
    BY <1>1, <1>2, <2>1 DEF ToolTypeOK, ArgHolds, Phases, None
<1>6. CASE ReadStart
  <2>1. /\ phase = "opening" /\ arg.verb \in {"read", "readFile"} /\ at' = Offset
        /\ left' = left /\ disk' = disk
        /\ \/ phase' = "ended" /\ exit' = 1
           \/ /\ RangeOk /\ exit' = exit
              /\ \/ arg.verb = "read" /\ phase' = "stream"
                 \/ arg.verb = "readFile" /\ phase' \in {"copy", "abandon"}
    BY <1>6 DEF ReadStart, writeVars, End
  <2>2. RangeOk => Offset \in Offset .. Offset + Length
    BY <1>3
  <2> QED
    BY <1>1, <1>2, <2>1, <2>2 DEF ToolTypeOK, ArgHolds, Phases, None
<1>7. CASE StreamChunk
  <2>1. /\ phase = "stream" /\ at < Offset + Length /\ left' = left /\ disk' = disk
        /\ \/ at' = at + ChunkHere /\ UNCHANGED <<phase, exit>>
           \/ phase' = "ended" /\ exit' \in {0, 1, 3}
    BY <1>7 DEF StreamChunk, writeVars, End
  <2>2. at + ChunkHere \in Offset .. Offset + Length
    BY <1>2, <2>1, ChunkSize
  <2> QED
    BY <1>1, <1>2, <2>1, <2>2 DEF ToolTypeOK, ArgHolds, Phases, None
<1>8. CASE CopyChunk
  <2>1. /\ phase = "copy" /\ at < Offset + Length /\ left' = left /\ disk' = disk /\ exit' = exit
        /\ \/ at' = at + ChunkHere /\ UNCHANGED phase
           \/ phase' = "abandon"
    BY <1>8 DEF CopyChunk, writeVars
  <2>2. at + ChunkHere \in Offset .. Offset + Length
    BY <1>2, <2>1, ChunkSize
  <2> QED
    BY <1>1, <1>2, <2>1, <2>2 DEF ToolTypeOK, ArgHolds, Phases, None
<1>9. CASE FinishPartial
  <2>1. /\ phase = "copy" /\ exit' = exit /\ left' = left /\ disk' = disk
        /\ \/ partial' = Cut(partial, Length) /\ phase' = "sync"
           \/ phase' = "abandon"
    BY <1>9 DEF FinishPartial, SetPartialLen, writeVars
  <2>2. partial \in Seq(Bytes) /\ Length \in Nat
    BY <1>2, <1>3, <2>1 DEF ToolInv, FileHolds, ArgHolds
  <2>3. Len(Cut(partial, Length)) = Length
    BY <2>2, CutType
  <2> QED
    BY <1>1, <1>2, <2>1, <2>3 DEF ToolTypeOK, ArgHolds, Phases, None
<1>10. CASE SyncAll
  BY <1>1, <1>2, <1>10 DEF SyncAll, ToolTypeOK, ArgHolds, Phases, None, writeVars
<1>11. CASE Rename \/ Abandon
  <2>1. phase' = "ended" /\ exit' \in {0, 1, 3} /\ left' = left /\ disk' = disk
    BY <1>11 DEF Rename, Abandon, writeVars, End
  <2> QED
    BY <1>1, <1>2, <2>1 DEF ToolTypeOK, ArgHolds, Phases, None
<1>12. CASE LosePower
  BY <1>1, <1>2, <1>12 DEF LosePower, ToolTypeOK, ArgHolds, Phases, None, writeVars
<1>13. CASE WriteStart
  <2>1. /\ phase = "start" /\ Writing /\ disk' = disk
        /\ \/ phase' = "ended" /\ exit' \in {1, 3} /\ left' = left
           \/ phase' = "write" /\ exit' = exit /\ left' = InputLen /\ Offset <= VirtualSize
    BY <1>13 DEF WriteStart, Writing, End
  <2>2. Offset <= VirtualSize => InputLen \in Nat
    <3>1. Len(input) \in Nat /\ arg.skip \in Nat
      BY LenProperties DEF ToolInv, WriteHolds, ArgHolds
    <3> QED
      BY <1>3, <3>1 DEF InputLen, Room, Smaller
  <2> QED
    BY <1>1, <1>2, <2>1, <2>2 DEF ToolTypeOK, ArgHolds, Phases, None
<1>14. CASE InputChanges
  BY <1>1, <1>2, <1>14 DEF InputChanges, ToolTypeOK, ArgHolds, readVars
<1>15. CASE WriteChunk
  <2> DEFINE bs == SubSeq(input, Position + 1, Position + Take)
  <2>1. /\ Take \in Nat /\ Take <= left /\ left \in Nat /\ bs \in Seq(Bytes) /\ Len(bs) = Take
        /\ at \in Nat
    BY <1>15, TakenBytes
  <2>2. /\ phase = "write" /\ left' = left - Take
        /\ \/ /\ disk' = Splice(at, bs) /\ UNCHANGED <<phase, exit>>
           \/ /\ \E k \in 0 .. Take - 1 : disk' = Splice(at, SubSeq(bs, 1, k))
              /\ phase' = "ended" /\ exit' \in {1, 3}
    BY <1>15 DEF WriteChunk, End
  <2> HIDE DEF bs
  <2>3. ASSUME NEW k \in 0 .. Take - 1 PROVE SubSeq(bs, 1, k) \in Seq(Bytes)
    <3>1. k \in Nat /\ \A i \in 1 .. k : bs[i] \in Bytes
      BY <2>1, ElementOfSeq
    <3> QED
      BY <2>1, <3>1, SubSeqProperties
  <2>4. disk' \in [GuestAddresses -> Bytes]
    <3>1. disk \in [GuestAddresses -> Bytes]
      BY <1>2 DEF ToolTypeOK
    <3>2. CASE disk' = Splice(at, bs)
      BY <2>1, <3>1, <3>2, SpliceType
    <3>3. ASSUME NEW k \in 0 .. Take - 1, disk' = Splice(at, SubSeq(bs, 1, k))
          PROVE  disk' \in [GuestAddresses -> Bytes]
      <4>1. SubSeq(bs, 1, k) \in Seq(Bytes)
        BY <2>3
      <4> QED
        BY <2>1, <3>1, <3>3, <4>1, SpliceType
    <3> QED
      BY <2>2, <3>2, <3>3
  <2>5. left' \in Nat
    BY <2>1, <2>2
  <2> QED
    BY <1>1, <1>2, <2>2, <2>4, <2>5 DEF ToolTypeOK, ArgHolds, Phases, None
<1> QED
  BY <1>4, <1>5, <1>6, <1>7, <1>8, <1>9, <1>10, <1>11, <1>12, <1>13, <1>14, <1>15 DEF ToolNext

(* Bytes written at or past the end of a file, over a gap of zeros. *)
LEMMA PlacedBytes ==
  ASSUME NEW f \in Seq(Bytes), NEW pos \in Nat, Len(f) <= pos, NEW bs \in Seq(Bytes)
  PROVE  /\ Placed(f, pos, bs) \in Seq(Bytes) /\ Len(Placed(f, pos, bs)) = pos + Len(bs)
         /\ \A i \in 1 .. pos + Len(bs) :
              Placed(f, pos, bs)[i] = IF i > pos THEN bs[i - pos]
                                      ELSE IF i <= Len(f) THEN f[i] ELSE Zero
<1>1. Len(f) \in Nat /\ Len(bs) \in Nat /\ Zero \in Bytes
  BY LenProperties, OverlayAssumption
<1> DEFINE n == pos + Len(bs)
           g == [i \in 1 .. n |-> IF i \in pos + 1 .. pos + Len(bs) THEN bs[i - pos]
                                  ELSE IF i <= Len(f) THEN f[i] ELSE Zero]
<1>2. Placed(f, pos, bs) = g /\ n \in Nat
  <2>1. ~(Len(f) > pos + Len(bs))
    BY <1>1
  <2> QED
    BY <1>1, <2>1 DEF Placed
<1>3. ASSUME NEW i \in 1 .. n
      PROVE  /\ i \in pos + 1 .. pos + Len(bs) <=> i > pos
             /\ i > pos => bs[i - pos] \in Bytes
             /\ i <= Len(f) => f[i] \in Bytes
  <2>1. i > pos => i - pos \in 1 .. Len(bs)
    BY <1>1
  <2>2. i <= Len(f) => i \in 1 .. Len(f)
    BY <1>1
  <2>3. i \in pos + 1 .. pos + Len(bs) <=> i > pos
    BY <1>1
  <2> QED
    BY <2>1, <2>2, <2>3, ElementOfSeq
<1>4. g \in [1 .. n -> Bytes]
  BY <1>1, <1>3
<1>5. g \in Seq(Bytes) /\ Len(g) = n
  BY <1>2, <1>4, FunctionIsSeq
<1> QED
  BY <1>2, <1>3, <1>5

(* FILE and FILE.partial: the range is copied up to the cursor, its zeros  *)
(* skipped, cut to its length, synced and only then renamed.               *)
LEMMA FileStep ==
  ASSUME ToolInv, ToolNext \/ UNCHANGED <<vars, toolVars>>, ~Open
  PROVE  FileHolds'
<1>1. /\ arg' = arg /\ Offset' = Offset /\ Length' = Length /\ RangeOk' = RangeOk
      /\ View' = View /\ Wanted' = Wanted /\ FileHolds /\ ToolTypeOK /\ ArgHolds
  BY ArgKept, DeviceKept DEF ToolInv
<1>2. /\ Offset \in Nat /\ Length \in Int /\ VirtualSize \in Nat
      /\ RangeOk => Length \in Nat /\ Offset + Length <= VirtualSize
  BY <1>1, RangeType
<1>3. CASE ReadStart
  <2>1. CASE phase' = "copy"
    <3>1. partial' = << >> /\ at' = Offset /\ UNCHANGED <<dest, destMay>>
      BY <1>3, <2>1 DEF ReadStart, CreatePartial, End
    <3>2. partial' \in Seq(Bytes) /\ Len(partial') = 0 /\ at' - Offset = 0
      BY <1>2, <3>1, EmptySeq
    <3> QED
      BY <1>1, <1>2, <2>1, <3>1, <3>2 DEF FileHolds
  <2>2. CASE phase' # "copy"
    <3>1. /\ UNCHANGED <<partial, synced, dest, destMay>>
          /\ phase' \in {"ended", "stream", "abandon"} /\ (phase' = "ended" => exit' = 1)
      BY <1>3, <2>2 DEF ReadStart, End
    <3> QED
      BY <1>1, <3>1, FileKept
  <2> QED
    BY <2>1, <2>2
<1>4. CASE CopyChunk
  <2> DEFINE n == ChunkHere  res == call'.result  pos == at - Offset
  <2>1. phase = "copy" /\ at < Offset + Length /\ UNCHANGED <<synced, dest, destMay>>
    BY <1>4 DEF CopyChunk
  <2>2. /\ Offset \in Nat /\ Length \in Nat /\ at \in Nat /\ Offset <= at
        /\ n \in Nat /\ n >= 1 /\ at + n <= Offset + Length
    BY <1>1, <2>1, ChunkSize
  <2>3. CASE phase' = "abandon"
    BY <1>1, <2>1, <2>3 DEF FileHolds
  <2>4. CASE /\ ReadChunk(n) /\ at' = at + n /\ phase' = phase
             /\ partial' = IF AllZero(res) THEN partial ELSE Placed(partial, pos, res)
    <3>1. /\ partial \in Seq(Bytes) /\ Len(partial) <= pos /\ pos \in Nat /\ Len(partial) \in Nat
          /\ \A i \in 1 .. pos :
               View[Offset + i - 1] = IF i <= Len(partial) THEN partial[i] ELSE Zero
      <4>1. /\ partial \in Seq(Bytes) /\ Len(partial) <= pos
            /\ \A i \in 1 .. pos :
                 View[Offset + i - 1] = IF i <= Len(partial) THEN partial[i] ELSE Zero
        BY <1>1, <2>1 DEF FileHolds
      <4>2. pos \in Nat
        BY <2>2
      <4> HIDE DEF pos
      <4> QED
        BY <4>1, <4>2, LenProperties
    <3>2. res \in Seq(Bytes) /\ Len(res) = n /\ \A i \in 1 .. n : res[i] = View[at + i - 1]
      BY <2>2, <2>4, ChunkRead DEF ToolInv
    <3> HIDE DEF n, res, pos
    <3>3. at' - Offset = pos + n
      BY <2>2, <2>4 DEF pos
    <3>4. ASSUME NEW i \in 1 .. pos + n, i > pos
          PROVE  i - pos \in 1 .. n /\ View[Offset + i - 1] = res[i - pos]
      <4>1. i - pos \in 1 .. n /\ at + (i - pos) - 1 = Offset + i - 1
        BY <2>2, <3>1, <3>4 DEF pos
      <4> QED
        BY <3>2, <4>1
    <3>5. /\ partial' \in Seq(Bytes) /\ Len(partial') <= pos + n
          /\ \A i \in 1 .. pos + n :
               View[Offset + i - 1] = IF i <= Len(partial') THEN partial'[i] ELSE Zero
      <4>1. CASE AllZero(res)
        <5>1. partial' = partial /\ DOMAIN res = 1 .. n
          BY <2>4, <3>2, <4>1, LenProperties
        <5>2. \A i \in 1 .. n : res[i] = Zero
          BY <4>1, <5>1 DEF AllZero
        <5>3. Len(partial) <= pos + n
          BY <2>2, <3>1
        <5>4. ASSUME NEW i \in 1 .. pos + n
              PROVE  View[Offset + i - 1] = IF i <= Len(partial) THEN partial[i] ELSE Zero
          <6>1. CASE i > pos
            <7>1. ~(i <= Len(partial)) 
              BY <3>1, <6>1
            <7> QED
              BY <3>4, <5>2, <6>1, <7>1
          <6>2. CASE ~(i > pos)
            <7>1. i \in 1 .. pos
              BY <2>2, <3>1, <6>2
            <7> QED
              BY <3>1, <7>1
          <6> QED
            BY <6>1, <6>2
        <5> QED
          BY <3>1, <5>1, <5>3, <5>4
      <4>2. CASE ~AllZero(res)
        <5>1. partial' = Placed(partial, pos, res)
          BY <2>4, <4>2
        <5>2. /\ partial' \in Seq(Bytes) /\ Len(partial') = pos + n
              /\ \A i \in 1 .. pos + n :
                   partial'[i] = IF i > pos THEN res[i - pos]
                                 ELSE IF i <= Len(partial) THEN partial[i] ELSE Zero
          BY <3>1, <3>2, <5>1, PlacedBytes
        <5>3. ASSUME NEW i \in 1 .. pos + n
              PROVE  i <= Len(partial') /\ View[Offset + i - 1] = partial'[i]
          <6>1. i <= Len(partial')
            BY <5>2, <3>1, <2>2
          <6>2. CASE i > pos
            BY <3>4, <5>2, <6>1, <6>2
          <6>3. CASE ~(i > pos)
            <7>1. i \in 1 .. pos
              BY <2>2, <3>1, <6>3
            <7> QED
              BY <3>1, <5>2, <6>1, <6>3, <7>1
          <6> QED
            BY <6>2, <6>3
        <5> QED
          BY <2>2, <3>1, <5>2, <5>3
      <4> QED
        BY <4>1, <4>2
    <3> QED
      BY <1>1, <2>1, <2>4, <3>3, <3>5 DEF FileHolds
  <2> QED
    BY <1>4, <2>3, <2>4 DEF CopyChunk
<1>5. CASE FinishPartial
  <2>1. /\ phase = "copy" /\ at >= Offset + Length /\ UNCHANGED <<synced, dest, destMay>>
        /\ \/ partial' = Cut(partial, Length) /\ phase' = "sync"
           \/ phase' = "abandon"
    BY <1>5 DEF FinishPartial, SetPartialLen
  <2>2. Length \in Nat /\ at = Offset + Length
    BY <1>1, <1>2, <2>1 DEF ToolTypeOK, ArgHolds
  <2>3. Length = at - Offset
    BY <1>2, <2>2
  <2>4. Cut(partial, Length) = Wanted
    BY <1>1, <2>1, <2>3 DEF Cut, Wanted, FileHolds
  <2> QED
    BY <1>1, <2>1, <2>4 DEF FileHolds
<1>6. CASE SyncAll
  BY <1>1, <1>6 DEF SyncAll, FileHolds
<1>7. CASE Rename
  <2>1. phase = "rename" /\ partial = Wanted /\ synced /\ RangeOk
    BY <1>1, <1>7 DEF Rename, FileHolds, ArgHolds
  <2>2. /\ phase' = "ended"
        /\ \/ dest' = Wanted /\ destMay' = destMay \cup {Wanted}
           \/ UNCHANGED <<dest, destMay>> /\ exit' = 1
    BY <1>7, <2>1 DEF Rename, End
  <2> QED
    BY <1>1, <2>1, <2>2 DEF FileHolds
<1>8. CASE Abandon
  <2>1. phase' = "ended" /\ exit' \in {1, 3} /\ UNCHANGED <<dest, destMay>>
    BY <1>8 DEF Abandon, End
  <2> QED
    BY <1>1, <2>1 DEF FileHolds
<1>9. CASE LosePower
  <2>1. phase' = "lost" /\ dest' \in destMay /\ destMay' = {dest'}
    BY <1>9 DEF LosePower
  <2> QED
    BY <1>1, <2>1 DEF FileHolds
<1>10. CASE ~(ReadStart \/ CopyChunk \/ FinishPartial \/ SyncAll \/ Rename \/ Abandon \/ LosePower)
  <2>1. UNCHANGED <<partial, synced, dest, destMay>>
    BY <1>10 DEF ToolNext, toolVars, readVars, OpenRefused, Get, NotImplemented, StreamChunk,
       StreamEnd, WriteStart, InputChanges, WriteChunk, WriteEnd
  <2>2. /\ phase' \in {"start", "opening"} => phase \in {"start", "opening"}
        /\ phase' = "copy" => phase = "copy" /\ at' = at
        /\ phase' \in {"sync", "rename"} => phase' = phase
    BY <1>10 DEF ToolNext, toolVars, OpenRefused, Get, NotImplemented, StreamChunk,
       StreamEnd, WriteStart, InputChanges, WriteChunk, WriteEnd, End
  <2>3. arg.verb = "readFile" /\ phase' = "ended" => exit' # 0 \/ (phase = "ended" /\ exit' = exit)
    BY <1>1, <1>10 DEF ToolNext, toolVars, OpenRefused, Get, NotImplemented, StreamChunk,
       StreamEnd, WriteStart, InputChanges, WriteChunk, WriteEnd, End, ArgHolds, Writing
  <2> QED
    BY <1>1, <2>1, <2>2, <2>3, FileKept
<1> QED
  BY <1>3, <1>4, <1>5, <1>6, <1>7, <1>8, <1>9, <1>10

(* The greatest of the sequence numbers of the valid headers is none of    *)
(* them only if there is none.                                             *)
LEMMA BestIsGreatest ==
  ASSUME base \in Seq(Bytes), baseLen = Len(base)
  PROVE  \A o \in {HEADER1, HEADER2} :
           o < baseLen => base[o + 1] <= FileHeader \/ base[o + 1] = Zero
<1> DEFINE there == {x \in {HEADER1, HEADER2} : x < baseLen /\ base[x + 1] # Zero}
           seqs == {base[o + 1] : o \in there}
<1>1. FileHeader = IF seqs = {} THEN None ELSE CHOOSE n \in seqs : \A k \in seqs : k <= n
  BY DEF FileHeader, Best
<1>2. ASSUME NEW o \in there PROVE base[o + 1] \in Nat
  <2>1. o \in Nat /\ Len(base) \in Nat /\ o < Len(base)
    BY ToolAssumption, LenProperties
  <2>2. o + 1 \in 1 .. Len(base)
    BY <2>1
  <2> QED
    BY <2>2, ElementOfSeq, ToolAssumption
<1>3. seqs # {} => \E n \in seqs : \A k \in seqs : k <= n
  <2> SUFFICES ASSUME seqs # {} PROVE \E n \in seqs : \A k \in seqs : k <= n
    OBVIOUS
  <2>1. CASE HEADER1 \in there /\ HEADER2 \in there
    <3> DEFINE p == base[HEADER1 + 1]  q == base[HEADER2 + 1]
    <3>1. p \in Nat /\ q \in Nat
      BY <1>2, <2>1
    <3>2. p \in seqs /\ q \in seqs /\ \A k \in seqs : k = p \/ k = q
      BY <2>1
    <3> HIDE DEF p, q, seqs
    <3> QED
      BY <3>1, <3>2
  <2>2. CASE ~(HEADER1 \in there /\ HEADER2 \in there)
    <3>1. PICK n \in seqs : TRUE
      OBVIOUS
    <3>2. n \in Nat /\ \A k \in seqs : k = n
      BY <1>2, <2>2
    <3> HIDE DEF seqs
    <3> QED
      BY <3>1, <3>2
  <2> QED
    BY <2>1, <2>2
<1>4. \A k \in seqs : k <= FileHeader
  <2> HIDE DEF seqs
  <2> QED
    BY <1>1, <1>3
<1> QED
  BY <1>4

(* The report: only `info` says what the file is, from the file. *)
LEMMA ReportStep ==
  ASSUME ToolInv, ToolNext \/ UNCHANGED <<vars, toolVars>>, ~Open
  PROVE  ReportHolds'
<1>1. /\ arg' = arg /\ View' = View /\ UNCHANGED <<base, baseLen, len, written>>
      /\ ReportHolds /\ ArgHolds /\ base \in Seq(Bytes) /\ baseLen = Len(base)
  BY ArgKept, DeviceKept DEF ToolInv, OverlayInv
<1>2. CASE Get
  <2>1. CASE report' = report
    <3>1. phase' = "ended"
      BY <1>2 DEF Get, End
    <3> QED
      BY <1>1, <2>1, <3>1, ReportKept
  <2>2. CASE report' = [dirty |-> written, header |-> FileHeader]
    <3>1. phase = "opening" /\ phase' = "ended"
      BY <1>2 DEF Get, End
    <3>2. ~written => len = baseLen /\ \A a \in 0 .. baseLen - 1 : View[a] = base[a + 1]
      BY <1>1, <3>1 DEF ReportHolds
    <3>3. \A o \in {HEADER1, HEADER2} :
            o < baseLen => base[o + 1] <= FileHeader \/ base[o + 1] = Zero
      BY <1>1, BestIsGreatest
    <3>4. report'.dirty = written /\ report'.header = FileHeader
      BY <2>2
    <3>5. ReportIsOfTheFile'
      BY <1>1, <3>2, <3>3, <3>4 DEF ReportIsOfTheFile
    <3> QED
      BY <3>1, <3>5 DEF ReportHolds
  <2> QED
    BY <1>2, <2>1, <2>2 DEF Get
<1>3. CASE ~Get
  <2>1. report' = report \/ arg.verb # "info"
    BY <1>1, <1>3 DEF ToolNext, toolVars, OpenRefused, NotImplemented, ReadStart, StreamChunk,
       StreamEnd, CopyChunk, FinishPartial, SyncAll, Rename, Abandon, LosePower, WriteStart,
       InputChanges, WriteChunk, WriteEnd, ArgHolds, Writing
  <2>2. phase' \in {"start", "opening"} => report' = report /\ phase' = phase
    BY <1>3 DEF ToolNext, toolVars, OpenRefused, NotImplemented, ReadStart, StreamChunk,
       StreamEnd, CopyChunk, FinishPartial, SyncAll, Rename, Abandon, LosePower, WriteStart,
       InputChanges, WriteChunk, WriteEnd, End
  <2> QED
    BY <1>1, <2>1, <2>2, ReportKept
<1> QED
  BY <1>2, <1>3

(* A chunk of stdin on the guest disk, all of it or a part. *)
LEMMA SpliceHolds ==
  ASSUME ToolInv, WriteChunk, NEW k \in 0 .. Take,
         disk' = Splice(at, SubSeq(SubSeq(input, Position + 1, Position + Take), 1, k))
  PROVE  DiskHolds(disk', took', Len(took) + k)
<1> DEFINE n == Take  bs == SubSeq(input, Position + 1, Position + n)
           part == SubSeq(bs, 1, k)  t == Len(took)
<1>1. /\ n \in Nat /\ bs \in Seq(Bytes) /\ Len(bs) = n /\ at \in Nat /\ VirtualSize \in Nat
      /\ k \in Nat /\ k <= n
  BY TakenBytes
<1>2. /\ phase = "write" /\ took \in Seq(Bytes) /\ at = Offset + t /\ DiskHolds(disk, took, t)
      /\ took' = took \o bs /\ Offset \in Nat
  BY RangeType DEF WriteChunk, ToolInv, WriteHolds
<1>3. disk' = Splice(at, part)
  OBVIOUS
<1> HIDE DEF bs, n
<1>4. part \in Seq(Bytes) /\ Len(part) = k /\ \A i \in 1 .. k : part[i] = bs[i]
  <2>1. \A i \in 1 .. k : bs[i] \in Bytes
    BY <1>1, ElementOfSeq
  <2>2. /\ part \in Seq(Bytes) /\ Len(part) = IF 1 <= k THEN k - 1 + 1 ELSE 0
        /\ \A i \in 1 .. k - 1 + 1 : part[i] = bs[1 + i - 1]
    BY <1>1, <2>1, SubSeqProperties
  <2> HIDE DEF part
  <2> QED
    BY <1>1, <2>2
<1>5. /\ Len(took') = t + n /\ t \in Nat
      /\ \A i \in 1 .. t + n : took'[i] = IF i <= t THEN took[i] ELSE bs[i - t]
  BY <1>1, <1>2, ConcatProperties, LenProperties
<1> HIDE DEF part, t
<1>6. at \in Nat /\ Offset \in Nat /\ t \in Nat /\ k \in Nat /\ n \in Nat /\ k <= n /\ at = Offset + t
  BY <1>1, <1>2, <1>5
<1>7. ASSUME NEW a \in GuestAddresses
      PROVE  disk'[a] = IF a \in Offset .. Offset + (t + k) - 1 THEN took'[a - Offset + 1]
                        ELSE OldDisk[a]
  <2>1. a \in Nat
    BY <1>1 DEF GuestAddresses
  <2>2. disk'[a] = IF a \in at .. at + k - 1 THEN part[a - at + 1] ELSE disk[a]
    BY <1>3, <1>4 DEF Splice
  <2>3. disk[a] = IF a \in Offset .. Offset + t - 1 THEN took[a - Offset + 1] ELSE OldDisk[a]
    BY <1>2 DEF DiskHolds
  <2>4. CASE a \in at .. at + k - 1
    <3>1. /\ a - at + 1 \in 1 .. k /\ a - Offset + 1 \in 1 .. t + n /\ ~(a - Offset + 1 <= t)
          /\ (a - Offset + 1) - t = a - at + 1 /\ a \in Offset .. Offset + (t + k) - 1
      BY <1>6, <2>1, <2>4
    <3> QED
      BY <1>4, <1>5, <2>2, <2>4, <3>1
  <2>5. CASE a \notin at .. at + k - 1 /\ a \in Offset .. Offset + t - 1
    <3>1. /\ a - Offset + 1 \in 1 .. t + n /\ a - Offset + 1 <= t
          /\ a \in Offset .. Offset + (t + k) - 1
      BY <1>6, <2>1, <2>5
    <3> QED
      BY <1>5, <2>2, <2>3, <2>5, <3>1
  <2>6. CASE a \notin at .. at + k - 1 /\ a \notin Offset .. Offset + t - 1
    <3>1. a \notin Offset .. Offset + (t + k) - 1
      BY <1>6, <2>1, <2>6
    <3> QED
      BY <2>2, <2>3, <2>6, <3>1
  <2> QED
    BY <2>4, <2>5, <2>6
<1> QED
  BY <1>7 DEF DiskHolds, t

(* The guest disk: only `write` writes it, from its offset on. *)
LEMMA WriteStep ==
  ASSUME ToolInv, ToolNext \/ UNCHANGED <<vars, toolVars>>, ~Open
  PROVE  WriteHolds'
<1>1. /\ arg' = arg /\ Offset' = Offset /\ WriteHolds /\ ToolTypeOK /\ ArgHolds
      /\ Offset \in Nat /\ VirtualSize \in Nat
  BY ArgKept, RangeType DEF ToolInv
<1>2. CASE WriteStart
  <2>1. /\ phase = "start" /\ Writing /\ at' = Offset /\ UNCHANGED <<input, took, disk, report>>
        /\ \/ phase' = "ended" /\ exit' \in {1, 3}
           \/ phase' = "write" /\ exit' = exit /\ left' = InputLen /\ InputLen <= Room
    BY <1>2 DEF WriteStart, Writing, End
  <2>2. took = << >> /\ disk = OldDisk /\ exit = None /\ Len(took) = 0
    BY <1>1, <2>1, EmptySeq DEF WriteHolds, ToolTypeOK
  <2>3. WriteIsExact'
    BY <1>1, <2>1, <2>2 DEF WriteHolds, WriteIsExact, None
  <2>4. phase' = "write" => /\ at' + left' <= VirtualSize /\ at' = Offset' + Len(took')
                            /\ DiskHolds(disk, took, Len(took))'
    <3>1. InputLen <= Room /\ left' = InputLen => at' + left' <= VirtualSize
      <4>1. Len(input) \in Nat /\ arg.skip \in Nat
        BY <1>1, LenProperties DEF WriteHolds, ArgHolds
      <4>2. InputLen \in Int
        BY <1>1, <4>1 DEF InputLen, Room, Smaller
      <4> QED
        BY <1>1, <2>1, <4>2 DEF Room
    <3>2. at' = Offset' + Len(took')
      BY <1>1, <2>1, <2>2
    <3>3. \A a \in GuestAddresses :
            disk'[a] = IF a \in Offset .. Offset + Len(took') - 1 THEN took'[a - Offset + 1]
                       ELSE OldDisk[a]
      <4>1. Offset .. Offset + Len(took') - 1 = {}
        BY <1>1, <2>1, <2>2
      <4> QED
        BY <2>1, <2>2, <4>1
    <3> QED
      BY <1>1, <2>1, <3>1, <3>2, <3>3 DEF DiskHolds
  <2> QED
    BY <1>1, <2>1, <2>2, <2>3, <2>4 DEF WriteHolds
<1>3. CASE InputChanges
  <2>1. input' \in Seq(Bytes)
    BY <1>3, ToolAssumption DEF InputChanges
  <2> QED
    BY <1>1, <1>3, <2>1 DEF InputChanges, WriteHolds, WriteIsExact, DiskHolds
<1>4. CASE WriteChunk
  <2> DEFINE n == Take  bs == SubSeq(input, Position + 1, Position + n)  t == Len(took)
  <2>1. /\ n \in Nat /\ n <= left /\ left \in Nat /\ bs \in Seq(Bytes) /\ Len(bs) = n
        /\ at \in Nat /\ at + n <= VirtualSize
    BY <1>4, TakenBytes
  <2>2. /\ phase = "write" /\ took' = took \o bs /\ left' = left - n /\ UNCHANGED <<input, report>>
        /\ \/ disk' = Splice(at, bs) /\ at' = at + n /\ UNCHANGED <<phase, exit>>
           \/ /\ \E k \in 0 .. n - 1 : disk' = Splice(at, SubSeq(bs, 1, k))
              /\ phase' = "ended" /\ exit' \in {1, 3}
    BY <1>4 DEF WriteChunk, End
  <2>3. /\ took \in Seq(Bytes) /\ input \in Seq(Bytes) /\ at = Offset + t /\ exit = None
        /\ at + left <= VirtualSize
    BY <1>1, <2>2 DEF WriteHolds, ToolTypeOK
  <2>4. took' \in Seq(Bytes) /\ Len(took') = t + n /\ t \in Nat
    BY <2>1, <2>2, <2>3, ConcatProperties, LenProperties
  <2>5. Offset' + Len(took') <= VirtualSize
    BY <1>1, <2>1, <2>3, <2>4
  <2>6. SubSeq(bs, 1, n) = bs
    BY <2>1, SubSeqFull
  <2>7. ASSUME NEW k \in 0 .. n, disk' = Splice(at, SubSeq(bs, 1, k)), exit' # 0
        PROVE  DiskHolds(disk', took', t + k) /\ WriteIsExact'
    <3>1. DiskHolds(disk', took', t + k)
      BY <1>4, <2>7, SpliceHolds
    <3> HIDE DEF t, n, bs
    <3>2. t + k \in 0 .. Len(took')
      BY <2>1, <2>4
    <3>3. WriteIsExact'
      <4>1. \A a \in GuestAddresses :
              disk'[a] = IF a \in Offset' .. Offset' + (t + k) - 1 THEN took'[a - Offset' + 1]
                         ELSE OldDisk[a]
        BY <1>1, <3>1 DEF DiskHolds
      <4> HIDE <3>1
      <4> QED
        BY <2>5, <2>7, <3>2, <4>1 DEF WriteIsExact
    <3> QED
      BY <3>1, <3>3
  <2> HIDE DEF t, n, bs
  <2>8. CASE disk' = Splice(at, bs) /\ at' = at + n /\ UNCHANGED <<phase, exit>>
    <3>1. DiskHolds(disk', took', t + n) /\ WriteIsExact'
      <4>1. n \in 0 .. n
        BY <2>1
      <4>2. disk' = Splice(at, SubSeq(bs, 1, n))
        BY <2>6, <2>8
      <4>3. exit' # 0
        BY <2>3, <2>8 DEF None
      <4> QED
        BY <2>7, <4>1, <4>2, <4>3
    <3>2. at' \in Nat /\ at' + left' <= VirtualSize /\ at' = Offset' + Len(took')
      BY <1>1, <2>1, <2>2, <2>3, <2>4, <2>8
    <3>3. DiskHolds(disk, took, Len(took))'
      BY <1>1, <2>4, <3>1 DEF DiskHolds
    <3> QED
      BY <2>2, <2>3, <2>4, <2>8, <3>1, <3>2, <3>3 DEF WriteHolds
  <2>9. CASE /\ \E k \in 0 .. n - 1 : disk' = Splice(at, SubSeq(bs, 1, k))
             /\ phase' = "ended" /\ exit' \in {1, 3}
    <3>1. PICK k \in 0 .. n - 1 : disk' = Splice(at, SubSeq(bs, 1, k))
      BY <2>9
    <3>2. k \in 0 .. n
      BY <2>1
    <3>3. WriteIsExact'
      BY <2>7, <2>9, <3>1, <3>2
    <3> QED
      BY <2>2, <2>3, <2>4, <2>9, <3>3 DEF WriteHolds
  <2> QED
    BY <2>2, <2>8, <2>9
<1>5. CASE WriteEnd
  <2>1. /\ phase = "write" /\ phase' = "ended" /\ UNCHANGED <<input, took, disk>>
        /\ \/ report' = [bytes |-> at - Offset] /\ exit' = 0
           \/ report' = report /\ exit' = 1
    BY <1>5 DEF WriteEnd, writeVars, End
  <2>2. /\ at = Offset + Len(took) /\ DiskHolds(disk, took, Len(took)) /\ Len(took) \in Nat /\ WriteIsExact
        /\ took \in Seq(Bytes)
    BY <1>1, <2>1, LenProperties DEF WriteHolds
  <2>3. at - Offset = Len(took) /\ Len(took) \in 0 .. Len(took)
    BY <1>1, <2>2
  <2>4. exit' = 0 => report'.bytes = Len(took)
    <3>1. ASSUME report' = [bytes |-> at - Offset] PROVE report'.bytes = at - Offset
      BY <3>1, Zenon
    <3>2. exit' = 1 => exit' # 0
      OBVIOUS
    <3> QED
      BY <2>1, <2>3, <3>1, <3>2, Zenon
  <2>5. WriteIsExact'
    <3> SUFFICES ASSUME arg.verb \in {"write", "writeFile"} PROVE WriteIsExact'
      BY <1>1 DEF WriteIsExact
    <3>1. took' = took /\ disk' = disk /\ Offset' = Offset /\ OldDisk' = OldDisk
      BY <1>1, <2>1
    <3>2. Offset + Len(took) <= VirtualSize \/ took = << >>
      BY <2>2, Zenon DEF WriteIsExact
    <3>3. DiskHolds(disk, took, Len(took))'
      BY <2>2, <3>1 DEF DiskHolds
    <3> QED
      BY <2>3, <2>4, <3>1, <3>2, <3>3 DEF WriteIsExact, DiskHolds
  <2> QED
    BY <1>1, <2>1, <2>5 DEF WriteHolds
<1>6. CASE ~(WriteStart \/ InputChanges \/ WriteChunk \/ WriteEnd)
  <2>1. /\ UNCHANGED writeVars
        /\ phase' = "start" => phase = "start"
        /\ phase' = "write" => phase = "write" /\ at' = at
    BY <1>6 DEF ToolNext, toolVars, writeVars, OpenRefused, Get, NotImplemented, ReadStart,
       StreamChunk, StreamEnd, CopyChunk, FinishPartial, SyncAll, Rename, Abandon, LosePower, End
  <2>2. Writing => UNCHANGED <<report, exit>> \/ exit' # 0
    BY <1>1, <1>6 DEF ToolNext, toolVars, Writing, ArgHolds, OpenRefused, Get, NotImplemented,
       ReadStart, StreamChunk, StreamEnd, CopyChunk, FinishPartial, SyncAll, Rename, Abandon,
       LosePower, End
  <2> QED
    BY <1>1, <2>1, <2>2, WriteKept
<1> QED
  BY <1>2, <1>3, <1>4, <1>5, <1>6

(* A run starts with the image as it is and nothing done. *)
LEMMA ToolStarts == ToolInit => ToolInv
<1> SUFFICES ASSUME ToolInit PROVE ToolInv
  OBVIOUS
<1>1. OverlayInv
  BY OverlayInit DEF ToolInit
<1>2. PICK v \in Verbs, r \in Ranges, s \in BOOLEAN, k \in 0 .. 1 :
        /\ v \in {"write", "writeFile"} => r[1] # None /\ r[2] = None
        /\ arg = [verb |-> v, offset |-> r[1], length |-> r[2], same |-> s, skip |-> k]
        /\ phase = IF v \in {"info", "read", "readFile"} THEN "opening" ELSE "start"
        /\ input \in IF v \in {"write", "writeFile"} THEN Inputs ELSE {<< >>}
  BY DEF ToolInit
<1>3. /\ at = 0 /\ stdout = << >> /\ dest = OldFile /\ destMay = {OldFile} /\ left = 0
      /\ took = << >> /\ disk = OldDisk /\ report = NoReport /\ exit = None
  BY DEF ToolInit
<1>4. /\ arg.verb = v /\ arg.offset = r[1] /\ arg.length = r[2] /\ arg.skip \in Nat
      /\ v \in {"info", "read", "readFile", "write", "writeFile", "create"}
      /\ r[1] \in Nat \cup {None} /\ r[2] \in Nat \cup {None}
  BY <1>2, ToolAssumption
<1>5. ArgHolds
  BY <1>2, <1>4 DEF ArgHolds, Writing
<1>6. ToolTypeOK
  BY <1>2, <1>3, ToolAssumption DEF ToolTypeOK, Phases, None
<1>7. StreamHolds
  <2>1. stdout \in Seq(Bytes) /\ Len(stdout) = 0
    BY <1>3, EmptySeq
  <2> QED
    BY <1>2, <1>3, <2>1 DEF StreamHolds, Follows
<1>8. FileHolds
  BY <1>2, <1>3 DEF FileHolds
<1>9. ReportHolds
  <2>1. len = baseLen /\ baseLen \in Nat /\ baseLen <= Capacity
    BY <1>1 DEF ToolInit, Init, OverlayInv
  <2>2. ASSUME NEW a \in 0 .. baseLen - 1 PROVE View[a] = base[a + 1]
    <3>1. a \in Addresses /\ a < len /\ a < baseLen
      BY <2>1, CapacityType DEF Addresses
    <3>2. IndexOf(a) \in Indexes
      BY <3>1, PageOf
    <3>3. pages[IndexOf(a)] = NoPage
      BY <3>2 DEF ToolInit, Init
    <3> QED
      BY <1>1, <3>1, <3>3, ViewType DEF ByteAt, ReadBase
  <2> QED
    BY <1>3, <2>1, <2>2 DEF ReportHolds, ReportIsOfTheFile
<1>10. WriteHolds
  <2>1. took \in Seq(Bytes) /\ input \in Seq(Bytes) /\ Len(took) = 0
    BY <1>2, <1>3, EmptySeq, ToolAssumption
  <2>2. Offset \in Nat
    BY <1>5, RangeType
  <2>3. Offset .. Offset + 0 - 1 = {} /\ 0 \in 0 .. Len(took)
    BY <2>1, <2>2
  <2>4. WriteIsExact
    BY <1>3, <2>3 DEF WriteIsExact, None
  <2> QED
    BY <1>2, <1>3, <2>1, <2>4 DEF WriteHolds
<1> QED
  BY <1>1, <1>5, <1>6, <1>7, <1>8, <1>9, <1>10 DEF ToolInv

(* The inductive invariant of a run. *)
THEOREM ToolInvariant == ToolSpec => []ToolInv
<1>1. ToolInit => ToolInv
  BY ToolStarts
<1>2. ToolInv /\ [ToolNext]_<<vars, toolVars>> => ToolInv'
  <2> SUFFICES ASSUME ToolInv, [ToolNext]_<<vars, toolVars>> PROVE ToolInv'
    OBVIOUS
  <2>1. CASE Open
    BY <2>1, OpenTool
  <2>2. CASE ~Open
    <3>1. OverlayInv'
      BY <2>2, DeviceKept DEF ToolInv
    <3> QED
      BY <2>2, <3>1, TypeStep, StreamStep, FileStep, ReportStep, WriteStep DEF ToolInv
  <2> QED
    BY <2>1, <2>2
<1> QED
  BY <1>1, <1>2, PTL DEF ToolSpec

(* The types: in particular a run has an exit status exactly when it has   *)
(* ended, its cursor is in the range, and what is left of stdin is no      *)
(* negative number.                                                        *)
THEOREM ToolTypeCorrect == ToolSpec => []ToolTypeOK
<1>1. ToolInv => ToolTypeOK
  BY DEF ToolInv
<1> QED
  BY <1>1, ToolInvariant, PTL

(* `read` never puts anything on stdout but the beginning of the range,    *)
(* whatever fails: any chunk, any range, any image.                        *)
THEOREM StreamIsPrefixAlways == ToolSpec => []StreamIsPrefix
<1>1. ToolInv => StreamIsPrefix
  <2> SUFFICES ASSUME ToolInv, stdout # << >>
               PROVE  /\ RangeOk /\ Len(stdout) <= Length
                      /\ stdout = SubSeq(Wanted, 1, Len(stdout))
    BY DEF StreamIsPrefix
  <2> DEFINE z == Len(stdout)  S == {Wanted[i] : i \in 1 .. Length}
  <2>1. /\ RangeOk /\ z <= Length /\ stdout \in Seq(Bytes)
        /\ \A i \in 1 .. z : View[Offset + i - 1] = stdout[i]
    BY DEF ToolInv, StreamHolds, Follows
  <2>2. Length \in Nat /\ z \in Nat
    BY <2>1, RangeType, LenProperties DEF ToolInv
  <2>3. DOMAIN Wanted = 1 .. Length /\ Wanted \in [1 .. Length -> S]
    BY DEF Wanted
  <2>4. Wanted \in Seq(S) /\ Len(Wanted) = Length
    BY <2>2, <2>3, FunctionIsSeq
  <2>5. \A i \in 1 .. z : i \in 1 .. Length /\ Wanted[i] = stdout[i] /\ Wanted[i] \in S
    BY <2>1, <2>2 DEF Wanted
  <2> DEFINE sub == SubSeq(Wanted, 1, z)
  <2> HIDE DEF z, S
  <2>6. /\ sub \in Seq(S) /\ Len(sub) = IF 1 <= z THEN z - 1 + 1 ELSE 0
        /\ \A i \in 1 .. z - 1 + 1 : sub[i] = Wanted[1 + i - 1]
    BY <2>2, <2>4, <2>5, SubSeqProperties
  <2> HIDE DEF sub
  <2>7. Len(sub) = z /\ \A i \in 1 .. z : sub[i] = stdout[i]
    BY <2>2, <2>5, <2>6
  <2>8. stdout = sub
    BY <2>1, <2>6, <2>7, SeqEqual DEF z
  <2> QED
    BY <2>1, <2>8 DEF z, sub
<1> QED
  BY <1>1, ToolInvariant, PTL

(* FILE is never left half written, whatever fails and whenever power is   *)
(* lost: the sync before the rename, and the length set before the sync.   *)
THEOREM OutputIsWholeAlways == ToolSpec => []OutputIsWhole
<1>1. ToolInv => OutputIsWhole
  BY DEF ToolInv, FileHolds, OutputIsWhole
<1> QED
  BY <1>1, ToolInvariant, PTL

(* What `info` reports is of the file, not of what a replay made of it,    *)
(* and it says `dirty` whenever the two differ.                            *)
THEOREM ReportIsOfTheFileAlways == ToolSpec => []ReportIsOfTheFile
<1>1. ToolInv => ReportIsOfTheFile
  BY DEF ToolInv, ReportHolds
<1> QED
  BY <1>1, ToolInvariant, PTL

(* `write` writes what it took from stdin at its offset, or the beginning  *)
(* of it, and never past the end, even if the file on stdin changes.       *)
THEOREM WriteIsExactAlways == ToolSpec => []WriteIsExact
<1>1. ToolInv => WriteIsExact
  BY DEF ToolInv, WriteHolds
<1> QED
  BY <1>1, ToolInvariant, PTL

(* A whole run of a read-only verb uses the overlay as a flat device: its  *)
(* reads, too, are calls of one, as long as the guest disk is no larger    *)
(* than the device may become.                                             *)
THEOREM ToolIsFlat ==
  ASSUME VirtualSize <= Capacity
  PROVE  ToolSpec => ImplementsFlatDevice
<1>1. ToolInit => Flat!Init
  BY OverlayInit DEF ToolInit
<1>2. ToolInv /\ [ToolNext]_<<vars, toolVars>> => [Flat!Next]_<<View, len, written, call>>
  <2> SUFFICES ASSUME ToolInv, [ToolNext]_<<vars, toolVars>>
               PROVE  [Flat!Next]_<<View, len, written, call>>
    OBVIOUS
  <2>1. CASE Open
    BY <2>1, OverlayStep DEF Open, ToolInv
  <2>2. CASE StreamChunk \/ CopyChunk
    <3> DEFINE n == ChunkHere
    <3>1. phase \in {"stream", "copy"} /\ at < Offset + Length /\ (ReadChunk(n) \/ ReadChunkFails(n))
      BY <2>2 DEF StreamChunk, CopyChunk
    <3>2. /\ Offset \in Nat /\ Length \in Nat /\ at \in Nat /\ n \in Nat
          /\ at + n <= Offset + Length
      BY <3>1, ChunkSize DEF ToolInv
    <3>3. Offset + Length <= VirtualSize /\ VirtualSize \in Nat
      BY <3>1, RangeType DEF ToolInv, ArgHolds
    <3> HIDE DEF n
    <3>4. at \in Addresses /\ n \in 0 .. Capacity
      BY <3>1, <3>2, <3>3, CapacityType DEF Addresses
    <3>5. Next
      BY <3>1, <3>4 DEF ReadChunk, ReadChunkFails, Next
    <3> QED
      BY <3>5, OverlayStep DEF ToolInv
  <2>3. CASE ~(Open \/ StreamChunk \/ CopyChunk)
    <3>1. UNCHANGED vars
      BY <2>3 DEF ToolNext, OpenRefused, Get, NotImplemented, ReadStart, StreamEnd,
         FinishPartial, SyncAll, Rename, Abandon, LosePower, WriteStart, InputChanges,
         WriteChunk, WriteEnd
    <3> QED
      BY <3>1, OverlayStep DEF ToolInv
  <2> QED
    BY <2>1, <2>2, <2>3
<1> QED
  BY <1>1, <1>2, ToolInvariant, PTL DEF ToolSpec, ImplementsFlatDevice, Flat!Spec
=============================================================================

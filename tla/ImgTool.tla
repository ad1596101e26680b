------------------------------ MODULE ImgTool --------------------------------
(***************************************************************************)
(* One run of `img.vhdx` (src/src/cli/vhdx/img.rs): info, read to stdout,  *)
(* read to a file, write from a file or a pipe.  The read-only verbs run   *)
(* over the overlay of module Overlay: opening the image makes any calls   *)
(* on it (module OpenPipeline says which), and the guest's byte o is the   *)
(* device's byte o, as in an image whose blocks lie in order.  `write`     *)
(* works on a guest disk that a VhdxReader keeps (module VhdxImage).       *)
(***************************************************************************)
EXTENDS Overlay, FiniteSets

CONSTANTS
  CHUNK,         \* bytes moved at a time
  VirtualSize,   \* bytes of the guest disk
  Verbs,         \* the verbs run, of those below
  Ranges,        \* the <<--offset, --length>> given, None for one left out
  Inputs,        \* what stdin may hold
  HEADER1, HEADER2,   \* where a header is: its byte is its sequence number
  OldFile,       \* what the output file holds before
  Leftover,      \* what a killed run left in FILE.partial
  OldDisk,       \* what the guest disk holds before a write
  MaxCalls       \* bound: calls an open makes

None == -1
NoFile == <<None>>   \* no file holds this byte
GuestAddresses == 0 .. VirtualSize - 1

ASSUME ToolAssumption ==
  /\ CHUNK \in Nat \ {0}
  /\ VirtualSize \in Nat
  /\ Verbs \subseteq {"info", "read", "readFile", "write", "writeFile", "create"}
  /\ Ranges \subseteq (Nat \cup {None}) \X (Nat \cup {None})
  /\ Inputs \subseteq Seq(Bytes)
  /\ OldDisk \in [GuestAddresses -> Bytes]
  /\ Bytes \subseteq Nat
  /\ HEADER1 \in Nat /\ HEADER2 \in Nat

VARIABLES
  arg,        \* the command line: verb, offset and length (None: not given), same
  phase,      \* how far the verb is
  at,         \* the cursor of its loop
  stdout,     \* what `read` has written
  partial,    \* FILE.partial, or NoFile
  synced,     \* whether what it holds is on stable storage
  dest,       \* FILE
  destMay,    \* what FILE may hold after a power loss
  input,      \* what stdin holds
  left,       \* how much of it `write` will take
  took,       \* what it has taken
  disk,       \* the guest disk `write` writes
  report,     \* what is reported
  exit,       \* the exit status, or None
  calls

toolVars == <<arg, phase, at, stdout, partial, synced, dest, destMay, input, left, took,
              disk, report, exit, calls>>
readVars == <<stdout, partial, synced, dest, destMay>>
writeVars == <<input, left, took, disk>>

End(code) == phase' = "ended" /\ exit' = code
Smaller(a, b) == IF a < b THEN a ELSE b

-----------------------------------------------------------------------------
(* `open`: the library opens the image on the overlay.  An error of the    *)
(* device ends it, and so does whatever the library refuses the image for: *)
(* 3 if it is Unsupported, 1 otherwise (vhdx_error).                       *)
OpenForgiving ==
  /\ phase = "opening"
  /\ calls < MaxCalls
  /\ Next
  /\ calls' = calls + 1
  /\ UNCHANGED <<arg, phase, at, readVars, writeVars, report, exit>>
Open ==
  /\ phase = "opening"
  /\ calls < MaxCalls
  /\ Next
  /\ calls' = calls + 1
  /\ IF call'.op \in {"writeError", "readError", "setLenError"}
     THEN End(1) ELSE UNCHANGED <<phase, exit>>
  /\ UNCHANGED <<arg, at, readVars, writeVars, report>>

OpenRefused ==
  /\ phase = "opening"
  /\ \E code \in {1, 3} : End(code)
  /\ UNCHANGED <<vars, arg, at, readVars, writeVars, report, calls>>

(* file_header: the valid slot with the higher sequence number, the first  *)
(* on a tie, of the file itself and not of what a replay made of it.       *)
Best(seqs) == IF seqs = {} THEN None ELSE CHOOSE n \in seqs : \A k \in seqs : k <= n
FileHeaderReplayed ==
  Best({ByteAt(o) : o \in {x \in {HEADER1, HEADER2} : x < len /\ ByteAt(x) # Zero}})
FileHeader ==
  Best({base[o + 1] : o \in {x \in {HEADER1, HEADER2} : x < baseLen /\ base[x + 1] # Zero}})

(* get: the report, or 2 for a key that does not exist.                    *)
Get ==
  /\ phase = "opening"
  /\ arg.verb = "info"
  /\ \/ /\ report' = [dirty |-> written, header |-> FileHeader]
        /\ End(0)
     \/ UNCHANGED report /\ \E code \in {1, 2} : End(code)
  /\ UNCHANGED <<vars, arg, at, readVars, writeVars, calls>>

(* create, set, resize. *)
NotImplemented ==
  /\ phase = "start"
  /\ arg.verb = "create"
  /\ End(3)
  /\ UNCHANGED <<vars, arg, at, readVars, writeVars, report, calls>>

-----------------------------------------------------------------------------
(* range: the bytes asked for, refused whole when some are past the end.   *)
Offset == IF arg.offset = None THEN 0 ELSE arg.offset
Length == IF arg.length = None THEN VirtualSize - Offset ELSE arg.length
RangeOk == Offset <= VirtualSize /\ Offset + Length <= VirtualSize

(* read: the library has opened the image; stdout, or a new FILE.partial.  *)
CreatePartialKept == IF partial = NoFile THEN << >> ELSE partial
CreatePartial == << >>
ReadStart ==
  /\ phase = "opening"
  /\ arg.verb \in {"read", "readFile"}
  /\ at' = Offset
  /\ \/ /\ ~RangeOk
        /\ End(1)
        /\ UNCHANGED <<partial, synced>>
     \/ /\ RangeOk
        /\ \/ arg.verb = "read" /\ phase' = "stream" /\ UNCHANGED <<partial, synced, exit>>
           \/ /\ arg.verb = "readFile"
              /\ \/ /\ partial' = CreatePartial
                    /\ synced' = FALSE
                    /\ phase' = "copy"
                    /\ UNCHANGED exit
                 \/ /\ phase' = "abandon"
                    /\ UNCHANGED <<partial, synced, exit>>
  /\ UNCHANGED <<vars, arg, stdout, dest, destMay, writeVars, report, calls>>

ChunkWhole == CHUNK
ChunkHere == Smaller(CHUNK, Offset + Length - at)

(* r.read_at of the next chunk, which fails where the device does. *)
ReadChunk(n) == ReadAt(at, n)
ReadChunkFails(n) == ReadAtFails(at, n) \/ OutOfBounds(at, n, "readError")

(* A chunk to stdout, all of it or, if stdout fails, a part.  A closed     *)
(* pipe is no failure.                                                     *)
StreamChunk ==
  LET n == ChunkHere IN
  /\ phase = "stream"
  /\ at < Offset + Length
  /\ \/ /\ ReadChunk(n)
        /\ \/ /\ stdout' = stdout \o call'.result
              /\ at' = at + n
              /\ UNCHANGED <<phase, exit>>
           \/ /\ \E k \in 0 .. n - 1 : stdout' = stdout \o SubSeq(call'.result, 1, k)
              /\ \E code \in {0, 1} : End(code)
              /\ UNCHANGED at
     \/ /\ ReadChunkFails(n)
        /\ \E code \in {1, 3} : End(code)
        /\ UNCHANGED <<stdout, at>>
  /\ UNCHANGED <<arg, partial, synced, dest, destMay, writeVars, report, calls>>

StreamEnd ==
  /\ phase = "stream"
  /\ at >= Offset + Length
  /\ \E code \in {0, 1} : End(code)
  /\ UNCHANGED <<vars, arg, at, readVars, writeVars, report, calls>>

-----------------------------------------------------------------------------
(* A file of bytes f with bs written at position pos: a gap reads as zeros. *)
Placed(f, pos, bs) ==
  LET n == IF Len(f) > pos + Len(bs) THEN Len(f) ELSE pos + Len(bs)
  IN  [i \in 1 .. n |-> IF i \in pos + 1 .. pos + Len(bs) THEN bs[i - pos]
                        ELSE IF i <= Len(f) THEN f[i] ELSE Zero]
Cut(f, n) == [i \in 1 .. n |-> IF i <= Len(f) THEN f[i] ELSE Zero]
AllZero(bs) == \A i \in DOMAIN bs : bs[i] = Zero

(* A chunk to FILE.partial; one of zeros only moves the file's cursor.     *)
(* The write may fail on the way, and so may the seek.                     *)
CopyChunk ==
  LET n == ChunkHere IN
  /\ phase = "copy"
  /\ at < Offset + Length
  /\ \/ /\ ReadChunk(n)
        /\ \/ /\ partial' = IF AllZero(call'.result) THEN partial
                            ELSE Placed(partial, at - Offset, call'.result)
              /\ at' = at + n
              /\ UNCHANGED phase
           \/ /\ \E k \in 0 .. n - 1 :
                   partial' = IF AllZero(call'.result) THEN partial
                              ELSE Placed(partial, at - Offset, SubSeq(call'.result, 1, k))
              /\ phase' = "abandon"
              /\ UNCHANGED at
     \/ ReadChunkFails(n) /\ phase' = "abandon" /\ UNCHANGED <<partial, at>>
  /\ UNCHANGED <<arg, stdout, synced, dest, destMay, writeVars, report, exit, calls>>

(* The length is set, then the file synced, then renamed. *)
SetPartialLenNot == partial
SetPartialLen == Cut(partial, Length)
FinishPartial ==
  /\ phase = "copy"
  /\ at >= Offset + Length
  /\ \/ partial' = SetPartialLen /\ phase' = "sync"
     \/ UNCHANGED partial /\ phase' = "abandon"
  /\ UNCHANGED <<vars, arg, at, stdout, synced, dest, destMay, writeVars, report, exit, calls>>

SyncNot ==
  /\ phase = "sync"
  /\ phase' = "rename"
  /\ UNCHANGED <<vars, arg, at, readVars, writeVars, report, exit, calls>>
SyncAll ==
  /\ phase = "sync"
  /\ \/ synced' = TRUE /\ phase' = "rename"
     \/ UNCHANGED synced /\ phase' = "abandon"
  /\ UNCHANGED <<vars, arg, at, stdout, partial, dest, destMay, writeVars, report, exit, calls>>

(* The new name, once it is on stable storage, stands for what was synced  *)
(* of the file, or for any part of what was not.                           *)
Rename ==
  /\ phase = "rename"
  /\ \/ /\ dest' = partial
        /\ destMay' = destMay \cup
             (IF synced THEN {partial} ELSE {SubSeq(partial, 1, k) : k \in 0 .. Len(partial)})
        /\ partial' = NoFile
        /\ End(0)
     \/ UNCHANGED <<dest, destMay, partial>> /\ End(1)
  /\ UNCHANGED <<vars, arg, at, stdout, synced, writeVars, report, calls>>

(* remove_file, whose own failure is ignored. *)
Abandon ==
  /\ phase = "abandon"
  /\ partial' \in {NoFile, partial}
  /\ \E code \in {1, 3} : End(code)
  /\ UNCHANGED <<vars, arg, at, stdout, synced, dest, destMay, writeVars, report, calls>>

(* Power is lost, in the run or after it. *)
LosePower ==
  /\ phase # "lost"
  /\ arg.verb = "readFile"
  /\ phase' = "lost"
  /\ dest' \in destMay
  /\ destMay' = {dest'}
  /\ UNCHANGED <<vars, arg, at, stdout, partial, synced, writeVars, report, exit, calls>>

-----------------------------------------------------------------------------
(* write: the image is opened for writing and everything that can be       *)
(* refused is: the image (3 if it is Unsupported), the offset, the image   *)
(* itself on stdin, more input than there is room.  arg.skip is how far    *)
(* the file on stdin had been read before.                                 *)
Room == VirtualSize - Offset
InputLen == IF arg.verb = "writeFile"
            THEN IF Len(input) > arg.skip THEN Len(input) - arg.skip ELSE 0
            ELSE Smaller(Len(input), Room + 1)
WriteStart ==
  /\ phase = "start"
  /\ arg.verb \in {"write", "writeFile"}
  /\ at' = Offset
  /\ \/ (\E code \in {1, 3} : End(code)) /\ UNCHANGED left
     \/ /\ \/ Offset > VirtualSize
           \/ arg.verb = "writeFile" /\ arg.same
           \/ InputLen > Room
        /\ End(1)
        /\ UNCHANGED left
     \/ /\ Offset <= VirtualSize
        /\ ~(arg.verb = "writeFile" /\ arg.same)
        /\ InputLen <= Room
        /\ left' = InputLen
        /\ phase' = "write"
        /\ UNCHANGED exit
  /\ UNCHANGED <<vars, arg, readVars, input, took, disk, report, calls>>

(* Someone else writes the file on stdin, or cuts it. *)
InputChanges ==
  /\ phase = "write"
  /\ arg.verb = "writeFile"
  /\ input' \in Inputs
  /\ UNCHANGED <<vars, arg, phase, at, readVars, left, took, disk, report, exit, calls>>

(* The next chunk of stdin: no further than the length that was checked,   *)
(* whatever the file does while it is read.                                *)
Position == at - Offset + (IF arg.verb = "writeFile" THEN arg.skip ELSE 0)
Available == IF Len(input) > Position THEN Len(input) - Position ELSE 0
TakeAll == Smaller(CHUNK, Available)
Take == Smaller(CHUNK, Smaller(left, Available))

Splice(off, bs) ==
  [a \in GuestAddresses |-> IF a \in off .. off + Len(bs) - 1 THEN bs[a - off + 1] ELSE disk[a]]

(* r.write_at of it: all of it; or an error, the range past the end of the *)
(* disk before anything is written, any other after a part of it.          *)
WriteChunk ==
  LET n == Take
      bs == SubSeq(input, Position + 1, Position + n) IN
  /\ phase = "write"
  /\ n > 0
  /\ took' = took \o bs
  /\ left' = left - n
  /\ \/ /\ at + n <= VirtualSize
        /\ disk' = Splice(at, bs)
        /\ at' = at + n
        /\ UNCHANGED <<phase, exit>>
     \/ /\ \E k \in 0 .. n - 1 : disk' = Splice(at, SubSeq(bs, 1, k))
        /\ at + n > VirtualSize => UNCHANGED disk
        /\ \E code \in {1, 3} : End(code)
        /\ UNCHANGED at
  /\ UNCHANGED <<vars, arg, readVars, input, report, calls>>

(* The end of the input: flush, and the report. *)
WriteEnd ==
  /\ phase = "write"
  /\ Take = 0
  /\ \/ report' = [bytes |-> at - Offset] /\ End(0)
     \/ UNCHANGED report /\ End(1)
  /\ UNCHANGED <<vars, arg, at, readVars, writeVars, calls>>

-----------------------------------------------------------------------------
NoReport == << >>

ToolInit ==
  /\ Init
  /\ \E v \in Verbs, r \in Ranges, s \in BOOLEAN, k \in 0 .. 1 :
       /\ v \in {"info", "create"} => r = <<None, None>>
       /\ v \in {"write", "writeFile"} => r[1] # None /\ r[2] = None
       /\ v = "writeFile" \/ (~s /\ k = 0)
       /\ arg = [verb |-> v, offset |-> r[1], length |-> r[2], same |-> s, skip |-> k]
       /\ phase = IF v \in {"info", "read", "readFile"} THEN "opening" ELSE "start"
       /\ v \in {"write", "writeFile", "create"} => base = << >>
       /\ input \in IF v \in {"write", "writeFile"} THEN Inputs ELSE {<< >>}
       /\ partial \in IF v = "readFile" THEN {NoFile, Leftover} ELSE {NoFile}
  /\ at = 0
  /\ stdout = << >>
  /\ synced = FALSE
  /\ dest = OldFile
  /\ destMay = {OldFile}
  /\ left = 0
  /\ took = << >>
  /\ disk = OldDisk
  /\ report = NoReport
  /\ exit = None
  /\ calls = 0

ToolNext ==
  \/ Open \/ OpenRefused \/ Get \/ NotImplemented
  \/ ReadStart \/ StreamChunk \/ StreamEnd
  \/ CopyChunk \/ FinishPartial \/ SyncAll \/ Rename \/ Abandon \/ LosePower
  \/ WriteStart \/ InputChanges \/ WriteChunk \/ WriteEnd

ToolSpec == ToolInit /\ [][ToolNext]_<<vars, toolVars>>

-----------------------------------------------------------------------------
Phases == {"start", "opening", "stream", "copy", "sync", "rename", "abandon", "write",
           "ended", "lost"}

(* Every variable has its type, the run has an exit status once it ended,  *)
(* and the cursor stays in the range that was asked for.                   *)
ToolTypeOK ==
  /\ phase \in Phases
  /\ phase # "lost" => (phase = "ended" <=> exit # None)
  /\ exit \in {None, 0, 1, 2, 3}
  /\ phase \in {"stream", "copy"} => at \in Offset .. Offset + Length
  /\ phase \in {"sync", "rename"} => Len(partial) = Length
  /\ left \in Nat
  /\ disk \in [GuestAddresses -> Bytes]

(* What the guest has in the range `read` was asked for. *)
Wanted == [i \in 1 .. Length |-> View[Offset + i - 1]]

(* "FILE is never left half written": whatever fails and whenever power is *)
(* lost, it holds what it held before or all of the range, the zeros that  *)
(* were skipped included, also over what an earlier run left in            *)
(* FILE.partial; and an exit status of 0 means the new contents.           *)
OutputIsWhole ==
  arg.verb = "readFile" =>
    /\ dest # OldFile => RangeOk /\ dest = Wanted
    /\ phase = "ended" /\ exit = 0 => dest = Wanted

(* What `read` has put on stdout is the beginning of the range, even when  *)
(* the run fails on its way.                                               *)
StreamIsPrefix ==
  stdout # << >> => RangeOk /\ Len(stdout) <= Length /\ stdout = SubSeq(Wanted, 1, Len(stdout))

(* A report is of the file as it is: `dirty` is FALSE only if the bytes    *)
(* the library saw are the file's own, and the header is the file's.       *)
ReportIsOfTheFile ==
  (arg.verb = "info" /\ report # NoReport) =>
    /\ ~report.dirty => len = baseLen /\ \A a \in 0 .. baseLen - 1 : View[a] = base[a + 1]
    /\ \A o \in {HEADER1, HEADER2} : o < baseLen => base[o + 1] <= report.header \/ base[o + 1] = Zero

(* `write` puts what it takes from stdin, or the beginning of it, at its   *)
(* offset, and nothing anywhere else; it never asks for more room than     *)
(* there is, whatever becomes of the input meanwhile; input that did not   *)
(* fit has written nothing; and what is reported is what was written.      *)
WriteIsExact ==
  arg.verb \in {"write", "writeFile"} =>
    /\ Offset + Len(took) <= VirtualSize \/ took = << >>
    /\ \E k \in 0 .. Len(took) :
         /\ \A a \in GuestAddresses :
              disk[a] = IF a \in Offset .. Offset + k - 1 THEN took[a - Offset + 1] ELSE OldDisk[a]
         /\ exit = 0 => k = Len(took) /\ report.bytes = k
=============================================================================

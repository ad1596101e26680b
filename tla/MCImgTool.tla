----------------------------- MODULE MCImgTool -------------------------------
(***************************************************************************)
(* A device of two pages of two bytes under a guest disk of three, moved   *)
(* two bytes at a time.                                                    *)
(***************************************************************************)
EXTENDS ImgTool

SmallBuffers == {<<1>>, <<0, 2>>, <<2, 0, 1>>}
SmallBases == {<< >>, <<1, 0, 2>>, <<0, 0, 0, 1>>}
(* The whole disk, a range inside it, its end, and ranges past it. *)
SmallRanges == {<<None, None>>, <<1, 1>>, <<1, None>>, <<3, None>>, <<4, None>>, <<2, 2>>}
SmallInputs == {<< >>, <<2>>, <<1, 2>>, <<2, 1, 1>>, <<1, 1, 1, 1, 1>>}
EarlierFile == <<3>>
EarlierPartial == <<2, 2, 2, 2>>
EarlierDisk == [a \in GuestAddresses |-> 3]
=============================================================================
